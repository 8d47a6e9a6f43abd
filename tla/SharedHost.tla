----------------------------- MODULE SharedHost -----------------------------
(***************************************************************************)
(* Evaluations of several examples by several models at the same time on   *)
(* one host: what they share is the working directories with the programs  *)
(* built there, the machine the programs run on, and execution_lock, which *)
(* is taken around every compile-and-run and every comparison.             *)
(*                                                                         *)
(* What a script does inside is CompileRun's and CompareRun's business:    *)
(* here it is a build into the example's executable and a run of whatever  *)
(* that file holds then.  A process that has its SIGKILL pending counts as *)
(* gone (Session shows that the rest of its group has).                    *)
(***************************************************************************)
EXTENDS Naturals, FiniteSets

CONSTANTS
    Evals,       \* the calls of generate_eval_one that run at the same time
    folder,      \* the working directory of each, a platform's of an example
    model,       \* the model's name of each, as it stands in file names
    MaxRounds,
    Seconds,     \* the timestamps, of one second's resolution
    LockGiven,   \* whether the caller passes an execution_lock
    Leavers,     \* those whose script starts a server in a session of its own
    Nobody

Folders == {folder[e] : e \in Evals}

ASSUME NobodyAssumption == Nobody \notin Evals
ASSUME MaxRoundsAssumption == MaxRounds \in Nat \ {0}
ASSUME LockGivenAssumption == LockGiven \in BOOLEAN
ASSUME LeaversAssumption == Leavers \subseteq Evals

\* A batch evaluates an example with a model once.
ASSUME DistinctAssumption ==
    \A e, f \in Evals : folder[e] = folder[f] /\ model[e] = model[f] => e = f

VARIABLES
    pc,          \* the step each evaluation is at
    lock,        \* who holds execution_lock
    round,
    name,        \* generated_filename of each
    dir,         \* current_round_dir of each
    sources,     \* the code in the generated files of the working directories
    executable,  \* the code the built programs are of
    live,        \* the processes that run on the host, by whose they are
    result,      \* the code the last CompileRunResult of each tells of
    summaries,   \* the code the summary.json files tell of
    last_summary \* as each read it

vars == <<pc, lock, round, name, dir, sources, executable, live, result, summaries,
          last_summary>>

-----------------------------------------------------------------------------
Rounds == 1..MaxRounds
Codes == Evals \X Rounds
NoCode == <<Nobody, 0>>
Contents == Codes \cup {NoCode}
Modes == {"source", "compare"}

\* Mutant: the model is not part of the name.
NameWithoutModel(e, n, second) == <<folder[e], "any", n, second>>

\* {base}_{model_safe}_round{n}_{timestamp} in the working directory, and
\* results/{model_safe}/round{n}_{timestamp} below it.
NameOf(e, n, second) == <<folder[e], model[e], n, second>>
Names == {NameOf(e, n, s) : e \in Evals, n \in Rounds, s \in Seconds}
NoName == <<Nobody, Nobody, 0, 0>>

Own(e) == <<e, round[e]>>
Program(e, mode) == <<folder[e], mode>>
Script(e) == [of |-> e, leads |-> TRUE]
Server(e) == [of |-> e, leads |-> FALSE]

Init ==
    /\ pc = [e \in Evals |-> "ask"]
    /\ lock = Nobody
    /\ round = [e \in Evals |-> 1]
    /\ name = [e \in Evals |-> NoName]
    /\ dir = [e \in Evals |-> NoName]
    /\ sources = [f \in Names |-> NoCode]
    /\ executable = [p \in Folders \X Modes |-> NoCode]
    /\ live = {}
    /\ result = [e \in Evals |-> NoCode]
    /\ summaries = [d \in Names |-> NoCode]
    /\ last_summary = [e \in Evals |-> NoCode]

Goto(e, step) == pc' = [pc EXCEPT ![e] = step]

-----------------------------------------------------------------------------
(* The lock: a no-op context manager if none was given. *)

\* Mutant: comparisons are not serialised.
AcquireForRunsOnly(e) ==
    IF LockGiven /\ pc[e] = "want_source" THEN lock = Nobody /\ lock' = e ELSE UNCHANGED lock

Acquire(e) == IF LockGiven THEN lock = Nobody /\ lock' = e ELSE UNCHANGED lock

\* Mutant: no release when compile_and_run raises or the build fails.
ReleaseUnlessBuilding(e) ==
    IF LockGiven /\ pc[e] # "build_source" THEN lock' = Nobody ELSE UNCHANGED lock

\* On every way out of the with block.
Release(e) == IF LockGiven THEN lock' = Nobody ELSE UNCHANGED lock

-----------------------------------------------------------------------------
\* The model answers, outside the lock; the code is saved under a new name.
Generate(e) ==
    /\ pc[e] = "ask"
    /\ \E second \in Seconds :
          LET file == NameOf(e, round[e], second) IN
          /\ name' = [name EXCEPT ![e] = file]
          /\ sources' = [sources EXCEPT ![file] = Own(e)]
    /\ Goto(e, "want_source")
    /\ UNCHANGED <<lock, round, dir, executable, live, result, summaries, last_summary>>

\* The call of the model, or saving its answer, fails: so does the evaluation.
GiveUp(e) ==
    /\ pc[e] = "ask"
    /\ Goto(e, "done")
    /\ UNCHANGED <<lock, round, name, dir, sources, executable, live, result, summaries,
                   last_summary>>

Wants(mode) == IF mode = "source" THEN "want_source" ELSE "want_compare"
Builds(mode) == IF mode = "source" THEN "build_source" ELSE "build_compare"
Runs(mode) == IF mode = "source" THEN "run_source" ELSE "run_compare"

\* build_and_run.py is started, under the lock.
Start(e, mode) ==
    /\ pc[e] = Wants(mode)
    /\ Acquire(e)
    /\ live' = live \cup {Script(e)}
    /\ Goto(e, Builds(mode))
    /\ UNCHANGED <<round, name, dir, sources, executable, result, summaries, last_summary>>

\* The source is compiled into the executable of that mode.
Build(e, mode) ==
    /\ pc[e] = Builds(mode)
    /\ executable' = [executable EXCEPT ![Program(e, mode)] = sources[name[e]]]
    /\ Goto(e, Runs(mode))
    /\ UNCHANGED <<lock, round, name, dir, sources, live, result, summaries, last_summary>>

\* Mutant: nothing is killed on the way out.
RemainingLive(e, stays) == live

\* _run_in_new_session has killed the script's group; a server in a session of
\* its own is none of it.
Remaining(e, stays) == (live \ {Script(e)}) \cup (IF stays THEN {Server(e)} ELSE {})

\* The script ends, or is killed at the timeout; a server that does not belong to
\* its group may stay.  Exceptions leave the with block in the same way.
End(e) ==
    /\ \/ live' = Remaining(e, FALSE)
       \/ e \in Leavers /\ live' = Remaining(e, TRUE)
    /\ Release(e)

\* compile_and_run returns; what the program is worth is found later.
EndRun(e) ==
    /\ pc[e] = "run_source"
    /\ End(e)
    /\ result' = [result EXCEPT ![e] = executable[Program(e, "source")]]
    /\ Goto(e, "record")
    /\ UNCHANGED <<round, name, dir, sources, executable, summaries, last_summary>>

\* compile_and_run comes back without having run anything: the build failed or
\* was killed.  Or it raises, which ends the evaluation.
EndBuild(e) ==
    /\ pc[e] = "build_source"
    /\ live' = Remaining(e, FALSE) /\ Release(e)
    /\ result' = [result EXCEPT ![e] = Own(e)]
    /\ \E step \in {"record", "done"} : Goto(e, step)
    /\ UNCHANGED <<round, name, dir, sources, executable, summaries, last_summary>>

\* Mutant: one results directory for all rounds.
RecordOnce(e) ==
    /\ pc[e] = "record"
    /\ \E second \in Seconds :
          dir' = [dir EXCEPT ![e] = IF @ = NoName THEN NameOf(e, round[e], second) ELSE @]
    /\ last_summary' = [last_summary EXCEPT ![e] = NoCode]
    /\ \E step \in {"want_compare", "move"} : Goto(e, step)
    /\ UNCHANGED <<lock, round, name, sources, executable, live, result, summaries>>

\* The round's results directory, with the prompt and, of a failure, the output.
Record(e) ==
    /\ pc[e] = "record"
    /\ \E second \in Seconds : dir' = [dir EXCEPT ![e] = NameOf(e, round[e], second)]
    /\ last_summary' = [last_summary EXCEPT ![e] = NoCode]
    /\ \E step \in {"want_compare", "move"} : Goto(e, step)
    /\ UNCHANGED <<lock, round, name, sources, executable, live, result, summaries>>

\* The comparison ran to its end and wrote its summary, or it did not.
EndCompare(e) ==
    /\ pc[e] \in {"build_compare", "run_compare"}
    /\ End(e)
    /\ \/ /\ pc[e] = "run_compare"
          /\ summaries' = [summaries EXCEPT ![dir[e]] = executable[Program(e, "compare")]]
       \/ UNCHANGED summaries
    /\ Goto(e, "read")
    /\ UNCHANGED <<round, name, dir, sources, executable, result, last_summary>>

\* summary.json is read after the lock was given back.
ReadSummary(e) ==
    /\ pc[e] = "read"
    /\ last_summary' = [last_summary EXCEPT ![e] = summaries[dir[e]]]
    /\ Goto(e, "move")
    /\ UNCHANGED <<lock, round, name, dir, sources, executable, live, result, summaries>>

Another(e) == round[e] < MaxRounds

\* The source goes to the round's directory; another round, or the end.
MoveSource(e) ==
    /\ pc[e] = "move"
    /\ sources' = [sources EXCEPT ![name[e]] = NoCode]
    /\ \/ /\ Another(e)
          /\ round' = [round EXCEPT ![e] = @ + 1]
          /\ Goto(e, "ask")
       \/ Goto(e, "done") /\ UNCHANGED round
    /\ UNCHANGED <<lock, name, dir, executable, live, result, summaries, last_summary>>

Step(e) ==
    \/ Generate(e) \/ GiveUp(e)
    \/ \E mode \in Modes : Start(e, mode) \/ Build(e, mode)
    \/ EndBuild(e) \/ EndRun(e) \/ Record(e) \/ EndCompare(e)
    \/ ReadSummary(e) \/ MoveSource(e)

\* A server that was left alone ends some time, or never.
ServerEnds(e) ==
    /\ Server(e) \in live
    /\ live' = live \ {Server(e)}
    /\ UNCHANGED <<pc, lock, round, name, dir, sources, executable, result, summaries,
                   last_summary>>

Done == (\A e \in Evals : pc[e] = "done") /\ UNCHANGED vars

Next == (\E e \in Evals : Step(e) \/ ServerEnds(e)) \/ Done

\* The model's SDK answers or raises, scripts end or are killed at the timeout, and
\* a thread that can go on does.  The lock is not fair.
Spec == Init /\ [][Next]_vars /\ \A e \in Evals : WF_vars(Step(e))

-----------------------------------------------------------------------------
Steps == {"ask", "want_source", "build_source", "run_source", "record", "want_compare",
          "build_compare", "run_compare", "read", "move", "done"}

\* While the lock is held; and while the result of this round stands.
Holding == {"build_source", "run_source", "build_compare", "run_compare"}
Judged == {"record", "want_compare", "build_compare", "run_compare", "read", "move"}

\* The values of the variables.
TypeOK ==
    /\ pc \in [Evals -> Steps]
    /\ lock \in Evals \cup {Nobody}
    /\ round \in [Evals -> Rounds]
    /\ name \in [Evals -> Names \cup {NoName}]
    /\ dir \in [Evals -> Names \cup {NoName}]
    /\ sources \in [Names -> Contents]
    /\ executable \in [Folders \X Modes -> Contents]
    /\ live \subseteq [of : Evals, leads : BOOLEAN]
    /\ result \in [Evals -> Contents]
    /\ summaries \in [Names -> Contents]
    /\ last_summary \in [Evals -> Contents]

\* With a lock given, the result an evaluation goes on with is of the code it
\* generated in this round, whatever else is built into the same executable of the
\* same example meanwhile.  (generate_eval_one.py, lines 360-366.)
OwnCodeJudged ==
    LockGiven => \A e \in Evals : pc[e] \in Judged => result[e] = Own(e)

\* With a lock given, the summary it reads, after giving the lock back, tells of
\* that code too, or there is none.  (Lines 479-497.)
OwnCodeMeasured ==
    LockGiven => \A e \in Evals :
                    pc[e] = "move" => last_summary[e] \in {Own(e), NoCode}

\* With a lock given, no two build_and_run.py run at the same time, whatever way
\* they end, a server left behind or not.
OneScriptAtATime ==
    LockGiven => \A p, q \in live : p.leads /\ q.leads => p = q

\* Every evaluation returns: though the lock is not fair, the rounds are bounded,
\* and it is given back on every way out, so that nobody waits forever.
EveryoneReturns == \A e \in Evals : <>(pc[e] = "done")

\* Where an evaluation stands if the lock, the folder and the machine are not seen.
SeenAs(step) ==
    CASE step \in {"ask", "want_source", "build_source", "run_source"} -> "generate"
      [] step \in Judged \ {"move"} -> "judged"
      [] step = "move" -> "measured"
      [] step = "done" -> "returned"

Alone == INSTANCE OwnMachines WITH
    at       <- [e \in Evals |-> SeenAs(pc[e])],
    judged   <- [e \in Evals |-> IF pc[e] \in Judged THEN result[e] ELSE NoCode],
    measured <- [e \in Evals |-> IF pc[e] = "move" THEN last_summary[e] ELSE NoCode]

\* With a lock given, evaluations that share the host, and even their folder, do
\* what they could have done each on a machine of its own.  (Lines 148-153.)
ImplementsOwnMachines == Alone!Spec

-----------------------------------------------------------------------------
(* What the repository says and the code does not do. *)

\* All execution is serialised, so that measurements are not perturbed by
\* neighbours.  (Lines 148-151.)
NoNeighbours == LockGiven => \A p, q \in live : p.of = q.of
=============================================================================

------------------------------ MODULE Session ------------------------------
(***************************************************************************)
(* _run_in_new_session: run a build_and_run.py in a POSIX session of its   *)
(* own, wait for it with a timeout, and take its whole process group down, *)
(* so that no rank worker keeps the GPU busy afterwards.                   *)
(*                                                                         *)
(* The processes below the script fork, leave the group, exit, ignore      *)
(* SIGTERM and keep the inherited pipe open as they like.  SIGKILL is only *)
(* sent here: the process dies some time later.                            *)
(*                                                                         *)
(* The group is known to the parent by its number only, the leader's pid.  *)
(* The number is the group's while a member lives or the dead leader is    *)
(* not reaped; after that the kernel may give it to a stranger, a process  *)
(* of another session that makes a group of its own.                       *)
(***************************************************************************)
EXTENDS Naturals, FiniteSets

CONSTANTS
    Procs,        \* the processes the session may ever have
    Leader,       \* build_and_run.py, whose pid is the session's and group's id
    MayLeave      \* those that may leave the leader's process group

ASSUME LeaderAssumption == Leader \in Procs
ASSUME MayLeaveAssumption == MayLeave \subseteq Procs \ {Leader}

VARIABLES
    pc,        \* where the parent is in _run_in_new_session
    outcome,   \* what it is going to return or raise
    alive,     \* the processes of the session that run
    used,      \* those that were ever started
    group,     \* the members of the leader's process group, dead or alive
    pipe,      \* those that have the inherited stdout or stderr open
    doomed,    \* those that have a SIGKILL pending
    reaped,    \* the leader is dead and the parent has its exit status
    taken,     \* a stranger's group has the number
    strays     \* the signals that have hit a stranger

vars == <<pc, outcome, alive, used, group, pipe, doomed, reaped, taken, strays>>
childVars == <<alive, used, group, pipe, doomed>>
numberVars == <<reaped, taken, strays>>

-----------------------------------------------------------------------------
Init ==
    /\ pc = "communicate"
    /\ outcome = "none"
    /\ alive = {Leader} /\ used = {Leader} /\ group = {Leader} /\ pipe = {Leader}
    /\ doomed = {}
    /\ reaped = FALSE /\ taken = FALSE /\ strays = {}

Running == alive \ doomed

\* The members a signal to the group reaches.
Targets == alive \cap group

\* Wait for the end of both pipes and for the leader.
Finished == pipe \cap alive = {} /\ Leader \notin alive

-----------------------------------------------------------------------------
(* The processes. *)

Fork(p, q) ==
    /\ p \in Running /\ q \notin used
    /\ alive' = alive \cup {q} /\ used' = used \cup {q}
    /\ group' = IF p \in group THEN group \cup {q} ELSE group
    /\ pipe' = IF p \in pipe THEN pipe \cup {q} ELSE pipe
    /\ UNCHANGED <<pc, outcome, doomed, numberVars>>

\* setpgid or setsid, as job-control launchers do for their ranks.
LeaveGroup(p) ==
    /\ p \in Running \cap group \cap MayLeave
    /\ group' = group \ {p}
    /\ UNCHANGED <<pc, outcome, alive, used, pipe, doomed, numberVars>>

\* Its output goes elsewhere: to a pipe of build_and_run.py's, to a log file.
ClosePipe(p) ==
    /\ p \in Running \cap pipe
    /\ pipe' = pipe \ {p}
    /\ UNCHANGED <<pc, outcome, alive, used, group, doomed, numberVars>>

\* It ends by itself, or by a SIGTERM it does not handle, or by the SIGKILL.
Exit(p) ==
    /\ p \in alive
    /\ alive' = alive \ {p}
    /\ UNCHANGED <<pc, outcome, used, group, pipe, doomed, numberVars>>

-----------------------------------------------------------------------------
(* The parent. *)

\* _killpg_safe: the signal goes to whoever has the number; ESRCH is swallowed.
Hits(signal) == strays' = IF taken THEN strays \cup {signal} ELSE strays

\* The same with SIGKILL, to the group if it is still there.
KillGroup(step) ==
    /\ doomed' = doomed \cup Targets
    /\ Hits(step)

\* Mutant: the TimeoutExpired is not raised again.
CompletedQuietly ==
    /\ pc \in {"communicate", "terminated", "killed"}
    /\ Finished
    /\ outcome' = IF pc = "communicate" THEN "completed" ELSE outcome
    /\ pc' = "sweep"
    /\ reaped' = TRUE
    /\ UNCHANGED <<childVars, taken, strays>>

\* proc.communicate() came to the end of the output and reaped the leader, in
\* the first wait, in the 5 seconds after SIGTERM, or after SIGKILL.
Completed ==
    /\ pc \in {"communicate", "terminated", "killed"}
    /\ Finished
    /\ outcome' = IF pc = "communicate" THEN "completed" ELSE "timeout"
    /\ pc' = "sweep"
    /\ reaped' = TRUE
    /\ UNCHANGED <<childVars, taken, strays>>

\* Mutant: first see whether the child has ended (poll(), which reaps it).
TimedOutPolling ==
    /\ pc = "communicate"
    /\ Hits("SIGTERM")
    /\ pc' = "terminated"
    /\ reaped' = (Leader \notin alive)
    /\ UNCHANGED <<outcome, childVars, taken>>

\* The timeout, also one that just precedes the end of the output: SIGTERM to
\* the group.  communicate() has not reaped the leader, even if it is dead.
TimedOut ==
    /\ pc = "communicate"
    /\ Hits("SIGTERM")
    /\ pc' = "terminated"
    /\ UNCHANGED <<outcome, childVars, reaped, taken>>

\* Mutant: SIGTERM is all that is sent.
TermOnly ==
    /\ pc = "terminated"
    /\ pc' = "killed"
    /\ UNCHANGED <<outcome, childVars, numberVars>>

\* Still not finished 5 seconds later: SIGKILL, and wait without a timeout.
TermIgnored ==
    /\ pc = "terminated"
    /\ KillGroup("SIGKILL")
    /\ pc' = "killed"
    /\ UNCHANGED <<outcome, alive, used, group, pipe, reaped, taken>>

\* Mutant: no finally block.
InterruptedPlain ==
    /\ pc \in {"communicate", "terminated", "killed"}
    /\ outcome' = "interrupted"
    /\ pc' = "returned"
    /\ UNCHANGED <<childVars, numberVars>>

\* KeyboardInterrupt while waiting: straight to the finally block, but
\* communicate() gives the child a moment to end, and reaps it if it has.
Interrupted ==
    /\ pc \in {"communicate", "terminated", "killed"}
    /\ outcome' = "interrupted"
    /\ pc' = "sweep"
    /\ reaped' \in {reaped, Leader \notin alive}
    /\ UNCHANGED <<childVars, taken, strays>>

\* The finally block, on every way out.
Sweep ==
    /\ pc = "sweep"
    /\ KillGroup("sweep")
    /\ pc' = "returned"
    /\ UNCHANGED <<outcome, alive, used, group, pipe, reaped, taken>>

-----------------------------------------------------------------------------
(* The kernel. *)

\* Nobody holds the number any more; a new process gets it, and heads a group.
TakeNumber ==
    /\ reaped /\ Targets = {} /\ ~taken
    /\ taken' = TRUE
    /\ UNCHANGED <<pc, outcome, childVars, reaped, strays>>

Done == pc = "returned" /\ UNCHANGED vars

Parent == Completed \/ TimedOut \/ TermIgnored \/ Sweep

Next ==
    \/ \E p, q \in Procs : Fork(p, q)
    \/ \E p \in Procs : LeaveGroup(p) \/ ClosePipe(p) \/ Exit(p)
    \/ Parent \/ Interrupted
    \/ TakeNumber
    \/ Done

\* The parent is scheduled and its timeouts expire; a process with a SIGKILL
\* pending dies.  Nothing else is owed: a program may hang forever.
Spec ==
    /\ Init /\ [][Next]_vars
    /\ WF_vars(Parent)
    /\ \A p \in Procs : WF_vars(p \in doomed /\ Exit(p))

-----------------------------------------------------------------------------
\* The values of the variables: nothing but a started process runs, is in the
\* group, holds the pipe or was killed, and the outcome is settled when the
\* finally block begins.
TypeOK ==
    /\ pc \in {"communicate", "terminated", "killed", "sweep", "returned"}
    /\ outcome \in {"none", "completed", "timeout", "interrupted"}
    /\ used \subseteq Procs
    /\ alive \subseteq used /\ group \subseteq used /\ pipe \subseteq used /\ doomed \subseteq used
    /\ reaped \in BOOLEAN /\ taken \in BOOLEAN
    /\ strays \subseteq {"SIGTERM", "SIGKILL", "sweep"}
    /\ outcome = "none" <=> pc \in {"communicate", "terminated", "killed"}

\* Whatever way the call ends, after it every process of the leader's group that
\* still runs has its SIGKILL pending: not one can go on using the GPU, start
\* another worker or leave the group.  (compile_run.py, lines 160-167 and 195-199.)
NoSurvivor == pc = "returned" => alive \cap group \subseteq doomed

\* The two signals of the timeout never hit a stranger, though the leader may be
\* long dead and its group empty when they are sent: nobody has reaped it.  The
\* sweep of the finally block is the one signal that may, and only when there is
\* no group left that it could have been meant for.  (compile_run.py, lines
\* 184-191; the comment at 196-198 rules the stranger out.)
OnlySweepStrays == strays # {} => strays = {"sweep"} /\ reaped /\ Targets = {}

\* In the wait that has no timeout (line 192), whoever is still waited for either
\* has a SIGKILL pending or left the group with the pipe open.
WaitsForDesertersOnly ==
    pc = "killed" =>
        \A p \in alive : p \in pipe \/ p = Leader => p \in doomed \/ p \in pipe \ group

\* The call returns, and the group it leaves is gone in the end, even if every
\* worker hangs and ignores SIGTERM: all that can keep it waiting for ever is a
\* process that has left the group with the pipe open.
Returns ==
    \/ <>(pc = "returned" /\ alive \cap group = {})
    \/ []<>(\E p \in alive \ group : p \in pipe)

=============================================================================

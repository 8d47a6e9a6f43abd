--------------------------- MODULE SharedHostProofs ---------------------------
(***************************************************************************)
(* Whatever runs beside it, an evaluation under the lock judges and        *)
(* measures its own code, and scripts run one at a time: for any number of *)
(* evaluations, examples, models and rounds.                               *)
(***************************************************************************)
EXTENDS SharedHost, TLAPS

\* The source of this round is in the working directory, under a name only this
\* evaluation gives.
Saved == Holding \cup Judged \cup {"want_source"}

\* The round has its results directory.
Recorded == Judged \ {"record"}

-----------------------------------------------------------------------------
(* The inductive invariant. *)

\* Who holds the lock is who is inside a with block.
LockInv == LockGiven => \A e \in Evals : lock = e <=> pc[e] \in Holding

\* The generated file holds this round's code.
SourceInv ==
    \A e \in Evals : pc[e] \in Saved =>
        /\ \E s \in Seconds : name[e] = NameOf(e, round[e], s)
        /\ sources[name[e]] = Own(e)

DirInv ==
    \A e \in Evals : pc[e] \in Recorded => \E s \in Seconds : dir[e] = NameOf(e, round[e], s)

\* A program that was built under the lock stays what it is until it has run.
BuiltInv ==
    LockGiven => \A e \in Evals, mode \in Modes :
                    pc[e] = Runs(mode) => executable[Program(e, mode)] = Own(e)

\* A summary tells of the code of the evaluation and round its directory is named for.
SummaryInv ==
    LockGiven => \A e \in Evals, n \in Rounds, s \in Seconds :
                    summaries[NameOf(e, n, s)] \in {<<e, n>>, NoCode}

\* A script runs inside a with block only.
LiveInv == \A e \in Evals : Script(e) \in live => pc[e] \in Holding

Inv ==
    /\ TypeOK /\ LockInv /\ SourceInv /\ DirInv /\ BuiltInv /\ SummaryInv /\ LiveInv
    /\ OwnCodeJudged /\ OwnCodeMeasured

-----------------------------------------------------------------------------
\* No two evaluations, and no two rounds of one, name a file or a directory alike:
\* the timestamp does not have to tell them apart.
LEMMA NamesDiffer ==
    ASSUME NEW e \in Evals, NEW f \in Evals, NEW n, NEW m, NEW s, NEW t,
           NameOf(e, n, s) = NameOf(f, m, t)
    PROVE  e = f /\ n = m
BY DistinctAssumption DEF NameOf

LEMMA NamesAreNames ==
    ASSUME NEW e \in Evals, NEW n \in Rounds, NEW s \in Seconds
    PROVE  NameOf(e, n, s) \in Names
BY DEF Names

LEMMA InitInv == Init => Inv
<1> SUFFICES ASSUME Init PROVE Inv
    OBVIOUS
<1>1. TypeOK
    BY MaxRoundsAssumption DEF Init, TypeOK, Steps, Contents, NoCode, Rounds
<1>2. LockInv
    BY NobodyAssumption DEF Init, LockInv, Holding
<1>3. SourceInv /\ DirInv /\ BuiltInv /\ LiveInv /\ OwnCodeJudged /\ OwnCodeMeasured
    BY DEF Init, SourceInv, DirInv, BuiltInv, LiveInv, OwnCodeJudged, OwnCodeMeasured, Saved,
           Holding, Judged, Recorded, Runs, Modes
<1>4. SummaryInv
    BY NamesAreNames DEF Init, SummaryInv
<1> QED
    BY <1>1, <1>2, <1>3, <1>4 DEF Inv

-----------------------------------------------------------------------------
(* One lemma for each part of the invariant. *)

LEMMA TypeStep ==
    ASSUME Inv, NEW e \in Evals, Step(e) \/ ServerEnds(e)
    PROVE  TypeOK'
<1> USE DEF Goto
<1>1. TypeOK
    BY DEF Inv
<1>2. Own(e) \in Contents
    BY <1>1 DEF TypeOK, Own, Contents, Codes
<1>3. NoCode \in Contents
    BY DEF Contents
<1>4. \A mode \in Modes : Program(e, mode) \in Folders \X Modes
    BY DEF Program, Folders
<1>5. \A s \in Seconds : NameOf(e, round[e], s) \in Names
    BY <1>1, NamesAreNames DEF TypeOK
<1>6. pc[e] \in Saved => name[e] \in Names
    BY <1>5 DEF Inv, SourceInv
<1>7. pc[e] \in Recorded => dir[e] \in Names
    BY <1>5 DEF Inv, DirInv
<1>8. Script(e) \in [of : Evals, leads : BOOLEAN] /\ Server(e) \in [of : Evals, leads : BOOLEAN]
    BY DEF Script, Server
<1>9. CASE Generate(e)
    BY <1>9, <1>1, <1>2, <1>5 DEF Generate, TypeOK, Steps
<1>10. CASE GiveUp(e)
    BY <1>10, <1>1 DEF GiveUp, TypeOK, Steps
<1>11. ASSUME NEW mode \in Modes, Start(e, mode)
       PROVE  TypeOK'
    <2>1. pc' \in [Evals -> Steps]
        BY <1>11, <1>1 DEF Start, Builds, TypeOK, Steps
    <2>2. lock' \in Evals \cup {Nobody}
        BY <1>11, <1>1 DEF Start, Acquire, TypeOK
    <2>3. live' \subseteq [of : Evals, leads : BOOLEAN]
        BY <1>11, <1>1, <1>8 DEF Start, TypeOK
    <2> QED
        BY <1>11, <1>1, <2>1, <2>2, <2>3 DEF Start, TypeOK
<1>12. ASSUME NEW mode \in Modes, Build(e, mode)
       PROVE  TypeOK'
    <2>1. name[e] \in Names
        BY <1>12, <1>6 DEF Build, Builds, Modes, Saved, Holding
    <2> QED
        BY <1>12, <1>1, <1>4, <2>1 DEF Build, Runs, TypeOK, Steps
<1>13. CASE EndBuild(e)
    BY <1>13, <1>1, <1>2, <1>8 DEF EndBuild, Release, Remaining, TypeOK, Steps
<1>14. CASE EndRun(e)
    BY <1>14, <1>1, <1>4, <1>8 DEF EndRun, End, Release, Remaining, TypeOK, Steps, Modes
<1>15. CASE Record(e)
    BY <1>15, <1>1, <1>3, <1>5 DEF Record, TypeOK, Steps
<1>16. CASE EndCompare(e)
    <2>1. dir[e] \in Names
        BY <1>16, <1>7 DEF EndCompare, Recorded, Judged
    <2>2. executable[Program(e, "compare")] \in Contents
        BY <1>1, <1>4 DEF TypeOK, Modes
    <2>3. summaries' \in [Names -> Contents]
        BY <1>16, <1>1, <2>1, <2>2 DEF EndCompare, TypeOK
    <2>4. live' \subseteq [of : Evals, leads : BOOLEAN] /\ lock' \in Evals \cup {Nobody}
        BY <1>16, <1>1, <1>8 DEF EndCompare, End, Release, Remaining, TypeOK
    <2> QED
        BY <1>16, <1>1, <2>3, <2>4 DEF EndCompare, TypeOK, Steps
<1>17. CASE ReadSummary(e)
    <2>1. dir[e] \in Names
        BY <1>17, <1>7 DEF ReadSummary, Recorded, Judged
    <2> QED
        BY <1>17, <1>1, <2>1 DEF ReadSummary, TypeOK, Steps
<1>18. CASE MoveSource(e)
    <2>1. pc' \in [Evals -> Steps]
        BY <1>18, <1>1 DEF MoveSource, TypeOK, Steps
    <2>2. round[e] < MaxRounds => round[e] + 1 \in Rounds
        BY <1>1, MaxRoundsAssumption DEF TypeOK, Rounds
    <2>3. round' \in [Evals -> Rounds]
        BY <1>18, <1>1, <2>2 DEF MoveSource, Another, TypeOK
    <2>4. sources' \in [Names -> Contents]
        BY <1>18, <1>1, <1>3 DEF MoveSource, TypeOK
    <2> QED
        BY <1>18, <1>1, <2>1, <2>3, <2>4 DEF MoveSource, TypeOK
<1>19. CASE ServerEnds(e)
    BY <1>19, <1>1 DEF ServerEnds, TypeOK
<1> QED
    BY <1>9, <1>10, <1>11, <1>12, <1>13, <1>14, <1>15, <1>16, <1>17, <1>18, <1>19 DEF Step

\* Only who is inside a with block can leave one, and nobody enters one that is taken.
LEMMA LockStep ==
    ASSUME Inv, NEW e \in Evals, Step(e) \/ ServerEnds(e)
    PROVE  LockInv'
<1> SUFFICES ASSUME LockGiven, NEW f \in Evals
             PROVE  (lock = f <=> pc[f] \in Holding)'
    BY DEF LockInv
<1> USE DEF Goto, Holding
<1>1. TypeOK /\ lock # Nobody => lock \in Evals
    BY DEF Inv, TypeOK
<1>2. \A g \in Evals : lock = g <=> pc[g] \in Holding
    BY DEF Inv, LockInv
<1>3. pc \in [Evals -> Steps]
    BY DEF Inv, TypeOK
<1>4. CASE Generate(e) \/ GiveUp(e) \/ Record(e) \/ ReadSummary(e) \/ MoveSource(e)
    BY <1>4, <1>2, <1>3 DEF Generate, GiveUp, Record, ReadSummary, MoveSource
<1>5. ASSUME NEW mode \in Modes, Start(e, mode)
      PROVE  (lock = f <=> pc[f] \in Holding)'
    BY <1>5, <1>2, <1>3, NobodyAssumption DEF Start, Acquire, Builds
<1>6. ASSUME NEW mode \in Modes, Build(e, mode)
      PROVE  (lock = f <=> pc[f] \in Holding)'
    BY <1>6, <1>2, <1>3 DEF Build, Builds, Runs
<1>7. CASE EndBuild(e) \/ EndRun(e) \/ EndCompare(e)
    BY <1>7, <1>2, <1>3, NobodyAssumption DEF EndBuild, EndRun, EndCompare, End, Release
<1>8. CASE ServerEnds(e)
    BY <1>8, <1>2 DEF ServerEnds
<1> QED
    BY <1>4, <1>5, <1>6, <1>7, <1>8 DEF Step

\* Nobody else writes or moves a file of this evaluation's name.
LEMMA SourceStep ==
    ASSUME Inv, NEW e \in Evals, Step(e) \/ ServerEnds(e)
    PROVE  SourceInv'
<1> DEFINE Kept(f) == /\ \E s \in Seconds : name[f] = NameOf(f, round[f], s)
                      /\ sources[name[f]] = Own(f)
<1> SUFFICES ASSUME NEW f \in Evals, pc'[f] \in Saved
             PROVE  Kept(f)'
    BY DEF SourceInv
<1> USE DEF Goto
<1>1. TypeOK
    BY DEF Inv
<1>2. pc[f] \in Saved => Kept(f)
    BY DEF Inv, SourceInv
<1>3. pc[e] \in Saved => \E s \in Seconds : name[e] = NameOf(e, round[e], s)
    BY DEF Inv, SourceInv
<1>4. CASE Generate(e)
    <2>1. PICK s \in Seconds : /\ name' = [name EXCEPT ![e] = NameOf(e, round[e], s)]
                               /\ sources' = [sources EXCEPT ![NameOf(e, round[e], s)] = Own(e)]
        BY <1>4 DEF Generate
    <2>2. NameOf(e, round[e], s) \in Names
        BY <1>1, NamesAreNames DEF TypeOK
    <2>3. CASE f = e
        BY <1>1, <1>4, <2>1, <2>2, <2>3 DEF Generate, TypeOK, Own
    <2>4. CASE f # e
        <3>1. pc[f] \in Saved
            BY <1>1, <1>4, <2>4 DEF Generate, TypeOK
        <3>2. PICK t \in Seconds : name[f] = NameOf(f, round[f], t)
            BY <3>1, <1>2
        <3>3. name[f] # NameOf(e, round[e], s)
            BY <3>2, <2>4, NamesDiffer
        <3>4. name[f] \in Names
            BY <3>2, <1>1, NamesAreNames DEF TypeOK
        <3>5. name'[f] = name[f] /\ sources'[name[f]] = sources[name[f]] /\ round' = round
            BY <1>1, <1>4, <2>1, <2>4, <3>3, <3>4 DEF Generate, TypeOK
        <3> QED
            BY <3>1, <3>5, <1>2 DEF Own
    <2> QED
        BY <2>3, <2>4
<1>5. ASSUME UNCHANGED <<name, round, sources>>, pc[f] \in Saved
      PROVE  Kept(f)'
    BY <1>5, <1>2 DEF Own
<1>6. CASE GiveUp(e) \/ Record(e) \/ ReadSummary(e)
    BY <1>6, <1>5, <1>1 DEF GiveUp, Record, ReadSummary, TypeOK, Saved, Holding, Judged
<1>7. ASSUME NEW mode \in Modes, Start(e, mode) \/ Build(e, mode)
      PROVE  Kept(f)'
    BY <1>7, <1>5, <1>1 DEF Start, Build, Wants, Builds, Runs, TypeOK, Saved, Holding, Judged
<1>8. CASE EndBuild(e) \/ EndRun(e) \/ EndCompare(e)
    BY <1>8, <1>5, <1>1 DEF EndBuild, EndRun, EndCompare, TypeOK, Saved, Holding, Judged
<1>9. CASE MoveSource(e)
    <2>1. f # e
        BY <1>9, <1>1 DEF MoveSource, TypeOK, Saved, Holding, Judged
    <2>2. pc[f] \in Saved
        BY <1>9, <1>1, <2>1 DEF MoveSource, TypeOK
    <2>3. PICK t \in Seconds : name[f] = NameOf(f, round[f], t)
        BY <2>2, <1>2
    <2>4. PICK s \in Seconds : name[e] = NameOf(e, round[e], s)
        BY <1>9, <1>3 DEF MoveSource, Saved, Judged
    <2>5. name[f] # name[e]
        BY <2>1, <2>3, <2>4, NamesDiffer
    <2>6. name[f] \in Names
        BY <2>3, <1>1, NamesAreNames DEF TypeOK
    <2>7. name'[f] = name[f] /\ sources'[name[f]] = sources[name[f]] /\ round'[f] = round[f]
        BY <1>1, <1>9, <2>1, <2>5, <2>6 DEF MoveSource, TypeOK
    <2> QED
        BY <2>2, <2>7, <1>2 DEF Own
<1>10. CASE ServerEnds(e)
    BY <1>10, <1>5 DEF ServerEnds
<1> QED
    BY <1>4, <1>6, <1>7, <1>8, <1>9, <1>10 DEF Step

LEMMA DirStep ==
    ASSUME Inv, NEW e \in Evals, Step(e) \/ ServerEnds(e)
    PROVE  DirInv'
<1> DEFINE Dir(f) == \E s \in Seconds : dir[f] = NameOf(f, round[f], s)
<1> SUFFICES ASSUME NEW f \in Evals, pc'[f] \in Recorded
             PROVE  Dir(f)'
    BY DEF DirInv
<1> USE DEF Goto
<1>1. TypeOK
    BY DEF Inv
<1>2. pc[f] \in Recorded => Dir(f)
    BY DEF Inv, DirInv
<1>3. CASE Record(e)
    BY <1>3, <1>2, <1>1 DEF Record, TypeOK
<1>4. ASSUME UNCHANGED <<dir, round>>, pc[f] \in Recorded
      PROVE  Dir(f)'
    BY <1>4, <1>2
<1>5. CASE Generate(e) \/ GiveUp(e) \/ ReadSummary(e) \/ ServerEnds(e)
    BY <1>5, <1>4, <1>1 DEF Generate, GiveUp, ReadSummary, ServerEnds, TypeOK, Recorded, Judged
<1>6. ASSUME NEW mode \in Modes, Start(e, mode) \/ Build(e, mode)
      PROVE  Dir(f)'
    BY <1>6, <1>4, <1>1 DEF Start, Build, Wants, Builds, Runs, TypeOK, Recorded, Judged, Modes
<1>7. CASE EndBuild(e) \/ EndRun(e) \/ EndCompare(e)
    BY <1>7, <1>4, <1>1 DEF EndBuild, EndRun, EndCompare, TypeOK, Recorded, Judged
<1>8. CASE MoveSource(e)
    BY <1>8, <1>2, <1>1 DEF MoveSource, TypeOK, Recorded, Judged
<1> QED
    BY <1>3, <1>5, <1>6, <1>7, <1>8 DEF Step

\* A build needs the lock, so what another one has built stays.
LEMMA BuiltStep ==
    ASSUME Inv, NEW e \in Evals, Step(e) \/ ServerEnds(e)
    PROVE  BuiltInv'
<1> SUFFICES ASSUME LockGiven, NEW f \in Evals, NEW mode \in Modes, pc'[f] = Runs(mode)
             PROVE  (executable[Program(f, mode)] = Own(f))'
    BY DEF BuiltInv
<1> USE DEF Goto
<1>1. TypeOK
    BY DEF Inv
<1>2. pc[f] = Runs(mode) => executable[Program(f, mode)] = Own(f)
    BY DEF Inv, BuiltInv
<1>3. \A g, h \in Evals : pc[g] \in Holding /\ pc[h] \in Holding => g = h
    BY DEF Inv, LockInv
<1>4. ASSUME UNCHANGED executable, round'[f] = round[f], pc[f] = Runs(mode)
      PROVE  (executable[Program(f, mode)] = Own(f))'
    BY <1>4, <1>2 DEF Own, Program
<1>5. ASSUME NEW m \in Modes, Build(e, m)
      PROVE  (executable[Program(f, mode)] = Own(f))'
    <2>1. f = e
        BY <1>5, <1>1, <1>3 DEF Build, Builds, Runs, Holding, TypeOK, Modes
    <2>2. m = mode
        <3>1. Runs(m) = Runs(mode)
            BY <1>5, <2>1, <1>1 DEF Build, TypeOK
        <3>2. CASE m = "source"
            BY <3>1, <3>2 DEF Runs, Modes
        <3>3. CASE m = "compare"
            BY <3>1, <3>3 DEF Runs, Modes
        <3> QED
            BY <3>2, <3>3 DEF Modes
    <2>3. sources[name[e]] = Own(e)
        BY <1>5 DEF Inv, SourceInv, Build, Builds, Saved, Holding, Modes
    <2>4. Program(e, m) \in Folders \X Modes
        BY DEF Program, Folders
    <2>5. executable'[Program(e, m)] = Own(e) /\ round' = round
        BY <1>5, <1>1, <2>3, <2>4 DEF Build, TypeOK
    <2> QED
        BY <2>1, <2>2, <2>5 DEF Own, Program
<1>6. ASSUME NEW m \in Modes, Start(e, m)
      PROVE  (executable[Program(f, mode)] = Own(f))'
    BY <1>6, <1>4, <1>1 DEF Start, Builds, Runs, TypeOK, Modes
<1>7. CASE Generate(e) \/ GiveUp(e) \/ Record(e) \/ ReadSummary(e) \/ ServerEnds(e)
    BY <1>7, <1>4, <1>1 DEF Generate, GiveUp, Record, ReadSummary, ServerEnds, Runs, TypeOK
<1>8. CASE EndBuild(e) \/ EndRun(e) \/ EndCompare(e)
    BY <1>8, <1>4, <1>1 DEF EndBuild, EndRun, EndCompare, Runs, TypeOK
<1>9. CASE MoveSource(e)
    <2>1. f # e /\ pc[f] = Runs(mode)
        BY <1>9, <1>1 DEF MoveSource, Runs, TypeOK
    <2>2. round'[f] = round[f] /\ executable' = executable
        BY <1>9, <1>1, <2>1 DEF MoveSource, TypeOK
    <2> QED
        BY <1>4, <2>1, <2>2
<1> QED
    BY <1>5, <1>6, <1>7, <1>8, <1>9 DEF Step

LEMMA SummaryStep ==
    ASSUME Inv, NEW e \in Evals, Step(e) \/ ServerEnds(e)
    PROVE  SummaryInv'
<1> SUFFICES ASSUME LockGiven, NEW f \in Evals, NEW n \in Rounds, NEW s \in Seconds
             PROVE  summaries'[NameOf(f, n, s)] \in {<<f, n>>, NoCode}
    BY DEF SummaryInv, NameOf
<1>1. TypeOK
    BY DEF Inv
<1>2. summaries[NameOf(f, n, s)] \in {<<f, n>>, NoCode}
    BY DEF Inv, SummaryInv
<1>3. CASE EndCompare(e)
    <2>1. CASE summaries' = summaries
        BY <2>1, <1>2
    <2>2. CASE pc[e] = "run_compare"
               /\ summaries' = [summaries EXCEPT ![dir[e]] = executable[Program(e, "compare")]]
        <3>1. executable[Program(e, "compare")] = Own(e)
            BY <2>2 DEF Inv, BuiltInv, Runs, Modes
        <3>2. PICK t \in Seconds : dir[e] = NameOf(e, round[e], t)
            BY <2>2 DEF Inv, DirInv, Recorded, Judged
        <3>3. CASE NameOf(f, n, s) = dir[e]
            <4>1. f = e /\ n = round[e]
                BY <3>2, <3>3, NamesDiffer
            <4>2. summaries'[dir[e]] = Own(e)
                <5>1. dir[e] \in Names
                    BY <3>2, <1>1, NamesAreNames DEF TypeOK
                <5> QED
                    BY <2>2, <3>1, <5>1, <1>1 DEF TypeOK
            <4> QED
                BY <3>3, <4>1, <4>2 DEF Own
        <3>4. CASE NameOf(f, n, s) # dir[e]
            BY <2>2, <3>4, <1>1, <1>2, NamesAreNames DEF TypeOK
        <3> QED
            BY <3>3, <3>4
    <2> QED
        BY <1>3, <2>1, <2>2 DEF EndCompare
<1>4. CASE ~EndCompare(e)
    <2>1. summaries' = summaries
        BY <1>4 DEF Step, Generate, GiveUp, Start, Build, EndBuild, EndRun, Record, ReadSummary,
              MoveSource, ServerEnds
    <2> QED
        BY <2>1, <1>2
<1> QED
    BY <1>3, <1>4

\* The script's group is killed before the with block is left.
LEMMA LiveStep ==
    ASSUME Inv, NEW e \in Evals, Step(e) \/ ServerEnds(e)
    PROVE  LiveInv'
<1> SUFFICES ASSUME NEW f \in Evals, Script(f) \in live'
             PROVE  pc'[f] \in Holding
    BY DEF LiveInv, Script
<1> USE DEF Goto
<1>1. pc \in [Evals -> Steps]
    BY DEF Inv, TypeOK
<1>2. Script(f) \in live => pc[f] \in Holding
    BY DEF Inv, LiveInv
<1>3. Script(f) # Server(e) /\ (Script(f) = Script(e) => f = e)
    BY DEF Script, Server
<1>4. CASE Generate(e) \/ GiveUp(e) \/ Record(e) \/ ReadSummary(e) \/ MoveSource(e)
    BY <1>4, <1>1, <1>2 DEF Generate, GiveUp, Record, ReadSummary, MoveSource, Holding
<1>5. ASSUME NEW mode \in Modes, Start(e, mode)
      PROVE  pc'[f] \in Holding
    BY <1>5, <1>1, <1>2, <1>3 DEF Start, Builds, Holding
<1>6. ASSUME NEW mode \in Modes, Build(e, mode)
      PROVE  pc'[f] \in Holding
    BY <1>6, <1>1, <1>2 DEF Build, Runs, Holding
<1>7. CASE EndBuild(e) \/ EndRun(e) \/ EndCompare(e)
    <2>1. live' = Remaining(e, FALSE) \/ live' = Remaining(e, TRUE)
        BY <1>7 DEF EndBuild, EndRun, EndCompare, End
    <2>2. Script(f) \in live /\ f # e
        BY <2>1, <1>3 DEF Remaining
    <2>3. pc'[f] = pc[f]
        BY <1>7, <1>1, <2>2 DEF EndBuild, EndRun, EndCompare
    <2> QED
        BY <2>2, <2>3, <1>2
<1>8. CASE ServerEnds(e)
    BY <1>8, <1>2 DEF ServerEnds
<1> QED
    BY <1>4, <1>5, <1>6, <1>7, <1>8 DEF Step

LEMMA JudgedStep ==
    ASSUME Inv, NEW e \in Evals, Step(e) \/ ServerEnds(e)
    PROVE  OwnCodeJudged'
<1> SUFFICES ASSUME LockGiven, NEW f \in Evals, pc'[f] \in Judged
             PROVE  (result[f] = Own(f))'
    BY DEF OwnCodeJudged
<1> USE DEF Goto
<1>1. TypeOK
    BY DEF Inv
<1>2. pc[f] \in Judged => result[f] = Own(f)
    BY DEF Inv, OwnCodeJudged
<1>3. ASSUME UNCHANGED result, round'[f] = round[f], pc[f] \in Judged
      PROVE  (result[f] = Own(f))'
    BY <1>3, <1>2 DEF Own
<1>4. CASE EndRun(e)
    <2>1. executable[Program(e, "source")] = Own(e)
        BY <1>4 DEF Inv, BuiltInv, EndRun, Runs, Modes
    <2>2. result' = [result EXCEPT ![e] = Own(e)] /\ round' = round
        BY <1>4, <2>1 DEF EndRun
    <2> QED
        BY <1>4, <1>1, <1>2, <2>2 DEF EndRun, Own, TypeOK
<1>5. CASE EndBuild(e)
    BY <1>5, <1>1, <1>2 DEF EndBuild, Own, TypeOK
<1>6. CASE Generate(e) \/ GiveUp(e) \/ Record(e) \/ ReadSummary(e) \/ ServerEnds(e)
    BY <1>6, <1>3, <1>1 DEF Generate, GiveUp, Record, ReadSummary, ServerEnds, TypeOK, Judged
<1>7. ASSUME NEW mode \in Modes, Start(e, mode) \/ Build(e, mode)
      PROVE  (result[f] = Own(f))'
    BY <1>7, <1>3, <1>1 DEF Start, Build, Wants, Builds, Runs, TypeOK, Judged, Modes
<1>8. CASE EndCompare(e)
    BY <1>8, <1>3, <1>1 DEF EndCompare, TypeOK, Judged
<1>9. CASE MoveSource(e)
    <2>1. f # e /\ pc[f] \in Judged
        BY <1>9, <1>1 DEF MoveSource, Judged, TypeOK
    <2>2. round'[f] = round[f] /\ result' = result
        BY <1>9, <1>1, <2>1 DEF MoveSource, TypeOK
    <2> QED
        BY <1>3, <2>1, <2>2
<1> QED
    BY <1>4, <1>5, <1>6, <1>7, <1>8, <1>9 DEF Step

LEMMA MeasuredStep ==
    ASSUME Inv, NEW e \in Evals, Step(e) \/ ServerEnds(e)
    PROVE  OwnCodeMeasured'
<1> SUFFICES ASSUME LockGiven, NEW f \in Evals, pc'[f] = "move"
             PROVE  (last_summary[f] \in {Own(f), NoCode})'
    BY DEF OwnCodeMeasured
<1> USE DEF Goto
<1>1. TypeOK
    BY DEF Inv
<1>2. pc[f] = "move" => last_summary[f] \in {Own(f), NoCode}
    BY DEF Inv, OwnCodeMeasured
<1>3. ASSUME last_summary'[f] = last_summary[f], round'[f] = round[f], pc[f] = "move"
      PROVE  (last_summary[f] \in {Own(f), NoCode})'
    BY <1>3, <1>2 DEF Own
<1>4. CASE ReadSummary(e)
    <2>1. PICK t \in Seconds : dir[e] = NameOf(e, round[e], t)
        BY <1>4 DEF ReadSummary, Inv, DirInv, Recorded, Judged
    <2>2. summaries[dir[e]] \in {Own(e), NoCode}
        BY <2>1, <1>1 DEF Inv, SummaryInv, Own, TypeOK
    <2>3. CASE f = e
        BY <1>4, <1>1, <2>2, <2>3 DEF ReadSummary, TypeOK, Own
    <2>4. CASE f # e
        BY <1>4, <1>1, <2>4, <1>3 DEF ReadSummary, TypeOK
    <2> QED
        BY <2>3, <2>4
<1>5. CASE Record(e)
    <2>1. CASE f = e
        BY <1>5, <1>1, <2>1 DEF Record, TypeOK
    <2>2. CASE f # e
        BY <1>5, <1>1, <2>2, <1>3 DEF Record, TypeOK
    <2> QED
        BY <2>1, <2>2
<1>6. CASE Generate(e) \/ GiveUp(e) \/ EndRun(e) \/ EndBuild(e) \/ EndCompare(e) \/ ServerEnds(e)
    BY <1>6, <1>3, <1>1 DEF Generate, GiveUp, EndRun, EndBuild, EndCompare, ServerEnds, TypeOK
<1>7. ASSUME NEW mode \in Modes, Start(e, mode) \/ Build(e, mode)
      PROVE  (last_summary[f] \in {Own(f), NoCode})'
    BY <1>7, <1>3, <1>1 DEF Start, Build, Builds, Runs, TypeOK
<1>8. CASE MoveSource(e)
    <2>1. f # e /\ pc[f] = "move"
        BY <1>8, <1>1 DEF MoveSource, TypeOK
    <2>2. round'[f] = round[f] /\ last_summary' = last_summary
        BY <1>8, <1>1, <2>1 DEF MoveSource, TypeOK
    <2> QED
        BY <1>3, <2>1, <2>2
<1> QED
    BY <1>4, <1>5, <1>6, <1>7, <1>8 DEF Step

-----------------------------------------------------------------------------
LEMMA StepInv == Inv /\ [Next]_vars => Inv'
<1> SUFFICES ASSUME Inv, [Next]_vars PROVE Inv'
    OBVIOUS
<1>1. ASSUME NEW e \in Evals, Step(e) \/ ServerEnds(e)
      PROVE  Inv'
    BY <1>1, TypeStep, LockStep, SourceStep, DirStep, BuiltStep, SummaryStep, LiveStep, JudgedStep,
       MeasuredStep DEF Inv
<1>2. CASE UNCHANGED vars
    BY <1>2 DEF Inv, vars, TypeOK, LockInv, SourceInv, DirInv, BuiltInv, SummaryInv, LiveInv,
          OwnCodeJudged, OwnCodeMeasured, Own
<1> QED
    BY <1>1, <1>2 DEF Next, Done

LEMMA AlwaysInv == Spec => []Inv
BY InitInv, StepInv, PTL DEF Spec

\* The type invariant, for any number of evaluations and rounds.
THEOREM TypeCorrect == Spec => []TypeOK
BY AlwaysInv, PTL DEF Inv

\* An evaluation under the lock goes on with a result of its own code.
THEOREM JudgesItsOwnCode == Spec => []OwnCodeJudged
BY AlwaysInv, PTL DEF Inv

\* An evaluation under the lock reads measurements of its own code, or none.
THEOREM MeasuresItsOwnCode == Spec => []OwnCodeMeasured
BY AlwaysInv, PTL DEF Inv

\* Under the lock, build_and_run.py runs for one evaluation at a time.
THEOREM ScriptsTakeTurns == Spec => []OneScriptAtATime
<1>1. Inv => OneScriptAtATime
    <2> SUFFICES ASSUME Inv, LockGiven, NEW p \in live, NEW q \in live, p.leads, q.leads
                 PROVE  p = q
        BY DEF OneScriptAtATime
    <2>1. p \in [of : Evals, leads : BOOLEAN] /\ q \in [of : Evals, leads : BOOLEAN]
        BY DEF Inv, TypeOK
    <2>2. p = Script(p.of) /\ q = Script(q.of)
        BY <2>1 DEF Script
    <2>3. pc[p.of] \in Holding /\ pc[q.of] \in Holding
        BY <2>1, <2>2 DEF Inv, LiveInv
    <2>4. p.of = q.of
        BY <2>1, <2>3 DEF Inv, LockInv
    <2> QED
        BY <2>2, <2>4
<1> QED
    BY <1>1, AlwaysInv, PTL

-----------------------------------------------------------------------------
(* Sharing the host is like having it alone: every step of an evaluation   *)
(* is, to who sees only its verdicts and measurements, a step on a machine *)
(* of its own.  Inv' gives the code that a run or a summary is of.         *)

at == [e \in Evals |-> SeenAs(pc[e])]
judged == [e \in Evals |-> IF pc[e] \in Judged THEN result[e] ELSE NoCode]
measured == [e \in Evals |-> IF pc[e] = "move" THEN last_summary[e] ELSE NoCode]

aloneView == <<at, round, judged, measured>>

LEMMA SeenSteps ==
  /\ \A step \in {"ask", "want_source", "build_source", "run_source"} : SeenAs(step) = "generate"
  /\ \A step \in Judged \ {"move"} : SeenAs(step) = "judged"
  /\ SeenAs("move") = "measured"
  /\ SeenAs("done") = "returned"
  BY DEF SeenAs, Judged

\* What a step shows of the evaluation that takes it.
LEMMA ViewOf ==
  ASSUME Inv, NEW e \in Evals, NEW step \in Steps, Goto(e, step)
  PROVE  /\ at' = [at EXCEPT ![e] = SeenAs(step)]
         /\ UNCHANGED result =>
               judged' = [judged EXCEPT ![e] = IF step \in Judged THEN result[e] ELSE NoCode]
         /\ UNCHANGED last_summary =>
               measured' = [measured EXCEPT ![e] =
                               IF step = "move" THEN last_summary[e] ELSE NoCode]
  <1>1. pc' = [pc EXCEPT ![e] = step] /\ pc \in [Evals -> Steps]
    BY DEF Goto, Inv, TypeOK
  <1>2. pc'[e] = step /\ \A f \in Evals \ {e} : pc'[f] = pc[f]
    BY <1>1
  <1>3. at' = [at EXCEPT ![e] = SeenAs(step)]
    BY <1>2 DEF at
  <1>4. ASSUME UNCHANGED result
        PROVE  judged' = [judged EXCEPT ![e] = IF step \in Judged THEN result[e] ELSE NoCode]
    <2>1. \A f \in Evals : judged'[f] = IF f = e
                                        THEN IF step \in Judged THEN result[e] ELSE NoCode
                                        ELSE judged[f]
      BY <1>2, <1>4 DEF judged
    <2> QED BY <2>1 DEF judged
  <1>5. ASSUME UNCHANGED last_summary
        PROVE  measured' = [measured EXCEPT ![e] =
                               IF step = "move" THEN last_summary[e] ELSE NoCode]
    BY <1>2, <1>5 DEF measured
  <1> QED BY <1>3, <1>4, <1>5

\* A step that stays within one of the steps seen, and touches neither result nor
\* summary, is not seen.
LEMMA Unseen ==
  ASSUME Inv, NEW e \in Evals, NEW step \in Steps, Goto(e, step),
         SeenAs(step) = SeenAs(pc[e]), step \in Judged <=> pc[e] \in Judged,
         step = "move" <=> pc[e] = "move", UNCHANGED <<round, result, last_summary>>
  PROVE  UNCHANGED aloneView
  <1>1. \A f \in Evals : /\ SeenAs(pc'[f]) = SeenAs(pc[f])
                         /\ pc'[f] \in Judged <=> pc[f] \in Judged
                         /\ pc'[f] = "move" <=> pc[f] = "move"
    BY DEF Goto, Inv, TypeOK
  <1>2. at' = at
    BY <1>1 DEF at
  <1>3. judged' = judged
    BY <1>1 DEF judged
  <1>4. measured' = measured
    BY <1>1 DEF measured
  <1> QED BY <1>2, <1>3, <1>4 DEF aloneView

\* compile_and_run comes back, or raises.
LEMMA RunIsJudge ==
  ASSUME LockGiven, Inv, Inv', NEW e \in Evals, EndRun(e) \/ EndBuild(e)
  PROVE  Alone!Judge(e) \/ Alone!Fail(e)
  <1>1. /\ pc[e] \in {"build_source", "run_source"}
        /\ UNCHANGED <<round, last_summary>>
        /\ \A f \in Evals \ {e} : result'[f] = result[f]
        /\ pc \in [Evals -> Steps]
    BY DEF EndRun, EndBuild, Inv, TypeOK
  <1>2. PICK step \in {"record", "done"} : Goto(e, step)
    BY DEF EndRun, EndBuild
  <1>3. step \in Steps /\ pc[e] \notin Judged /\ pc[e] # "move" /\ step # "move"
    BY <1>1, <1>2 DEF Steps, Judged
  <1>4. pc'[e] = step /\ \A f \in Evals \ {e} : pc'[f] = pc[f]
    BY <1>1, <1>2 DEF Goto
  <1>5. at[e] = "generate"
    BY <1>1, SeenSteps DEF at
  <1>6. at' = [at EXCEPT ![e] = SeenAs(step)]
    BY <1>2, <1>3, ViewOf
  <1>7. measured' = measured
    BY <1>1, <1>3, <1>4 DEF measured
  <1>8. CASE step = "record"
    <2>1. result'[e] = Own(e) /\ pc'[e] \in Judged
      <3>1. pc'[e] \in Judged
        BY <1>4, <1>8 DEF Judged
      <3>2. (result[e] = Own(e))'
        BY <3>1 DEF Inv, OwnCodeJudged
      <3> QED BY <1>1, <3>1, <3>2 DEF Own
    <2>2. judged' = [judged EXCEPT ![e] = Own(e)]
      BY <1>1, <1>4, <2>1 DEF judged
    <2>3. SeenAs(step) = "judged"
      BY <1>8 DEF SeenAs, Judged
    <2> QED BY <1>1, <1>5, <1>6, <1>7, <2>2, <2>3
            DEF Alone!Judge, Alone!Own, Own, at, judged, measured
  <1>9. CASE step = "done"
    <2>1. judged' = judged
      BY <1>1, <1>3, <1>4, <1>9 DEF judged, Judged
    <2>2. SeenAs(step) = "returned"
      BY <1>9 DEF SeenAs, Judged
    <2> QED BY <1>1, <1>5, <1>6, <1>7, <2>1, <2>2 DEF Alone!Fail, at, judged, measured
  <1> QED BY <1>2, <1>8, <1>9

\* The model fails.
LEMMA GiveUpIsFail == ASSUME Inv, NEW e \in Evals, GiveUp(e) PROVE Alone!Fail(e)
  <1>1. /\ pc[e] = "ask" /\ Goto(e, "done") /\ "done" \in Steps
        /\ UNCHANGED <<round, result, last_summary>>
    BY DEF GiveUp, Steps
  <1>2. at' = [at EXCEPT ![e] = "returned"] /\ at[e] = "generate"
    BY <1>1, ViewOf DEF at, SeenAs, Judged
  <1>3. UNCHANGED <<judged, measured>>
    <2>1. \A f \in Evals : /\ pc'[f] \in Judged <=> pc[f] \in Judged
                           /\ pc'[f] = "move" <=> pc[f] = "move"
      BY <1>1 DEF Goto, Inv, TypeOK, Judged
    <2> QED BY <1>1, <2>1 DEF judged, measured
  <1> QED BY <1>1, <1>2, <1>3 DEF Alone!Fail, at, judged, measured

\* The round is measured: it ends its comparison or has none.
LEMMA MeasureSeen ==
  ASSUME LockGiven, Inv, Inv', NEW e \in Evals, pc[e] \in Judged \ {"move"}, Goto(e, "move"),
         UNCHANGED <<round, result>>, \A f \in Evals \ {e} : last_summary'[f] = last_summary[f]
  PROVE  Alone!Measure(e)
  <1>1. pc \in [Evals -> Steps] /\ "move" \in Steps
    BY DEF Inv, TypeOK, Steps
  <1>2. pc'[e] = "move" /\ \A f \in Evals \ {e} : pc'[f] = pc[f]
    BY <1>1 DEF Goto
  <1>3. at[e] = "judged"
    BY DEF at, SeenAs, Judged
  <1>4. at' = [at EXCEPT ![e] = "measured"]
    BY <1>1, ViewOf DEF SeenAs, Judged
  <1>5. judged' = judged
    <2>1. \A f \in Evals : pc'[f] \in Judged <=> pc[f] \in Judged
      BY <1>2 DEF Judged
    <2> QED BY <2>1 DEF judged
  <1>6. last_summary'[e] \in {Own(e), NoCode}
    <2>1. (last_summary[e] \in {Own(e), NoCode})'
      BY <1>2 DEF Inv, OwnCodeMeasured
    <2> QED BY <2>1 DEF Own
  <1>7. measured' = [measured EXCEPT ![e] = last_summary'[e]]
    BY <1>2 DEF measured
  <1> QED BY <1>3, <1>4, <1>5, <1>6, <1>7 DEF Alone!Measure, Alone!Own, Own, at, judged, measured

\* The round's source is moved; another round or the end.
LEMMA MoveIsEndRound == ASSUME Inv, NEW e \in Evals, MoveSource(e) PROVE Alone!EndRound(e)
  <1>1. /\ pc[e] = "move" /\ UNCHANGED <<result, last_summary>>
        /\ \/ Goto(e, "ask") /\ round[e] < MaxRounds /\ round' = [round EXCEPT ![e] = @ + 1]
           \/ Goto(e, "done") /\ UNCHANGED round
    BY DEF MoveSource, Another
  <1>2. PICK step \in {"ask", "done"} : Goto(e, step)
    BY <1>1
  <1>3. step \in Steps /\ step \notin Judged /\ step # "move"
    BY <1>2 DEF Steps, Judged
  <1>4. judged' = [judged EXCEPT ![e] = NoCode] /\ measured' = [measured EXCEPT ![e] = NoCode]
    BY <1>1, <1>2, <1>3, ViewOf
  <1>5. at[e] = "measured"
    BY <1>1 DEF at, SeenAs, Judged
  <1>6. ASSUME Goto(e, "ask") PROVE at' = [at EXCEPT ![e] = "generate"]
    <2>1. "ask" \in Steps /\ SeenAs("ask") = "generate"
      BY SeenSteps DEF Steps
    <2>2. at' = [at EXCEPT ![e] = SeenAs("ask")]
      BY <1>6, <2>1, ViewOf
    <2> QED BY <2>1, <2>2
  <1>7. ASSUME Goto(e, "done") PROVE at' = [at EXCEPT ![e] = "returned"]
    <2>1. "done" \in Steps /\ SeenAs("done") = "returned"
      BY SeenSteps DEF Steps
    <2>2. at' = [at EXCEPT ![e] = SeenAs("done")]
      BY <1>7, <2>1, ViewOf
    <2> QED BY <2>1, <2>2
  <1> QED BY <1>1, <1>4, <1>5, <1>6, <1>7 DEF Alone!EndRound, at, judged, measured

LEMMA StepIsSeen ==
  ASSUME LockGiven, Inv, Inv', NEW e \in Evals, Step(e) \/ ServerEnds(e)
  PROVE  Alone!Next \/ UNCHANGED aloneView
  <1>1. CASE EndRun(e) \/ EndBuild(e)
    BY <1>1, RunIsJudge DEF Alone!Next
  <1>2. CASE GiveUp(e)
    BY <1>2, GiveUpIsFail DEF Alone!Next
  <1>3. CASE MoveSource(e)
    BY <1>3, MoveIsEndRound DEF Alone!Next
  <1>4. CASE ReadSummary(e)
    <2>1. /\ pc[e] \in Judged \ {"move"} /\ Goto(e, "move") /\ UNCHANGED <<round, result>>
          /\ \A f \in Evals \ {e} : last_summary'[f] = last_summary[f]
      BY <1>4 DEF ReadSummary, Judged, Inv, TypeOK
    <2> QED BY <2>1, MeasureSeen DEF Alone!Next
  <1>5. CASE Record(e)
    <2>1. /\ pc[e] = "record" /\ UNCHANGED <<round, result>>
          /\ \A f \in Evals \ {e} : last_summary'[f] = last_summary[f]
      BY <1>5 DEF Record, Inv, TypeOK
    <2>2. CASE Goto(e, "move")
      BY <2>1, <2>2, MeasureSeen DEF Judged, Alone!Next
    <2>3. CASE Goto(e, "want_compare")
      <3>1. /\ pc \in [Evals -> Steps] /\ pc'[e] = "want_compare"
            /\ \A f \in Evals \ {e} : pc'[f] = pc[f]
        BY <2>3 DEF Goto, Inv, TypeOK
      <3>2. \A f \in Evals : /\ SeenAs(pc'[f]) = SeenAs(pc[f])
                             /\ pc'[f] \in Judged <=> pc[f] \in Judged
                             /\ pc'[f] = "move" => pc[f] = "move" /\ f # e
                             /\ pc[f] = "move" => pc'[f] = "move"
        BY <2>1, <3>1 DEF SeenAs, Judged
      <3>3. at' = at
        BY <3>2 DEF at
      <3>4. judged' = judged
        BY <2>1, <3>2 DEF judged
      <3>5. measured' = measured
        BY <2>1, <3>2 DEF measured
      <3> QED BY <2>1, <3>3, <3>4, <3>5 DEF aloneView
    <2> QED BY <1>5, <2>2, <2>3 DEF Record
  <1>6. CASE Generate(e) \/ (\E mode \in Modes : Start(e, mode) \/ Build(e, mode)) \/ EndCompare(e)
    <2>1. PICK step \in Steps :
            /\ Goto(e, step)
            /\ \/ pc[e] = "ask" /\ step = "want_source"
               \/ pc[e] = "want_source" /\ step = "build_source"
               \/ pc[e] = "build_source" /\ step = "run_source"
               \/ pc[e] = "want_compare" /\ step = "build_compare"
               \/ pc[e] = "build_compare" /\ step = "run_compare"
               \/ pc[e] \in {"build_compare", "run_compare"} /\ step = "read"
      BY <1>6 DEF Generate, Start, Build, EndCompare, Wants, Builds, Runs, Modes, Steps
    <2>2. UNCHANGED <<round, result, last_summary>>
      BY <1>6 DEF Generate, Start, Build, EndCompare
    <2>3. /\ SeenAs(step) = SeenAs(pc[e])
          /\ step \in Judged <=> pc[e] \in Judged
          /\ step = "move" <=> pc[e] = "move"
      BY <2>1 DEF SeenAs, Judged
    <2> QED BY <2>1, <2>2, <2>3, Unseen
  <1>7. CASE ServerEnds(e)
    BY <1>7 DEF ServerEnds, aloneView, at, judged, measured
  <1> QED BY <1>1, <1>2, <1>3, <1>4, <1>5, <1>6, <1>7 DEF Step

LEMMA InitIsSeen == Init => Alone!Init
  BY DEF Init, Alone!Init, SeenAs, Judged

\* For any number of evaluations, whatever they share but the lock they are given,
\* each does what it could have done on a machine of its own.
THEOREM SharingIsNotNoticed == ASSUME LockGiven PROVE Spec => ImplementsOwnMachines
  <1>1. Inv /\ Inv' /\ [Next]_vars => [Alone!Next]_aloneView
    <2> SUFFICES ASSUME Inv, Inv', [Next]_vars PROVE Alone!Next \/ UNCHANGED aloneView
      OBVIOUS
    <2>1. CASE Done \/ UNCHANGED vars
      BY <2>1 DEF Done, vars, aloneView, at, judged, measured
    <2> QED BY <2>1, StepIsSeen DEF Next
  <1> QED BY <1>1, InitIsSeen, AlwaysInv, PTL
          DEF Spec, ImplementsOwnMachines, Alone!Spec, aloneView, at, judged, measured

-----------------------------------------------------------------------------
(* What makes everyone return, but for the fairness that the last step      *)
(* takes: each evaluation has a number of steps left, and no one else, by   *)
(* taking the lock before it, can add to them.                              *)

\* The steps that are left of a round, and of all rounds.
LeftOfRound(step) ==
    CASE step = "done" -> 0
      [] step = "move" -> 1
      [] step = "read" -> 2
      [] step = "run_compare" -> 3
      [] step = "build_compare" -> 4
      [] step = "want_compare" -> 5
      [] step = "record" -> 6
      [] step = "run_source" -> 7
      [] step = "build_source" -> 8
      [] step = "want_source" -> 9
      [] step = "ask" -> 10

Left(e) == (MaxRounds - round[e]) * 10 + LeftOfRound(pc[e])

LEMMA PlaceIsSmall == \A step \in Steps : LeftOfRound(step) \in 0..10
  BY DEF LeftOfRound, Steps

LEMMA LeftIsNatural == ASSUME TypeOK, NEW e \in Evals PROVE Left(e) \in 0 .. 10 * MaxRounds
  <1>1. LeftOfRound(pc[e]) \in 0..10
    BY PlaceIsSmall DEF TypeOK
  <1>2. round[e] \in 1..MaxRounds /\ MaxRounds \in Nat
    BY MaxRoundsAssumption DEF TypeOK, Rounds
  <1> QED BY <1>1, <1>2 DEF Left

\* A step that stays in the round is one of its steps.
LEMMA StepInRound ==
  ASSUME TypeOK, NEW e \in Evals, NEW step \in Steps, Goto(e, step), UNCHANGED round,
         LeftOfRound(step) < LeftOfRound(pc[e])
  PROVE  Left(e)' < Left(e)
  <1>1. pc'[e] = step
    BY DEF Goto, TypeOK
  <1>2. LeftOfRound(pc[e]) \in 0..10 /\ LeftOfRound(step) \in 0..10
    BY PlaceIsSmall DEF TypeOK
  <1>3. round[e] \in 1..MaxRounds /\ MaxRounds \in Nat /\ round'[e] = round[e]
    BY MaxRoundsAssumption DEF TypeOK, Rounds
  <1> QED BY <1>1, <1>2, <1>3 DEF Left

LEMMA OwnStepCosts == ASSUME TypeOK, NEW e \in Evals, Step(e) PROVE Left(e)' < Left(e)
  <1>1. CASE Generate(e)
    BY <1>1, StepInRound DEF Generate, Steps, LeftOfRound
  <1>2. CASE GiveUp(e)
    BY <1>2, StepInRound DEF GiveUp, Steps, LeftOfRound
  <1>3. ASSUME NEW mode \in Modes, Start(e, mode) PROVE Left(e)' < Left(e)
    <2>1. Builds(mode) \in Steps /\ LeftOfRound(Builds(mode)) < LeftOfRound(Wants(mode))
      BY DEF LeftOfRound, Builds, Wants, Modes, Steps
    <2> QED BY <1>3, <2>1, StepInRound DEF Start
  <1>4. ASSUME NEW mode \in Modes, Build(e, mode) PROVE Left(e)' < Left(e)
    <2>1. Runs(mode) \in Steps /\ LeftOfRound(Runs(mode)) < LeftOfRound(Builds(mode))
      BY DEF LeftOfRound, Builds, Runs, Modes, Steps
    <2> QED BY <1>4, <2>1, StepInRound DEF Build
  <1>5. CASE EndRun(e)
    BY <1>5, StepInRound DEF EndRun, Steps, LeftOfRound
  <1>6. CASE EndBuild(e)
    <2>1. PICK step \in {"record", "done"} : Goto(e, step)
      BY <1>6 DEF EndBuild
    <2>2. step \in Steps /\ LeftOfRound(step) < LeftOfRound("build_source")
      BY DEF LeftOfRound, Steps
    <2> QED BY <1>6, <2>1, <2>2, StepInRound DEF EndBuild
  <1>7. CASE Record(e)
    <2>1. PICK step \in {"want_compare", "move"} : Goto(e, step)
      BY <1>7 DEF Record
    <2>2. step \in Steps /\ LeftOfRound(step) < LeftOfRound("record")
      BY DEF LeftOfRound, Steps
    <2> QED BY <1>7, <2>1, <2>2, StepInRound DEF Record
  <1>8. CASE EndCompare(e)
    <2>1. "read" \in Steps /\ LeftOfRound("read") < LeftOfRound(pc[e])
      BY <1>8 DEF EndCompare, Steps, LeftOfRound
    <2> QED BY <1>8, <2>1, StepInRound DEF EndCompare
  <1>9. CASE ReadSummary(e)
    BY <1>9, StepInRound DEF ReadSummary, Steps, LeftOfRound
  <1>10. CASE MoveSource(e)
    <2>1. CASE Goto(e, "done") /\ UNCHANGED round
      BY <1>10, <2>1, StepInRound DEF MoveSource, Steps, LeftOfRound
    <2>2. CASE Another(e) /\ round' = [round EXCEPT ![e] = @ + 1] /\ Goto(e, "ask")
      <3>1. pc[e] = "move" /\ pc'[e] = "ask"
        BY <1>10, <2>2 DEF MoveSource, Goto, TypeOK
      <3>2. LeftOfRound(pc[e]) = 1 /\ LeftOfRound(pc'[e]) = 10
        BY <3>1 DEF LeftOfRound
      <3>3. round[e] \in 1..MaxRounds /\ MaxRounds \in Nat /\ round'[e] = round[e] + 1
        BY <2>2, MaxRoundsAssumption DEF TypeOK, Rounds
      <3> QED BY <3>2, <3>3 DEF Left
    <2> QED BY <1>10, <2>1, <2>2 DEF MoveSource
  <1> QED BY <1>1, <1>2, <1>3, <1>4, <1>5, <1>6, <1>7, <1>8, <1>9, <1>10 DEF Step

LEMMA OthersCostNothing ==
  ASSUME TypeOK, NEW e \in Evals, Step(e) \/ ServerEnds(e), NEW f \in Evals \ {e}
  PROVE  Left(f)' = Left(f)
  <1>1. pc'[f] = pc[f]
    BY DEF Step, Generate, GiveUp, Start, Build, EndRun, EndBuild, Record, EndCompare,
           ReadSummary, MoveSource, ServerEnds, Goto, TypeOK
  <1>2. round'[f] = round[f]
    BY DEF Step, Generate, GiveUp, Start, Build, EndRun, EndBuild, Record, EndCompare,
           ReadSummary, MoveSource, ServerEnds, TypeOK
  <1> QED BY <1>1, <1>2 DEF Left

\* Every step of an evaluation is one of its at most 10 * MaxRounds steps, and costs
\* the others nothing, however the lock is given.
THEOREM StepsAreCounted ==
  Spec => /\ [](\A e \in Evals : Left(e) \in 0 .. 10 * MaxRounds)
          /\ [][\/ \E e \in Evals : /\ Left(e)' < Left(e)
                                    /\ \A f \in Evals \ {e} : Left(f)' = Left(f)
                \/ \E e \in Evals : ServerEnds(e)]_vars
  <1> DEFINE Cost == \/ \E e \in Evals : /\ Left(e)' < Left(e)
                                         /\ \A f \in Evals \ {e} : Left(f)' = Left(f)
                     \/ \E e \in Evals : ServerEnds(e)
  <1>1. TypeOK => \A e \in Evals : Left(e) \in 0 .. 10 * MaxRounds
    BY LeftIsNatural
  <1>2. TypeOK /\ [Next]_vars => [Cost]_vars
    <2> SUFFICES ASSUME TypeOK, Next, vars' # vars PROVE Cost
      OBVIOUS
    <2>1. PICK e \in Evals : Step(e) \/ ServerEnds(e)
      BY DEF Next, Done
    <2> QED BY <2>1, OwnStepCosts, OthersCostNothing
  <1> QED BY <1>1, <1>2, TypeCorrect, PTL DEF Spec

\* Whoever holds the lock is on its way to give it back: nobody waits, asks the
\* model or is gone with the lock in hand.
THEOREM LockIsOnItsWay ==
  Spec => [](LockGiven => /\ lock # Nobody => lock \in Evals /\ pc[lock] \in Holding
                          /\ \A e \in Evals : pc[e] \in Holding => lock = e)
  <1>1. Inv => (LockGiven => /\ lock # Nobody => lock \in Evals /\ pc[lock] \in Holding
                             /\ \A e \in Evals : pc[e] \in Holding => lock = e)
    BY DEF Inv, LockInv, TypeOK
  <1> QED BY <1>1, AlwaysInv, PTL
=============================================================================

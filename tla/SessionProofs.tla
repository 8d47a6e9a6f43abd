--------------------------- MODULE SessionProofs ---------------------------
(***************************************************************************)
(* Session for every set of processes: what _run_in_new_session guarantees *)
(* does not depend on how many workers a program forks or on who leaves    *)
(* the group.                                                              *)
(*                                                                         *)
(* The properties rest on two facts: a process with a SIGKILL pending does *)
(* nothing any more (Running excludes doomed), and a new process is one    *)
(* that was never used, hence in no set yet.  An empty group therefore     *)
(* stays empty, and so a number that has gone to a stranger is not the     *)
(* group's again.                                                          *)
(***************************************************************************)
EXTENDS Session, TLAPS

\* Who has the number: the leader is reaped on the way out only, and a stranger
\* has it only after that, and after the last member of the group.
NumberInv ==
    /\ reaped => pc \in {"sweep", "returned"}
    /\ taken => reaped /\ Targets = {}
    /\ OnlySweepStrays

IInv ==
    /\ TypeOK
    /\ Leader \in used
    /\ NoSurvivor
    /\ NumberInv

LEMMA InitIInv == Init => IInv
  BY LeaderAssumption DEF Init, IInv, TypeOK, NumberInv, OnlySweepStrays, NoSurvivor

\* A fork: the parent process runs, so at "returned" it is outside the group,
\* and if the group is empty it is outside, too; the child is where it is.
LEMMA ForkIInv == ASSUME IInv, NEW p \in Procs, NEW q \in Procs, Fork(p, q) PROVE IInv'
  <1> USE DEF IInv, Fork, Running, numberVars
  <1>1. TypeOK' /\ (Leader \in used)'
    BY DEF TypeOK
  <1>2. Targets = {} => Targets' = {}
    BY DEF Targets, TypeOK
  <1>3. NumberInv'
    BY <1>2 DEF NumberInv, OnlySweepStrays
  <1>4. NoSurvivor'
    BY DEF NoSurvivor, TypeOK
  <1> QED BY <1>1, <1>3, <1>4

LEMMA ProcessIInv ==
  ASSUME IInv, NEW p \in Procs, LeaveGroup(p) \/ ClosePipe(p) \/ Exit(p)
  PROVE  IInv'
  <1>1. Targets' \subseteq Targets
    BY DEF LeaveGroup, ClosePipe, Exit, Targets
  <1>2. NumberInv'
    BY <1>1 DEF LeaveGroup, ClosePipe, Exit, IInv, NumberInv, OnlySweepStrays, numberVars
  <1>3. TypeOK' /\ (Leader \in used)'
    BY DEF LeaveGroup, ClosePipe, Exit, IInv, TypeOK, numberVars
  <1>4. NoSurvivor'
    BY DEF LeaveGroup, ClosePipe, Exit, IInv, NoSurvivor, Running
  <1> QED BY <1>2, <1>3, <1>4 DEF IInv

\* The parent's own steps, and the kernel's.
LEMMA ParentIInv ==
  ASSUME IInv, Parent \/ Interrupted \/ TakeNumber
  PROVE  IInv'
  <1> USE DEF IInv, childVars, numberVars
  <1>1. CASE Completed
    BY <1>1 DEF Completed, TypeOK, NoSurvivor, NumberInv, OnlySweepStrays, Targets
  <1>2. CASE TimedOut
    BY <1>2 DEF TimedOut, Hits, TypeOK, NoSurvivor, NumberInv, OnlySweepStrays, Targets
  <1>3. CASE TermIgnored
    BY <1>3 DEF TermIgnored, KillGroup, Hits, TypeOK, NoSurvivor, NumberInv, OnlySweepStrays, Targets
  <1>4. CASE Sweep
    <2> USE <1>4 DEF Sweep, KillGroup, Hits
    <2>1. TypeOK' /\ (Leader \in used)'
      BY DEF TypeOK, Targets
    <2>2. NoSurvivor'
      BY DEF NoSurvivor, Targets
    <2>3. NumberInv'
      BY DEF NumberInv, OnlySweepStrays, Targets
    <2> QED BY <2>1, <2>2, <2>3
  <1>5. CASE Interrupted
    BY <1>5 DEF Interrupted, TypeOK, NoSurvivor, NumberInv, OnlySweepStrays, Targets
  <1>6. CASE TakeNumber
    BY <1>6 DEF TakeNumber, TypeOK, NoSurvivor, NumberInv, OnlySweepStrays, Targets
  <1> QED BY <1>1, <1>2, <1>3, <1>4, <1>5, <1>6 DEF Parent

LEMMA NextIInv == IInv /\ [Next]_vars => IInv'
  <1> SUFFICES ASSUME IInv, [Next]_vars PROVE IInv'
    OBVIOUS
  <1>1. CASE \E p, q \in Procs : Fork(p, q)
    BY <1>1, ForkIInv
  <1>2. CASE \E p \in Procs : LeaveGroup(p) \/ ClosePipe(p) \/ Exit(p)
    BY <1>2, ProcessIInv
  <1>3. CASE Parent \/ Interrupted \/ TakeNumber
    BY <1>3, ParentIInv
  <1>4. CASE UNCHANGED vars
    BY <1>4 DEF vars, IInv, TypeOK, NumberInv, OnlySweepStrays, NoSurvivor, Targets
  <1> QED BY <1>1, <1>2, <1>3, <1>4 DEF Next, Done

THEOREM Invariance == Spec => []IInv
  BY InitIInv, NextIInv, PTL DEF Spec

\* The values of the variables, for every session.
THEOREM TypeCorrect == Spec => []TypeOK
  BY Invariance, PTL DEF IInv

\* After _run_in_new_session no process of the leader's group outlives its
\* pending SIGKILL, whatever the group did and whichever way the call ended.
THEOREM NothingSurvives == Spec => []NoSurvivor
  BY Invariance, PTL DEF IInv

\* No signal of the timeout hits a stranger; the sweep does only where the group
\* it was meant for is gone.
THEOREM StrangersAreSafeUntilTheSweep == Spec => []OnlySweepStrays
  BY Invariance, PTL DEF IInv, NumberInv

-----------------------------------------------------------------------------
(* What makes the call return, but for the fairness: after the SIGKILL the  *)
(* group can only dwindle, and the parent waits for nobody else but those   *)
(* that left it with the pipe open.                                         *)

\* Once the SIGKILL is sent, there is nobody in the group who could do anything but
\* die; the leader of a session cannot leave its group.
DInv ==
    /\ IInv
    /\ Leader \in group
    /\ pc = "killed" => Targets \subseteq doomed

LEMMA InitDInv == Init => DInv
  BY InitIInv DEF Init, DInv

LEMMA NextDInv == DInv /\ [Next]_vars => DInv'
  <1> SUFFICES ASSUME DInv, [Next]_vars PROVE DInv'
    OBVIOUS
  <1>1. IInv'
    BY NextIInv DEF DInv
  <1>2. (Leader \in group)'
    <2> USE DEF DInv
    <2>1. ASSUME NEW p \in Procs, NEW q \in Procs, Fork(p, q) PROVE (Leader \in group)'
      BY <2>1 DEF Fork
    <2>2. ASSUME NEW p \in Procs, LeaveGroup(p) \/ ClosePipe(p) \/ Exit(p)
          PROVE  (Leader \in group)'
      BY <2>2, MayLeaveAssumption DEF LeaveGroup, ClosePipe, Exit
    <2>3. CASE Parent \/ Interrupted \/ TakeNumber \/ UNCHANGED vars
      BY <2>3 DEF Parent, Completed, TimedOut, TermIgnored, Sweep, Interrupted, TakeNumber, vars, childVars
    <2> QED BY <2>1, <2>2, <2>3 DEF Next, Done
  <1>3. ASSUME pc' = "killed" PROVE (Targets \subseteq doomed)'
    <2> USE <1>3 DEF DInv, Targets
    <2>1. ASSUME NEW p \in Procs, NEW q \in Procs, Fork(p, q) PROVE (Targets \subseteq doomed)'
      BY <2>1 DEF Fork, Running, IInv, TypeOK
    <2>2. ASSUME NEW p \in Procs, LeaveGroup(p) \/ ClosePipe(p) \/ Exit(p)
          PROVE  (Targets \subseteq doomed)'
      BY <2>2 DEF LeaveGroup, ClosePipe, Exit
    <2>3. CASE Parent \/ Interrupted \/ TakeNumber
      BY <2>3 DEF Parent, Completed, TimedOut, TermIgnored, Sweep, Interrupted, TakeNumber, KillGroup,
             childVars
    <2>4. CASE UNCHANGED vars
      BY <2>4 DEF vars
    <2> QED BY <2>1, <2>2, <2>3, <2>4 DEF Next, Done
  <1> QED BY <1>1, <1>2, <1>3 DEF DInv

\* In the wait that has no timeout, all there is to wait for are processes with a
\* SIGKILL pending and those that left the group with the pipe open.
THEOREM LastWaitIsForDeserters == Spec => []WaitsForDesertersOnly
  <1>1. DInv => WaitsForDesertersOnly
    BY DEF DInv, WaitsForDesertersOnly, Targets
  <1> QED BY <1>1, InitDInv, NextDInv, PTL DEF Spec

\* A step takes processes out of the group by their death only, and adds none.
Dwindles == Targets' \subseteq Targets /\ Targets \ Targets' \subseteq alive \ alive'

\* From the SIGKILL on no process joins the group, and none that is in it escapes
\* but by its death; the same holds from the return on.
THEOREM GroupDwindles ==
  Spec => [][(pc \in {"killed", "returned"}) => Dwindles]_vars
  <1>1. DInv /\ [Next]_vars => [(pc \in {"killed", "returned"}) => Dwindles]_vars
    <2> SUFFICES ASSUME DInv, Next, pc \in {"killed", "returned"}
                 PROVE  Dwindles
      OBVIOUS
    <2>1. Targets \subseteq doomed
      BY DEF DInv, IInv, NoSurvivor, Targets
    <2>2. ASSUME NEW p \in Procs, NEW q \in Procs, Fork(p, q)
          PROVE  Dwindles
      BY <2>1, <2>2 DEF Fork, Running, Targets, Dwindles, DInv, IInv, TypeOK
    <2>3. ASSUME NEW p \in Procs, LeaveGroup(p) \/ ClosePipe(p) \/ Exit(p)
          PROVE  Dwindles
      BY <2>1, <2>3 DEF LeaveGroup, ClosePipe, Exit, Running, Targets, Dwindles
    <2>4. CASE Parent \/ Interrupted \/ TakeNumber \/ Done
      BY <2>4 DEF Parent, Completed, TimedOut, TermIgnored, Sweep, Interrupted, TakeNumber, Done, Targets, Dwindles,
             childVars, vars
    <2> QED BY <2>2, <2>3, <2>4 DEF Next
  <1> QED BY <1>1, InitDInv, NextDInv, PTL DEF Spec
=============================================================================

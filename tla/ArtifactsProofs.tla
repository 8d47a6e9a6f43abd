-------------------------- MODULE ArtifactsProofs --------------------------
(***************************************************************************)
(* What a script takes as it finds it, for any set of compilers and        *)
(* commits, any number of edits and any number of scripts.                 *)
(***************************************************************************)
EXTENDS Artifacts, TLAPS

Artifact == [config : Configs, files : 0..MaxEdits, whole : BOOLEAN, meddled : BOOLEAN]

\* The values of the variables.  An artifact is there as long as one is written to.
TypeInv ==
    /\ scheme \in {"stamp", "mtime"}
    /\ pc \in {"look", "build", "write", "stamp", "use", "next", "done"}
    /\ script \in Nat
    /\ config \in Configs /\ files \in 0..MaxEdits
    /\ artifact \in {Missing} \cup Artifact
    /\ pc \in {"write", "stamp"} => artifact \in Artifact
    /\ stamp \in Configs \cup {None} /\ newer \in BOOLEAN
    /\ broken \in Configs \cup {None} /\ meddled \in BOOLEAN

\* Until a build is through it is one that may be cut short, and only MSCCL++ has a
\* stamp to write.
UnderWay ==
    /\ pc \in {"build", "write", "stamp"} => broken # None
    /\ pc = "stamp" => scheme = "stamp"

\* What the compiler writes is of the inputs, as long as nobody touches these.
WrittenOfInputs ==
    pc \in {"write", "stamp"} /\ ~meddled =>
        artifact.config = config /\ artifact.files = files

\* A stamp never tells of the build that was cut short: it was written after an
\* earlier one, and had that one matched, nothing would have been built.
StampIsOlder == scheme = "stamp" /\ broken # None => stamp # broken

\* After a build that was not cut short the stamp tells of the library.
StampTells ==
    scheme = "stamp" /\ broken = None /\ Undisturbed => stamp = artifact.config

\* An mtime tells of the binary, whatever became of the builds.
MtimeTells ==
    scheme = "mtime" /\ Undisturbed => (newer <=> artifact.files = files)

\* An artifact is of no edit that is still to come.
NoneOfTheFuture == artifact # Missing => artifact.files <= files

IInv ==
    /\ TypeInv /\ UnderWay /\ WrittenOfInputs /\ StampIsOlder /\ StampTells /\ MtimeTells
    /\ NoneOfTheFuture

-----------------------------------------------------------------------------
LEMMA MissingIsNoArtifact == Missing \notin Artifact /\ ~Missing.whole
<1> QED
    BY DEF Missing, Artifact

LEMMA UndisturbedIsThere == ASSUME TypeInv, Undisturbed PROVE artifact \in Artifact
<1> QED
    BY MissingIsNoArtifact DEF TypeInv, Undisturbed

LEMMA InitIInv == Init => IInv
<1> SUFFICES ASSUME Init PROVE IInv
    OBVIOUS
<1>1. TypeInv
    <2>1. scheme \in {"stamp", "mtime"} /\ files \in 0..MaxEdits
        BY SchemesAssumption, MaxEditsAssumption DEF Init
    <2>2. stamp \in Configs \cup {None} /\ broken \in Configs \cup {None}
        BY DEF Init
    <2>3. newer \in BOOLEAN /\ meddled \in BOOLEAN
        BY DEF Init
    <2>4. pc = "look" /\ script = 1 /\ config \in Configs /\ artifact = Missing
        BY DEF Init
    <2> QED
        BY <2>1, <2>2, <2>3, <2>4 DEF TypeInv
<1>2. ~Undisturbed
    BY MissingIsNoArtifact DEF Init, Undisturbed
<1> QED
    BY <1>1, <1>2
    DEF Init, IInv, UnderWay, WrittenOfInputs, StampIsOlder, StampTells, MtimeTells, NoneOfTheFuture

\* The steps that leave the artifact and what tells of it alone.
LEMMA StepAside ==
    ASSUME IInv,
           UNCHANGED <<inputs, artifact, stamp, newer, broken, meddled>>,
           script' \in Nat,
           pc' \in {"look", "use", "next", "done"}
    PROVE  IInv'
<1> QED
    BY DEF IInv, TypeInv, UnderWay, WrittenOfInputs, StampIsOlder, StampTells, MtimeTells,
           NoneOfTheFuture, Undisturbed, inputs

LEMMA SwitchStep == ASSUME IInv, Switch PROVE IInv'
<1> QED
    BY DEF IInv, TypeInv, UnderWay, WrittenOfInputs, StampIsOlder, StampTells, MtimeTells,
           NoneOfTheFuture, Undisturbed, Switch

\* Whatever there was is of an earlier edit than this one.
LEMMA SaveStep == ASSUME IInv, Save PROVE IInv'
<1>1. files \in 0..MaxEdits /\ files' = files + 1 /\ files' \in 0..MaxEdits
    BY MaxEditsAssumption DEF IInv, TypeInv, Save
<1>2. ASSUME artifact # Missing
      PROVE  artifact \in Artifact /\ artifact.files < files'
    BY <1>1, <1>2, MaxEditsAssumption DEF IInv, TypeInv, NoneOfTheFuture, Artifact
<1>3. TypeInv' /\ UnderWay' /\ StampIsOlder' /\ StampTells' /\ WrittenOfInputs'
    BY <1>1 DEF IInv, TypeInv, UnderWay, WrittenOfInputs, StampIsOlder, StampTells, Undisturbed, Save
<1>4. NoneOfTheFuture'
    BY <1>1, <1>2, MaxEditsAssumption DEF NoneOfTheFuture, Save, Artifact
<1>5. ASSUME Undisturbed' PROVE artifact'.files # files' /\ ~newer'
    <2>1. Undisturbed /\ artifact' = artifact
        BY <1>5 DEF Undisturbed, Save
    <2>2. artifact # Missing
        BY <2>1, UndisturbedIsThere, MissingIsNoArtifact DEF IInv
    <2> QED
        BY <2>1, <2>2, <1>1, <1>2, MaxEditsAssumption DEF Save, Artifact
<1> QED
    BY <1>3, <1>4, <1>5 DEF IInv, MtimeTells, Undisturbed

LEMMA RebuildStep == ASSUME IInv, Rebuild PROVE IInv'
<1> QED
    BY ConfigsAssumption
    DEF IInv, TypeInv, UnderWay, WrittenOfInputs, StampIsOlder, StampTells, MtimeTells,
        NoneOfTheFuture, Undisturbed, Rebuild, Fresh, inputs, None

LEMMA WriteStep == ASSUME IInv, Write PROVE IInv'
<1>1. artifact' \in Artifact /\ artifact'.config = config /\ artifact'.files = files
      /\ ~artifact'.whole
    BY DEF IInv, TypeInv, Write, Artifact
<1>2. files <= files
    BY MaxEditsAssumption DEF IInv, TypeInv
<1> QED
    BY <1>1, <1>2
    DEF IInv, TypeInv, UnderWay, WrittenOfInputs, StampIsOlder, StampTells, MtimeTells,
        NoneOfTheFuture, Undisturbed, Write, inputs

\* The last write of a build that nobody meddled with.
LEMMA EndBuildStep == ASSUME IInv, EndBuild PROVE IInv'
<1>1. artifact \in Artifact /\ broken # None
    BY DEF IInv, TypeInv, UnderWay, EndBuild
<1>2. /\ artifact' \in Artifact
      /\ artifact'.config = artifact.config /\ artifact'.files = artifact.files
      /\ artifact'.whole /\ artifact'.meddled = meddled
    BY <1>1 DEF EndBuild, Artifact, IInv, TypeInv
<1>3. CASE scheme = "stamp"
    BY <1>1, <1>2, <1>3, MissingIsNoArtifact
    DEF IInv, TypeInv, UnderWay, WrittenOfInputs, StampIsOlder, StampTells, MtimeTells,
        NoneOfTheFuture, Undisturbed, EndBuild, inputs
<1>4. CASE scheme # "stamp"
    BY <1>1, <1>2, <1>4, MissingIsNoArtifact
    DEF IInv, TypeInv, UnderWay, WrittenOfInputs, StampIsOlder, StampTells, MtimeTells,
        NoneOfTheFuture, Undisturbed, EndBuild, inputs
<1> QED
    BY <1>3, <1>4

LEMMA WriteStampStep == ASSUME IInv, WriteStamp PROVE IInv'
<1>1. artifact \in Artifact /\ scheme = "stamp"
    BY DEF IInv, TypeInv, UnderWay, WriteStamp
<1>2. /\ artifact' \in Artifact
      /\ artifact'.config = artifact.config /\ artifact'.files = artifact.files
      /\ artifact'.whole = artifact.whole /\ artifact'.meddled = meddled
    BY <1>1 DEF WriteStamp, Artifact, IInv, TypeInv
<1> QED
    BY <1>1, <1>2, MissingIsNoArtifact
    DEF IInv, TypeInv, UnderWay, WrittenOfInputs, StampIsOlder, StampTells, MtimeTells,
        NoneOfTheFuture, Undisturbed, WriteStamp, inputs

LEMMA BuildFailsStep == ASSUME IInv, BuildFails PROVE IInv'
<1>1. artifact' \in {artifact, Missing}
    BY DEF BuildFails
<1>2. CASE artifact' = artifact
    <2>1. UNCHANGED <<inputs, artifact, stamp, newer, broken, meddled>> /\ script' = script
          /\ pc' = "next"
        BY <1>2 DEF BuildFails
    <2> QED
        BY <2>1, StepAside DEF IInv, TypeInv
<1>3. CASE artifact' = Missing
    BY <1>3, MissingIsNoArtifact
    DEF IInv, TypeInv, UnderWay, WrittenOfInputs, StampIsOlder, StampTells, MtimeTells,
        NoneOfTheFuture, Undisturbed, BuildFails, inputs
<1> QED
    BY <1>1, <1>2, <1>3

\* A stamp is lost only while it is written, when no build is through yet.
LEMMA KilledStep == ASSUME IInv, Killed PROVE IInv'
<1> QED
    BY DEF IInv, TypeInv, UnderWay, WrittenOfInputs, StampIsOlder, StampTells, MtimeTells,
           NoneOfTheFuture, Undisturbed, Killed, inputs

LEMMA NextIInv == IInv /\ [Next]_vars => IInv'
<1> SUFFICES ASSUME IInv, [Next]_vars PROVE IInv'
    OBVIOUS
<1>1. CASE Switch
    BY <1>1, SwitchStep
<1>2. CASE Save
    BY <1>2, SaveStep
<1>3. CASE Rebuild
    BY <1>3, RebuildStep
<1>4. CASE Write
    BY <1>4, WriteStep
<1>5. CASE EndBuild
    BY <1>5, EndBuildStep
<1>6. CASE WriteStamp
    BY <1>6, WriteStampStep
<1>7. CASE BuildFails
    BY <1>7, BuildFailsStep
<1>8. CASE Killed
    BY <1>8, KilledStep
<1>9. CASE Hit \/ Use \/ NextScript
    <2>1. /\ UNCHANGED <<inputs, artifact, stamp, newer, broken, meddled>>
          /\ script' \in {script, script + 1} /\ pc' \in {"look", "use", "next", "done"}
        BY <1>9 DEF Hit, Use, NextScript
    <2> QED
        BY <2>1, StepAside DEF IInv, TypeInv
<1>10. CASE Done \/ UNCHANGED vars
    BY <1>10
    DEF Done, vars, IInv, TypeInv, UnderWay, WrittenOfInputs, StampIsOlder, StampTells, MtimeTells,
        NoneOfTheFuture, Undisturbed
<1> QED
    BY <1>1, <1>2, <1>3, <1>4, <1>5, <1>6, <1>7, <1>8, <1>9, <1>10 DEF Next

\* What is on the disk, and what tells of it, are related as IInv says at every step.
THEOREM DiskIsKept == Spec => []IInv
<1> QED
    BY InitIInv, NextIInv, PTL DEF Spec

-----------------------------------------------------------------------------
(* What a script finds.  A step to "use" from "look" is a hit, one to      *)
(* "build" from there a rebuild.                                           *)

LEMMA TakesItIfFresh == ASSUME [Next]_vars, pc = "look", pc' = "use" PROVE Fresh
<1> QED
    BY DEF Next, Switch, Save, Hit, Rebuild, Write, EndBuild, WriteStamp, BuildFails, Killed, Use,
           NextScript, Done, vars

LEMMA BuildsIfNotFresh == ASSUME [Next]_vars, pc = "look", pc' = "build" PROVE ~Fresh
<1> QED
    BY DEF Next, Switch, Save, Hit, Rebuild, Write, EndBuild, WriteStamp, BuildFails, Killed, Use,
           NextScript, Done, vars

\* Half a library is never linked by the next script that wants the same one, however
\* many builds were cut short and however often the compiler changed in between.
THEOREM HalfBuiltIsNotLinked == Spec => HalfBuiltIsRebuilt
<1>1. ASSUME IInv, [Next]_vars
      PROVE  scheme = "stamp" /\ pc = "look" /\ pc' = "use" => config # broken
    <2> SUFFICES ASSUME scheme = "stamp", pc = "look", pc' = "use", config = broken
                 PROVE  FALSE
        OBVIOUS
    <2>1. stamp = config
        BY <1>1, TakesItIfFresh DEF Fresh
    <2>2. broken # None
        BY <1>1, ConfigsAssumption DEF IInv, TypeInv, None
    <2> QED
        BY <2>1, <2>2, <1>1 DEF IInv, StampIsOlder
<1> QED
    BY <1>1, DiskIsKept, PTL DEF Spec, HalfBuiltIsRebuilt

\* What a script takes as it finds it is of what its scheme watches, as it is now.
THEOREM TakesTheCurrent == Spec => HitIsCurrent
<1>1. ASSUME IInv, [Next]_vars
      PROVE  pc = "look" /\ pc' = "use" /\ Undisturbed /\ (scheme = "stamp" => broken = None) =>
                WatchedOf(artifact) = Watched
    <2> SUFFICES ASSUME pc = "look", pc' = "use", Undisturbed, scheme = "stamp" => broken = None
                 PROVE  WatchedOf(artifact) = Watched
        OBVIOUS
    <2>1. Fresh
        BY <1>1, TakesItIfFresh
    <2>2. CASE scheme = "stamp"
        BY <2>1, <2>2, <1>1 DEF IInv, StampTells, Fresh, WatchedOf, Watched
    <2>3. CASE scheme = "mtime"
        BY <2>1, <2>3, <1>1 DEF IInv, MtimeTells, Fresh, WatchedOf, Watched
    <2> QED
        BY <2>2, <2>3, <1>1 DEF IInv, TypeInv
<1> QED
    BY <1>1, DiskIsKept, PTL DEF Spec, HitIsCurrent

\* Nothing is built again for a script that finds all as the last complete build did.
THEOREM BuildsOnlyWhatChanged == Spec => NothingIsBuiltTwice
<1>1. ASSUME IInv, [Next]_vars
      PROVE  pc = "look" /\ pc' = "build" /\ Undisturbed /\ broken = None =>
                WatchedOf(artifact) # Watched
    <2> SUFFICES ASSUME pc = "look", pc' = "build", Undisturbed, broken = None
                 PROVE  WatchedOf(artifact) # Watched
        OBVIOUS
    <2>1. ~Fresh
        BY <1>1, BuildsIfNotFresh
    <2>2. CASE scheme = "stamp"
        BY <2>1, <2>2, <1>1 DEF IInv, StampTells, Fresh, WatchedOf, Watched
    <2>3. CASE scheme = "mtime"
        <3>1. artifact # Missing
            BY <1>1, UndisturbedIsThere, MissingIsNoArtifact DEF IInv
        <3> QED
            BY <3>1, <2>1, <2>3, <1>1 DEF IInv, MtimeTells, Fresh, WatchedOf, Watched
    <2> QED
        BY <2>2, <2>3, <1>1 DEF IInv, TypeInv
<1> QED
    BY <1>1, DiskIsKept, PTL DEF Spec, NothingIsBuiltTwice

=============================================================================

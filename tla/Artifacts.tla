----------------------------- MODULE Artifacts -----------------------------
(***************************************************************************)
(* What one build_and_run.py leaves on the disk for the next to reuse.     *)
(* There are two schemes, and each watches what the other does not:        *)
(*   "stamp"  the MSCCL++ library, shared by the examples that link it: a  *)
(*            stamp, written when the build is through, records the        *)
(*            compiler, the git head and three mtimes                      *)
(*   "mtime"  the binary of a ThunderKittens example: it is fresh if it is *)
(*            not older than its source and every header                   *)
(*                                                                         *)
(* `config' stands for what the stamp records and `files' for the source   *)
(* files (of MSCCL++ all but the three).  A compiler may come back, an     *)
(* mtime does not.  One script runs at a time, and may be killed.          *)
(***************************************************************************)
EXTENDS Naturals

CONSTANTS
    Schemes,
    Configs,       \* compilers, and commits, that MSCCL++ is built with
    MaxEdits,      \* times somebody saves one of the files
    MaxScripts     \* scripts that look for the artifact, one after the other

ASSUME SchemesAssumption == Schemes \subseteq {"stamp", "mtime"}
ASSUME ConfigsAssumption == Configs # {} /\ 0 \notin Configs
ASSUME MaxEditsAssumption == MaxEdits \in Nat
ASSUME MaxScriptsAssumption == MaxScripts \in Nat \ {0}

None == 0

VARIABLES
    scheme,
    pc,          \* the step the script is at
    script,      \* which script that is
    config,      \* the inputs as they are now
    files,
    artifact,    \* what is on the disk
    stamp,       \* the config in the stamp, None if it cannot be read
    newer,       \* the artifact's mtime is not before any file's
    broken,      \* ghost: the config of a build that was cut short and not made good
    meddled      \* ghost: somebody edited something since the last build began

inputs == <<scheme, config, files>>
vars == <<scheme, pc, script, config, files, artifact, stamp, newer, broken, meddled>>

\* No artifact.  One that there is records the inputs its build began with, whether
\* every part of it is of the one build, and whether anybody meddled meanwhile.
Missing == [whole |-> FALSE]

Init ==
    /\ scheme \in Schemes
    /\ pc = "look" /\ script = 1
    /\ config \in Configs /\ files = 0
    /\ artifact = Missing
    /\ stamp = None /\ newer = FALSE
    /\ broken = None /\ meddled = FALSE

-----------------------------------------------------------------------------
(* The world. *)

\* Another compiler is found, or another commit is checked out.
Switch ==
    /\ pc # "done"
    /\ config' \in Configs \ {config}
    /\ meddled' = TRUE
    /\ UNCHANGED <<scheme, pc, script, files, artifact, stamp, newer, broken>>

Save ==
    /\ pc # "done" /\ files < MaxEdits
    /\ files' = files + 1
    /\ newer' = FALSE
    /\ meddled' = TRUE
    /\ UNCHANGED <<scheme, pc, script, config, artifact, stamp, broken>>

-----------------------------------------------------------------------------
(* The script. *)

\* Mutant: it is there.
FreshIfThere == IF scheme = "stamp" THEN stamp # None ELSE artifact # Missing

\* _mscclpp_ready and _cache_is_fresh.  The first looks at the stamp only: of the
\* library it tests that its path is not empty.
Fresh == IF scheme = "stamp" THEN stamp = config ELSE artifact # Missing /\ newer

Hit ==
    /\ pc = "look" /\ Fresh
    /\ pc' = "use"
    /\ UNCHANGED <<inputs, script, artifact, stamp, newer, broken, meddled>>

\* Mutant: the stamp is written before the build.
RebuildStamped ==
    /\ pc = "look" /\ ~Fresh
    /\ broken' = config /\ meddled' = FALSE
    /\ stamp' = config
    /\ pc' = "build"
    /\ UNCHANGED <<inputs, script, artifact, newer>>

\* (`broken' holds until the build is through.)
Rebuild ==
    /\ pc = "look" /\ ~Fresh
    /\ broken' = config /\ meddled' = FALSE
    /\ pc' = "build"
    /\ UNCHANGED <<inputs, script, artifact, stamp, newer>>

\* The compiler starts to write over the artifact.
Write ==
    /\ pc = "build"
    /\ artifact' = [config |-> config, files |-> files, whole |-> FALSE, meddled |-> meddled]
    /\ newer' = TRUE
    /\ pc' = "write"
    /\ UNCHANGED <<inputs, script, stamp, broken, meddled>>

\* The last write is later than any edit.
EndBuild ==
    /\ pc = "write"
    /\ artifact' = [artifact EXCEPT !.whole = TRUE, !.meddled = meddled]
    /\ newer' = TRUE
    /\ IF scheme = "stamp" THEN pc' = "stamp" /\ broken' = broken ELSE pc' = "use" /\ broken' = None
    /\ UNCHANGED <<inputs, script, stamp, meddled>>

\* Mutant: no stamp is left.
StampNothing ==
    /\ pc = "stamp"
    /\ broken' = None
    /\ pc' = "use"
    /\ UNCHANGED <<inputs, script, artifact, stamp, newer, meddled>>

\* The payload is worked out again.
WriteStamp ==
    /\ pc = "stamp"
    /\ stamp' = config
    /\ artifact' = [artifact EXCEPT !.meddled = meddled]
    /\ broken' = None
    /\ pc' = "use"
    /\ UNCHANGED <<inputs, script, newer, meddled>>

\* The compiler returns an error.  nvcc takes its half of a binary away; MSCCL++ is left as it is.
BuildFails ==
    /\ pc \in {"build", "write"}
    /\ artifact' = IF scheme = "mtime" /\ pc = "write" THEN Missing ELSE artifact
    /\ pc' = "next"
    /\ UNCHANGED <<inputs, script, stamp, newer, broken, meddled>>

\* The parent's timeout kills script and compiler; a stamp half written is no JSON.
Killed ==
    /\ pc \in {"look", "build", "write", "stamp", "use"}
    /\ stamp' \in IF pc = "stamp" THEN {stamp, None} ELSE {stamp}
    /\ pc' = "next"
    /\ UNCHANGED <<inputs, script, artifact, newer, broken, meddled>>

Use ==
    /\ pc = "use"
    /\ pc' = "next"
    /\ UNCHANGED <<inputs, script, artifact, stamp, newer, broken, meddled>>

More == script < MaxScripts

NextScript ==
    /\ pc = "next"
    /\ IF More THEN script' = script + 1 /\ pc' = "look" ELSE script' = script /\ pc' = "done"
    /\ UNCHANGED <<inputs, artifact, stamp, newer, broken, meddled>>

Done == pc = "done" /\ UNCHANGED vars

Next ==
    \/ Switch \/ Save
    \/ Hit \/ Rebuild \/ Write \/ EndBuild \/ WriteStamp \/ BuildFails \/ Killed \/ Use
    \/ NextScript \/ Done

Spec == Init /\ [][Next]_vars

-----------------------------------------------------------------------------
\* Half a library is never linked by the next script that wants the same one: what a
\* build cut short has left is built again.  (Not so when another config is asked
\* for: the stamp of the library before may still match.  Nor for a binary, whose
\* mtime is that of the compiler's last write, finished or not.)
HalfBuiltIsRebuilt ==
    [][scheme = "stamp" /\ pc = "look" /\ pc' = "use" => config # broken]_vars

Watched == IF scheme = "stamp" THEN <<config>> ELSE <<files>>
WatchedOf(a) == IF scheme = "stamp" THEN <<a.config>> ELSE <<a.files>>
Undisturbed == artifact.whole /\ ~artifact.meddled

\* A whole artifact that a script takes as it finds it is of what its scheme watches
\* as it is now, unless that changed while the artifact was built, or the library's
\* last build was cut short.
HitIsCurrent ==
    [][pc = "look" /\ pc' = "use" /\ Undisturbed /\ (scheme = "stamp" => broken = None) =>
        WatchedOf(artifact) = Watched]_vars

\* Nothing is built again for a script that finds all as the last complete build
\* found it.
NothingIsBuiltTwice ==
    [][pc = "look" /\ pc' = "build" /\ Undisturbed /\ broken = None =>
        WatchedOf(artifact) # Watched]_vars

=============================================================================

------------------------------ MODULE RunPair ------------------------------
(***************************************************************************)
(* How a build_and_run.py runs a pair of processes, a server and a client, *)
(* of the program it has built.  Fourteen of the scripts do, in four       *)
(* styles:                                                                 *)
(*   "port"    both are plain children, the client follows a second later  *)
(*   "report"  the same, but only what they print is asked for, not how    *)
(*             they exit                                                   *)
(*   "socket"  the client follows when the server's socket file is there   *)
(*   "session" the server is started in a session of its own, and the      *)
(*             client's result is the pair's                               *)
(*                                                                         *)
(* The programs are those the model wrote: they bind, connect, exit with   *)
(* any code and hang as they like, full pipes included.  The script may be *)
(* killed by its parent's timeout at any time.                             *)
(***************************************************************************)
EXTENDS Naturals

CONSTANTS
    Styles,
    MaxScripts,      \* scripts that run one after the other
    RunsPerScript    \* pairs that one script runs, in its compare mode

ASSUME StylesAssumption == Styles \subseteq {"port", "report", "socket", "session"}
ASSUME MaxScriptsAssumption == MaxScripts \in Nat \ {0}
ASSUME RunsPerScriptAssumption == RunsPerScript \in Nat \ {0}

\* The n-th run of a pair by the s-th script.
Runs == (1..MaxScripts) \X (1..RunsPerScript)
Nobody == <<0, 0>>

VARIABLES
    style,
    pc,        \* the step the script is at
    script,    \* which script that is
    nth,       \* which of its pairs it runs
    server,    \* of each run: not started, up, or its exit code's sign
    client,    \* of this run
    address,   \* the run whose server has the port or made the socket file
    peer,      \* the run whose server the client of this run has reached
    success    \* the RunResult of each run that returned one

run == <<script, nth>>
place == <<style, script, nth>>

vars == <<style, pc, script, nth, server, client, address, peer, success>>

ProcessStates == {"none", "up", "zero", "nonzero", "killed"}

Init ==
    /\ style \in Styles
    /\ pc = "start"
    /\ script = 1 /\ nth = 1
    /\ server = [r \in Runs |-> "none"] /\ client = "none"
    /\ address = Nobody /\ peer = Nobody
    /\ success = [r \in Runs |-> FALSE]

-----------------------------------------------------------------------------
(* The programs. *)

\* A dead server gives up its port; a socket file stays.
Freed(r) == IF address = r /\ style # "socket" THEN Nobody ELSE address

Bind(r) ==
    /\ server[r] = "up" /\ address = Nobody
    /\ address' = r
    /\ UNCHANGED <<place, pc, server, client, peer, success>>

ServerExits(r) ==
    /\ server[r] = "up"
    /\ \E code \in {"zero", "nonzero"} : server' = [server EXCEPT ![r] = code]
    /\ address' = Freed(r)
    /\ UNCHANGED <<place, pc, client, peer, success>>

\* The connection reaches whoever listens at the address.
Connect ==
    /\ client = "up" /\ peer = Nobody
    /\ address # Nobody /\ server[address] = "up"
    /\ peer' = address
    /\ UNCHANGED <<place, pc, server, client, address, success>>

\* A client exits as it likes, served or not.  "zero" is an exit code of 0 and an
\* output that passes the script's checks.
ClientExits ==
    /\ client = "up"
    /\ client' \in {"zero", "nonzero"}
    /\ UNCHANGED <<place, pc, server, address, peer, success>>

-----------------------------------------------------------------------------
(* The script. *)

\* Mutant: a socket file of an earlier run stays.
CleanNothing == address

\* if os.path.exists(sock_path): os.unlink(sock_path)
CleanStaleSocket == IF style = "socket" THEN Nobody ELSE address

StartServer ==
    /\ pc = "start"
    /\ server' = [server EXCEPT ![run] = "up"]
    /\ client' = "none" /\ peer' = Nobody
    /\ address' = CleanStaleSocket
    /\ pc' = "settle"
    /\ UNCHANGED <<place, success>>

\* time.sleep, or the socket file that says the server listens.
StartClient ==
    /\ pc = "settle"
    /\ style = "socket" => address # Nobody
    /\ client' = "up"
    /\ pc' = "wait_client"
    /\ UNCHANGED <<place, server, address, peer, success>>

Killed(r) == IF server[r] = "up" THEN [server EXCEPT ![r] = "killed"] ELSE server
KilledClient == IF client = "up" THEN "killed" ELSE client

KillServer == server' = Killed(run) /\ address' = Freed(run)

\* The process cannot be started, which the "port" and "report" styles catch.
StartClientRaises ==
    /\ pc = "settle"
    /\ IF style \in {"port", "report"}
       THEN KillServer /\ pc' = "next"
       ELSE UNCHANGED <<server, address>> /\ pc' = "dying"
    /\ UNCHANGED <<place, client, peer, success>>

\* No socket file after 100 looks, 0.05 s apart.
NoSocket ==
    /\ pc = "settle" /\ style = "socket" /\ address = Nobody
    /\ KillServer
    /\ pc' = "next"
    /\ UNCHANGED <<place, client, peer, success>>

ClientEnds ==
    /\ pc = "wait_client" /\ client # "up"
    /\ pc' = "wait_server"
    /\ UNCHANGED <<place, server, client, address, peer, success>>

\* Mutant: only the client is killed.
ClientTimedOutAlone ==
    /\ pc = "wait_client"
    /\ client' = KilledClient
    /\ pc' = "next"
    /\ UNCHANGED <<place, server, address, peer, success>>

\* communicate(timeout) of the client expires: both are killed; the "session"
\* style only gives the client up and waits for the server as ever.
ClientTimedOut ==
    /\ pc = "wait_client"
    /\ client' = KilledClient
    /\ IF style = "session"
       THEN pc' = "wait_server" /\ UNCHANGED <<server, address>>
       ELSE pc' = "next" /\ KillServer
    /\ UNCHANGED <<place, peer, success>>

\* Mutant: the client's word is enough.
ClientsWord == {client = "zero"}

\* What may be made of a pair that ended: in the "report" style either program may
\* have printed PASS, however it exited; in the "session" style it is the client's
\* result; in the others both must have exited with 0.
Results ==
    IF style = "report" THEN BOOLEAN
    ELSE {client = "zero" /\ (style = "session" \/ server[run] = "zero")}

ServerEnds ==
    /\ pc = "wait_server" /\ server[run] # "up"
    /\ \E result \in Results : success' = [success EXCEPT ![run] = result]
    /\ address' = IF style = "socket" THEN Nobody ELSE address
    /\ pc' = "next"
    /\ UNCHANGED <<place, server, client, peer>>

\* Mutant: communicate() without a timeout.
ServerWaitedFor == FALSE /\ UNCHANGED vars

\* communicate(timeout) of the server expires: it is killed, by its group where it
\* leads one; only in the "session" style does that leave the client's result.
ServerTimedOut ==
    /\ pc = "wait_server"
    /\ success' = [success EXCEPT ![run] = (style = "session" /\ client = "zero")]
    /\ server' = Killed(run)
    /\ address' = IF style = "socket" THEN Nobody ELSE Freed(run)
    /\ pc' = "next"
    /\ UNCHANGED <<place, client, peer>>

More == nth < RunsPerScript

\* The next pair of the script, or its end.
NextRun ==
    /\ pc = "next"
    /\ IF More THEN nth' = nth + 1 /\ pc' = "start" ELSE nth' = nth /\ pc' = "over"
    /\ UNCHANGED <<style, script, server, client, address, peer, success>>

\* The parent's timeout, at any time before the script is through with its pair, or
\* the exception nothing catches: what belongs to the script's group is killed,
\* and a server in a session of its own does not.
Dies ==
    /\ pc \in {"settle", "wait_client", "wait_server", "dying"}
    /\ client' = KilledClient
    /\ IF style = "session" THEN UNCHANGED <<server, address>> ELSE KillServer
    /\ pc' = "dead"
    /\ UNCHANGED <<place, peer, success>>

\* Another evaluation starts its script.  Its pid is in the path of its socket: it
\* is another one, or one that was used before, and then a killed script may have
\* left its socket file there.
NextScript ==
    /\ pc \in {"over", "dead"}
    /\ IF script < MaxScripts
       THEN script' = script + 1 /\ nth' = 1 /\ pc' = "start"
       ELSE UNCHANGED <<script, nth>> /\ pc' = "done"
    /\ address' \in IF style = "socket" THEN {Nobody, address} ELSE {address}
    /\ UNCHANGED <<style, server, client, peer, success>>

Done == pc = "done" /\ UNCHANGED vars

Script ==
    \/ StartServer \/ StartClient \/ StartClientRaises \/ NoSocket
    \/ ClientEnds \/ ClientTimedOut \/ ServerEnds \/ ServerTimedOut
    \/ NextRun \/ Dies \/ NextScript

Programs == (\E r \in Runs : Bind(r) \/ ServerExits(r)) \/ Connect \/ ClientExits

Next == Script \/ Programs \/ Done

\* The script goes on and its timeouts expire; nothing is owed by the programs.
Spec ==
    /\ Init /\ [][Next]_vars
    /\ WF_vars(StartServer \/ StartClient \/ NoSocket \/ ClientEnds \/ ClientTimedOut
               \/ ServerEnds \/ ServerTimedOut \/ NextRun \/ NextScript
               \/ (pc = "dying" /\ Dies))

-----------------------------------------------------------------------------
\* The values of the variables.
TypeOK ==
    /\ style \in Styles
    /\ pc \in {"start", "settle", "wait_client", "wait_server", "next", "over", "dying", "dead", "done"}
    /\ script \in 1..MaxScripts /\ nth \in 1..RunsPerScript
    /\ server \in [Runs -> ProcessStates] /\ client \in ProcessStates
    /\ address \in Runs \cup {Nobody} /\ peer \in Runs \cup {Nobody}
    /\ success \in [Runs -> BOOLEAN]

\* Before the next pair starts, and after the script, nothing of the last one runs,
\* however it ended, the parent's timeout included: it cannot hold the port of the
\* next one.  (The server of example009 may outlive its script.)
NoOrphans ==
    style # "session" /\ pc \in {"start", "next", "over", "dead", "done"} =>
        client # "up" /\ \A r \in Runs : server[r] # "up"

\* While the script lives, no server of one of its earlier pairs does, in any style.
OnlyOwnServer ==
    \A r \in Runs : server[r] = "up" /\ r # run =>
        style = "session" /\ r[1] < script

\* A pair that is called a success is one: its client ended by itself, and in the
\* styles that ask for exit codes both programs exited with 0; a server that was
\* killed is never part of one, but for example009, which does not look at it.  And
\* whoever served the client was the server of the same pair, never one that an
\* earlier pair or evaluation left behind - but for example009 again, whose servers
\* outlive a killed script: its client may have been served by one of those.
SuccessIsOwn ==
    \A r \in Runs : success[r] =>
        /\ style \in {"port", "socket"} => server[r] = "zero"
        /\ style = "report" => server[r] \in {"zero", "nonzero"}
        /\ r = run =>
              /\ client = "zero" \/ (style = "report" /\ client = "nonzero")
              /\ peer \in {Nobody, r} \/ (style = "session" /\ peer[1] < script)

\* In the "socket" style the client is started only when the server of the same
\* pair has made its socket.
ClientFindsItsSocket == [][style = "socket" /\ client # "up" /\ client' = "up" => address = run]_vars

\* Every script ends, and the last one too, whatever its programs do.
AllReturn == <>(pc = "done")

=============================================================================

--------------------------- MODULE RunPairProofs ---------------------------
(***************************************************************************)
(* No server outlives its pair, and no pair that succeeds was served by    *)
(* another: for any number of scripts and of pairs per script.             *)
(***************************************************************************)
EXTENDS RunPair, Integers, TLAPS

Ended == {"zero", "nonzero"}

\* The client runs only while it is waited for, and is then given up only in the
\* style that goes on to its server.
ClientInv ==
    /\ client = "up" => pc = "wait_client"
    /\ pc = "wait_client" => client \in Ended \cup {"up"}
    /\ pc = "wait_server" /\ style # "session" => client \in Ended

\* The server of a pair is gone when the pair is through, and not killed before.
ServerInv ==
    /\ pc \in {"start", "next", "over"} => server[run] # "up"
    /\ pc \in {"settle", "wait_client", "wait_server"} => server[run] \in Ended \cup {"up"}

\* Where servers die with their script there is no other server to talk to, and
\* elsewhere it is one of an earlier script.
PeerInv == pc # "start" => peer \in {Nobody, run} \/ (style = "session" /\ peer[1] < script)

\* How the programs of a successful pair ended.
ClientDid == client = "zero" \/ (style = "report" /\ client = "nonzero")
ServerDid(r) ==
    /\ style \in {"port", "socket"} => server[r] = "zero"
    /\ style = "report" => server[r] \in Ended

\* A result is a run's that is through.
SuccessInv ==
    \A r \in Runs : success[r] =>
        /\ ServerDid(r)
        /\ r = run => ClientDid
        /\ \/ r[1] < script
           \/ r[1] = script /\ r[2] < nth
           \/ r = run /\ pc \in {"next", "over", "done"}

Inv == TypeOK /\ ClientInv /\ ServerInv /\ NoOrphans /\ OnlyOwnServer /\ PeerInv /\ SuccessInv

-----------------------------------------------------------------------------
LEMMA RunIsRun == TypeOK => run \in Runs
BY DEF TypeOK, run, Runs

LEMMA NobodyIsNoRun == \A r \in Runs : r # Nobody
BY MaxScriptsAssumption, RunsPerScriptAssumption DEF Runs, Nobody

LEMMA Numbers ==
    ASSUME TypeOK
    PROVE  run[1] = script /\ run[2] = nth /\ ~(script < script) /\ ~(nth < nth)
<1>1. script \in 1..MaxScripts /\ nth \in 1..RunsPerScript
    BY DEF TypeOK
<1>2. script \in Int /\ nth \in Int
    BY <1>1
<1> QED
    BY <1>2 DEF run

LEMMA Later ==
    ASSUME TypeOK, NEW r \in Runs, r[1] = script \/ r[1] < script
    PROVE  r[1] < script + 1
<1>1. script \in 1..MaxScripts /\ r[1] \in 1..MaxScripts
    BY DEF TypeOK, Runs
<1>2. script \in Int /\ r[1] \in Int
    BY <1>1
<1> QED
    BY <1>2

\* Where the next script starts.
LEMMA NextPlace ==
    ASSUME TypeOK, NextScript
    PROVE  /\ script' \in 1..MaxScripts /\ nth' \in 1..RunsPerScript
           /\ pc' = "start" => /\ script' = script + 1 /\ run' \in Runs
                              /\ run' # run /\ ~(run'[1] < script)
           /\ pc' = "done" => run' = run /\ script' = script /\ nth' = nth
           /\ pc' \in {"start", "done"}
<1>1. script \in 1..MaxScripts /\ nth \in 1..RunsPerScript
    BY DEF TypeOK
<1>2. CASE script < MaxScripts
    <2>1. script' = script + 1 /\ nth' = 1 /\ pc' = "start"
        BY <1>2 DEF NextScript
    <2>2. script + 1 \in 1..MaxScripts /\ 1 \in 1..RunsPerScript /\ ~(script + 1 < script)
          /\ script + 1 # script
        BY <1>1, <1>2, MaxScriptsAssumption, RunsPerScriptAssumption
    <2> QED
        BY <2>1, <2>2 DEF run, Runs
<1>3. CASE ~(script < MaxScripts)
    BY <1>1, <1>3 DEF NextScript, run
<1> QED
    BY <1>2, <1>3

LEMMA InitInv == Init => Inv
<1> SUFFICES ASSUME Init PROVE Inv
    OBVIOUS
<1>1. TypeOK
    BY MaxScriptsAssumption, RunsPerScriptAssumption DEF Init, TypeOK, ProcessStates
<1>2. run \in Runs
    BY <1>1, RunIsRun
<1> QED
    BY <1>1, <1>2 DEF Init, Inv, ClientInv, ServerInv, NoOrphans, OnlyOwnServer, PeerInv, SuccessInv

-----------------------------------------------------------------------------
LEMMA TypeStep ==
    ASSUME Inv, Next
    PROVE  TypeOK'
<1> USE DEF Inv, TypeOK, ProcessStates, Ended
<1>1. run \in Runs
    BY RunIsRun
<1>2. ASSUME NEW r \in Runs, Bind(r)
      PROVE  TypeOK'
    BY <1>2, <1>1, NobodyIsNoRun DEF Bind, run, place
<1>3. ASSUME NEW r \in Runs, ServerExits(r)
      PROVE  TypeOK'
    BY <1>3, <1>1, NobodyIsNoRun DEF ServerExits, run, place, Freed
<1>4. CASE StartServer
    BY <1>4, <1>1, NobodyIsNoRun DEF StartServer, run, place, CleanStaleSocket
<1>5. CASE StartClient
    BY <1>5, <1>1, NobodyIsNoRun DEF StartClient, run, place
<1>6. CASE StartClientRaises
    BY <1>6, <1>1, NobodyIsNoRun DEF StartClientRaises, run, place, KillServer, Killed, Freed
<1>7. CASE NoSocket
    BY <1>7, <1>1, NobodyIsNoRun DEF NoSocket, run, place, KillServer, Killed, Freed
<1>8. CASE ClientEnds
    BY <1>8, <1>1, NobodyIsNoRun DEF ClientEnds, run, place
<1>9. CASE ClientTimedOut
    BY <1>9, <1>1, NobodyIsNoRun DEF ClientTimedOut, run, place, KilledClient, KillServer, Killed, Freed
<1>10. CASE ServerEnds
    BY <1>10, <1>1, NobodyIsNoRun DEF ServerEnds, run, place, Results
<1>11. CASE ServerTimedOut
    BY <1>11, <1>1, NobodyIsNoRun DEF ServerTimedOut, run, place, Killed, Freed
<1>12. CASE NextRun
    <2>1. nth' \in 1..RunsPerScript
        BY <1>12, RunsPerScriptAssumption DEF NextRun, More
    <2> QED
        BY <1>12, <2>1 DEF NextRun
<1>13. CASE Dies
    BY <1>13, <1>1, NobodyIsNoRun DEF Dies, run, place, KilledClient, KillServer, Killed, Freed
<1>14. CASE NextScript
    <2>1. script' \in 1..MaxScripts /\ nth' \in 1..RunsPerScript
        BY <1>14, NextPlace
    <2> QED
        BY <1>14, <2>1 DEF NextScript
<1>15. CASE Connect
    BY <1>15, <1>1, NobodyIsNoRun DEF Connect, run, place
<1>16. CASE ClientExits
    BY <1>16, <1>1, NobodyIsNoRun DEF ClientExits, run, place
<1>17. CASE Done
    BY <1>17 DEF Done, vars, run
<1> QED
    BY <1>2, <1>3, <1>4, <1>5, <1>6, <1>7, <1>8, <1>9, <1>10, <1>11, <1>12, <1>13, <1>14, <1>15, <1>16, <1>17 DEF Next, Script, Programs

LEMMA ClientStep ==
    ASSUME Inv, Next
    PROVE  ClientInv'
<1> USE DEF Inv, TypeOK, ClientInv, Ended
<1>1. run \in Runs
    BY RunIsRun
<1>2. ASSUME NEW r \in Runs, Bind(r)
      PROVE  ClientInv'
    BY <1>2, <1>1, NobodyIsNoRun DEF Bind, run, place
<1>3. ASSUME NEW r \in Runs, ServerExits(r)
      PROVE  ClientInv'
    BY <1>3, <1>1, NobodyIsNoRun DEF ServerExits, run, place, Freed
<1>4. CASE StartServer
    BY <1>4, <1>1, NobodyIsNoRun DEF StartServer, run, place, CleanStaleSocket
<1>5. CASE StartClient
    BY <1>5, <1>1, NobodyIsNoRun DEF StartClient, run, place
<1>6. CASE StartClientRaises
    BY <1>6, <1>1, NobodyIsNoRun DEF StartClientRaises, run, place, KillServer, Killed, Freed
<1>7. CASE NoSocket
    BY <1>7, <1>1, NobodyIsNoRun DEF NoSocket, run, place, KillServer, Killed, Freed
<1>8. CASE ClientEnds
    BY <1>8, <1>1, NobodyIsNoRun DEF ClientEnds, run, place
<1>9. CASE ClientTimedOut
    BY <1>9, <1>1, NobodyIsNoRun DEF ClientTimedOut, run, place, KilledClient, KillServer, Killed, Freed
<1>10. CASE ServerEnds
    BY <1>10, <1>1, NobodyIsNoRun DEF ServerEnds, run, place, Results
<1>11. CASE ServerTimedOut
    BY <1>11, <1>1, NobodyIsNoRun DEF ServerTimedOut, run, place, Killed, Freed
<1>12. CASE NextRun
    BY <1>12, <1>1, NobodyIsNoRun DEF NextRun, run, place, More
<1>13. CASE Dies
    BY <1>13, <1>1, NobodyIsNoRun DEF Dies, run, place, KilledClient, KillServer, Killed, Freed
<1>14. CASE NextScript
    BY <1>14, <1>1, NobodyIsNoRun DEF NextScript, run, place
<1>15. CASE Connect
    BY <1>15, <1>1, NobodyIsNoRun DEF Connect, run, place
<1>16. CASE ClientExits
    BY <1>16, <1>1, NobodyIsNoRun DEF ClientExits, run, place
<1>17. CASE Done
    BY <1>17 DEF Done, vars, run
<1> QED
    BY <1>2, <1>3, <1>4, <1>5, <1>6, <1>7, <1>8, <1>9, <1>10, <1>11, <1>12, <1>13, <1>14, <1>15, <1>16, <1>17 DEF Next, Script, Programs

LEMMA ServerStep ==
    ASSUME Inv, Next
    PROVE  ServerInv'
<1> USE DEF Inv, TypeOK, ServerInv, OnlyOwnServer, Runs, Ended
<1>1. run \in Runs
    BY RunIsRun
<1>2. ASSUME NEW r \in Runs, Bind(r)
      PROVE  ServerInv'
    BY <1>2, <1>1, NobodyIsNoRun DEF Bind, run, place
<1>3. ASSUME NEW r \in Runs, ServerExits(r)
      PROVE  ServerInv'
    BY <1>3, <1>1, NobodyIsNoRun DEF ServerExits, run, place, Freed
<1>4. CASE StartServer
    BY <1>4, <1>1, NobodyIsNoRun DEF StartServer, run, place, CleanStaleSocket
<1>5. CASE StartClient
    BY <1>5, <1>1, NobodyIsNoRun DEF StartClient, run, place
<1>6. CASE StartClientRaises
    BY <1>6, <1>1, NobodyIsNoRun DEF StartClientRaises, run, place, KillServer, Killed, Freed
<1>7. CASE NoSocket
    BY <1>7, <1>1, NobodyIsNoRun DEF NoSocket, run, place, KillServer, Killed, Freed
<1>8. CASE ClientEnds
    BY <1>8, <1>1, NobodyIsNoRun DEF ClientEnds, run, place
<1>9. CASE ClientTimedOut
    BY <1>9, <1>1, NobodyIsNoRun DEF ClientTimedOut, run, place, KilledClient, KillServer, Killed, Freed
<1>10. CASE ServerEnds
    BY <1>10, <1>1, NobodyIsNoRun DEF ServerEnds, run, place, Results
<1>11. CASE ServerTimedOut
    BY <1>11, <1>1, NobodyIsNoRun DEF ServerTimedOut, run, place, Killed, Freed
<1>12. CASE NextRun
    <2>1. run' \in Runs /\ (pc' = "start" => run' # run)
        BY <1>12, RunsPerScriptAssumption DEF NextRun, More, run
    <2>2. pc' = "start" => server[run'] # "up"
        BY <1>12, <2>1 DEF NextRun, run
    <2> QED
        BY <1>12, <2>2 DEF NextRun, run, More
<1>13. CASE Dies
    BY <1>13, <1>1, NobodyIsNoRun DEF Dies, run, place, KilledClient, KillServer, Killed, Freed
<1>14. CASE NextScript
    <2>3. pc' = "start" => server[run'] # "up"
        BY <1>14, NextPlace
    <2> QED
        BY <1>14, <2>3 DEF NextScript
<1>15. CASE Connect
    BY <1>15, <1>1, NobodyIsNoRun DEF Connect, run, place
<1>16. CASE ClientExits
    BY <1>16, <1>1, NobodyIsNoRun DEF ClientExits, run, place
<1>17. CASE Done
    BY <1>17 DEF Done, vars, run
<1> QED
    BY <1>2, <1>3, <1>4, <1>5, <1>6, <1>7, <1>8, <1>9, <1>10, <1>11, <1>12, <1>13, <1>14, <1>15, <1>16, <1>17 DEF Next, Script, Programs

LEMMA OrphanStep ==
    ASSUME Inv, Next
    PROVE  NoOrphans'
<1> USE DEF Inv, TypeOK, ClientInv, ServerInv, NoOrphans, OnlyOwnServer, Ended
<1>1. run \in Runs
    BY RunIsRun
<1>2. ASSUME NEW r \in Runs, Bind(r)
      PROVE  NoOrphans'
    BY <1>2, <1>1, NobodyIsNoRun DEF Bind, run, place
<1>3. ASSUME NEW r \in Runs, ServerExits(r)
      PROVE  NoOrphans'
    BY <1>3, <1>1, NobodyIsNoRun DEF ServerExits, run, place, Freed
<1>4. CASE StartServer
    BY <1>4, <1>1, NobodyIsNoRun DEF StartServer, run, place, CleanStaleSocket
<1>5. CASE StartClient
    BY <1>5, <1>1, NobodyIsNoRun DEF StartClient, run, place
<1>6. CASE StartClientRaises
    BY <1>6, <1>1, NobodyIsNoRun DEF StartClientRaises, run, place, KillServer, Killed, Freed
<1>7. CASE NoSocket
    BY <1>7, <1>1, NobodyIsNoRun DEF NoSocket, run, place, KillServer, Killed, Freed
<1>8. CASE ClientEnds
    BY <1>8, <1>1, NobodyIsNoRun DEF ClientEnds, run, place
<1>9. CASE ClientTimedOut
    BY <1>9, <1>1, NobodyIsNoRun DEF ClientTimedOut, run, place, KilledClient, KillServer, Killed, Freed
<1>10. CASE ServerEnds
    BY <1>10, <1>1, NobodyIsNoRun DEF ServerEnds, run, place, Results
<1>11. CASE ServerTimedOut
    BY <1>11, <1>1, NobodyIsNoRun DEF ServerTimedOut, run, place, Killed, Freed
<1>12. CASE NextRun
    BY <1>12, <1>1, NobodyIsNoRun DEF NextRun, run, place, More
<1>13. CASE Dies
    BY <1>13, <1>1, NobodyIsNoRun DEF Dies, run, place, KilledClient, KillServer, Killed, Freed
<1>14. CASE NextScript
    BY <1>14, <1>1, NobodyIsNoRun DEF NextScript, run, place
<1>15. CASE Connect
    BY <1>15, <1>1, NobodyIsNoRun DEF Connect, run, place
<1>16. CASE ClientExits
    BY <1>16, <1>1, NobodyIsNoRun DEF ClientExits, run, place
<1>17. CASE Done
    BY <1>17 DEF Done, vars, run
<1> QED
    BY <1>2, <1>3, <1>4, <1>5, <1>6, <1>7, <1>8, <1>9, <1>10, <1>11, <1>12, <1>13, <1>14, <1>15, <1>16, <1>17 DEF Next, Script, Programs

LEMMA OwnServerStep ==
    ASSUME Inv, Next
    PROVE  OnlyOwnServer'
<1> USE DEF Inv, TypeOK, ServerInv, NoOrphans, OnlyOwnServer, Runs, Ended
<1>1. run \in Runs
    BY RunIsRun
<1>2. ASSUME NEW r \in Runs, Bind(r)
      PROVE  OnlyOwnServer'
    BY <1>2, <1>1, NobodyIsNoRun DEF Bind, run, place
<1>3. ASSUME NEW r \in Runs, ServerExits(r)
      PROVE  OnlyOwnServer'
    BY <1>3, <1>1, NobodyIsNoRun DEF ServerExits, run, place, Freed
<1>4. CASE StartServer
    BY <1>4, <1>1, NobodyIsNoRun DEF StartServer, run, place, CleanStaleSocket
<1>5. CASE StartClient
    BY <1>5, <1>1, NobodyIsNoRun DEF StartClient, run, place
<1>6. CASE StartClientRaises
    BY <1>6, <1>1, NobodyIsNoRun DEF StartClientRaises, run, place, KillServer, Killed, Freed
<1>7. CASE NoSocket
    BY <1>7, <1>1, NobodyIsNoRun DEF NoSocket, run, place, KillServer, Killed, Freed
<1>8. CASE ClientEnds
    BY <1>8, <1>1, NobodyIsNoRun DEF ClientEnds, run, place
<1>9. CASE ClientTimedOut
    BY <1>9, <1>1, NobodyIsNoRun DEF ClientTimedOut, run, place, KilledClient, KillServer, Killed, Freed
<1>10. CASE ServerEnds
    BY <1>10, <1>1, NobodyIsNoRun DEF ServerEnds, run, place, Results
<1>11. CASE ServerTimedOut
    BY <1>11, <1>1, NobodyIsNoRun DEF ServerTimedOut, run, place, Killed, Freed
<1>12. CASE NextRun
    BY <1>12, <1>1, NobodyIsNoRun DEF NextRun, run, place, More
<1>13. CASE Dies
    BY <1>13, <1>1, NobodyIsNoRun DEF Dies, run, place, KilledClient, KillServer, Killed, Freed
<1>14. CASE NextScript
    <2>1. CASE script < MaxScripts
        <3> SUFFICES ASSUME NEW r \in Runs, server[r] = "up"
                     PROVE  style = "session" /\ r[1] < script + 1
            BY <1>14, <2>1 DEF NextScript
        <3>1. style = "session" /\ (r[1] = script \/ r[1] < script)
            BY <1>14, <1>1, Numbers DEF NextScript
        <3> QED
            BY <3>1, Later
    <2>2. CASE ~(script < MaxScripts)
        BY <1>14, <2>2 DEF NextScript, run
    <2> QED
        BY <2>1, <2>2
<1>15. CASE Connect
    BY <1>15, <1>1, NobodyIsNoRun DEF Connect, run, place
<1>16. CASE ClientExits
    BY <1>16, <1>1, NobodyIsNoRun DEF ClientExits, run, place
<1>17. CASE Done
    BY <1>17 DEF Done, vars, run
<1> QED
    BY <1>2, <1>3, <1>4, <1>5, <1>6, <1>7, <1>8, <1>9, <1>10, <1>11, <1>12, <1>13, <1>14, <1>15, <1>16, <1>17 DEF Next, Script, Programs

LEMMA PeerStep ==
    ASSUME Inv, Next
    PROVE  PeerInv'
<1> USE DEF Inv, TypeOK, OnlyOwnServer, PeerInv
<1>1. run \in Runs
    BY RunIsRun
<1>2. ASSUME NEW r \in Runs, Bind(r)
      PROVE  PeerInv'
    BY <1>2, <1>1, NobodyIsNoRun DEF Bind, run, place
<1>3. ASSUME NEW r \in Runs, ServerExits(r)
      PROVE  PeerInv'
    BY <1>3, <1>1, NobodyIsNoRun DEF ServerExits, run, place, Freed
<1>4. CASE StartServer
    BY <1>4, <1>1, NobodyIsNoRun DEF StartServer, run, place, CleanStaleSocket
<1>5. CASE StartClient
    BY <1>5, <1>1, NobodyIsNoRun DEF StartClient, run, place
<1>6. CASE StartClientRaises
    BY <1>6, <1>1, NobodyIsNoRun DEF StartClientRaises, run, place, KillServer, Killed, Freed
<1>7. CASE NoSocket
    BY <1>7, <1>1, NobodyIsNoRun DEF NoSocket, run, place, KillServer, Killed, Freed
<1>8. CASE ClientEnds
    BY <1>8, <1>1, NobodyIsNoRun DEF ClientEnds, run, place
<1>9. CASE ClientTimedOut
    BY <1>9, <1>1, NobodyIsNoRun DEF ClientTimedOut, run, place, KilledClient, KillServer, Killed, Freed
<1>10. CASE ServerEnds
    BY <1>10, <1>1, NobodyIsNoRun DEF ServerEnds, run, place, Results
<1>11. CASE ServerTimedOut
    BY <1>11, <1>1, NobodyIsNoRun DEF ServerTimedOut, run, place, Killed, Freed
<1>12. CASE NextRun
    BY <1>12, <1>1, NobodyIsNoRun DEF NextRun, run, place, More
<1>13. CASE Dies
    BY <1>13, <1>1, NobodyIsNoRun DEF Dies, run, place, KilledClient, KillServer, Killed, Freed
<1>14. CASE NextScript
    <2>1. CASE script < MaxScripts
        BY <1>14, <2>1 DEF NextScript
    <2>2. CASE ~(script < MaxScripts)
        BY <1>14, <2>2 DEF NextScript, run
    <2> QED
        BY <2>1, <2>2
<1>15. CASE Connect
    BY <1>15, <1>1, NobodyIsNoRun DEF Connect, run, place
<1>16. CASE ClientExits
    BY <1>16, <1>1, NobodyIsNoRun DEF ClientExits, run, place
<1>17. CASE Done
    BY <1>17 DEF Done, vars, run
<1> QED
    BY <1>2, <1>3, <1>4, <1>5, <1>6, <1>7, <1>8, <1>9, <1>10, <1>11, <1>12, <1>13, <1>14, <1>15, <1>16, <1>17 DEF Next, Script, Programs

\* A run whose result is in is through, and its programs have ended.
LEMMA ResultsAreIn ==
    ASSUME Inv, NEW r \in Runs, success[r]
    PROVE  /\ ServerDid(r) /\ (style # "session" => server[r] \in Ended)
           /\ r = run => pc \in {"next", "over", "done"} /\ ClientDid
           /\ r[1] < script \/ r[1] = script
<1>1. style \in {"port", "report", "socket", "session"}
    BY StylesAssumption DEF Inv, TypeOK
<1>2. /\ ServerDid(r) /\ (r = run => ClientDid)
      /\ r = run => pc \in {"next", "over", "done"}
      /\ r[1] < script \/ r[1] = script
    BY Numbers DEF Inv, SuccessInv
<1> QED
    BY <1>1, <1>2 DEF ServerDid, Ended

\* A step that leaves the results alone, and how the programs of one ended.
LEMMA ResultsStay ==
    ASSUME Inv, UNCHANGED <<style, script, nth, success>>,
           \A r \in Runs : success[r] /\ style # "session" => server'[r] = server[r],
           success[run] => client' = client /\ pc' \in {"next", "over", "done"}
    PROVE  SuccessInv'
<1> SUFFICES ASSUME NEW r \in Runs, success[r]
             PROVE  /\ ServerDid(r)'
                    /\ r = run => ClientDid'
                    /\ \/ r[1] < script
                       \/ r[1] = script /\ r[2] < nth
                       \/ r = run /\ pc' \in {"next", "over", "done"}
    BY DEF SuccessInv, run
<1>1. /\ ServerDid(r) /\ (r = run => ClientDid)
      /\ r[1] < script \/ (r[1] = script /\ r[2] < nth) \/ r = run
    BY DEF Inv, SuccessInv
<1>2. ServerDid(r)'
    BY <1>1 DEF ServerDid
<1>3. r = run => ClientDid'
    BY <1>1 DEF ClientDid
<1> QED
    BY <1>1, <1>2, <1>3

\* A result comes in.
LEMMA ResultComesIn ==
    ASSUME Inv, pc = "wait_server", pc' = "next", UNCHANGED <<style, script, nth, client>>,
           \A r \in Runs : r # run => server'[r] = server[r],
           NEW v \in BOOLEAN, success' = [success EXCEPT ![run] = v],
           v => ServerDid(run)' /\ ClientDid
    PROVE  SuccessInv'
<1>1. run \in Runs /\ run' = run
    BY RunIsRun DEF Inv, run
<1> SUFFICES ASSUME NEW r \in Runs, success'[r]
             PROVE  /\ ServerDid(r)'
                    /\ r = run => ClientDid'
                    /\ \/ r[1] < script
                       \/ r[1] = script /\ r[2] < nth
                       \/ r = run /\ pc' \in {"next", "over", "done"}
    BY <1>1 DEF SuccessInv
<1>2. CASE r = run
    <2>1. v
        BY <1>1, <1>2 DEF Inv, TypeOK
    <2> QED
        BY <1>1, <1>2, <2>1 DEF ClientDid, ServerDid
<1>3. CASE r # run
    <2>1. success[r]
        BY <1>1, <1>3 DEF Inv, TypeOK
    <2>2. ServerDid(r) /\ (r[1] < script \/ (r[1] = script /\ r[2] < nth))
        BY <1>3, <2>1 DEF Inv, SuccessInv
    <2>3. ServerDid(r)'
        BY <1>3, <2>2 DEF ServerDid
    <2> QED
        BY <1>3, <2>2, <2>3
<1> QED
    BY <1>2, <1>3

LEMMA SuccessStep ==
    ASSUME Inv, Next
    PROVE  SuccessInv'
<1>1. run \in Runs /\ style \in {"port", "report", "socket", "session"}
    BY RunIsRun, StylesAssumption DEF Inv, TypeOK
<1>2. /\ \A r \in Runs : success[r] /\ style # "session" => server[r] \in Ended
      /\ pc \notin {"next", "over", "done"} => ~success[run]
    BY <1>1, ResultsAreIn
<1>3. ASSUME NEW q \in Runs, Bind(q) \/ ServerExits(q)
      PROVE  SuccessInv'
    <2>1. /\ UNCHANGED <<style, script, nth, success, client, pc>>
          /\ \A r \in Runs : r # q => server'[r] = server[r]
          /\ server[q] = "up"
        BY <1>3 DEF Bind, ServerExits, place, Inv, TypeOK
    <2>2. \A r \in Runs : success[r] /\ style # "session" => server'[r] = server[r]
        BY <1>2, <2>1 DEF Ended
    <2> QED
        BY <1>2, <2>1, <2>2, ResultsStay
<1>4. CASE \/ StartServer \/ StartClient \/ StartClientRaises \/ NoSocket \/ ClientEnds
           \/ ClientTimedOut \/ Dies \/ ClientExits
    <2>1. pc \notin {"next", "over", "done"}
        BY <1>4 DEF StartServer, StartClient, StartClientRaises, NoSocket, ClientEnds,
                    ClientTimedOut, Dies, ClientExits, Inv, ClientInv
    <2>2. UNCHANGED <<style, script, nth, success>>
        BY <1>4 DEF StartServer, StartClient, StartClientRaises, NoSocket, ClientEnds,
                    ClientTimedOut, Dies, ClientExits, place
    <2>3. \A r \in Runs : r # run => server'[r] = server[r]
        BY <1>4 DEF StartServer, StartClient, StartClientRaises, NoSocket, ClientEnds, KillServer,
                    ClientTimedOut, Dies, ClientExits, Killed, Inv, TypeOK
    <2> QED
        BY <1>2, <2>1, <2>2, <2>3, ResultsStay
<1>5. CASE Connect \/ Done
    <2>1. UNCHANGED <<style, script, nth, success, server, client, pc>>
        BY <1>5 DEF Connect, Done, vars, place
    <2> QED
        BY <1>2, <2>1, ResultsStay
<1>6. CASE ServerEnds
    <2>1. /\ pc = "wait_server" /\ pc' = "next" /\ UNCHANGED <<style, script, nth, client, server>>
          /\ server[run] # "up"
        BY <1>6 DEF ServerEnds, place
    <2>2. PICK v \in Results : success' = [success EXCEPT ![run] = v]
        BY <1>6 DEF ServerEnds
    <2>3. server[run] \in Ended /\ (style # "session" => client \in Ended)
        BY <2>1 DEF Inv, ServerInv, ClientInv
    <2>4. run' = run /\ v \in BOOLEAN
        BY <2>1, <2>2 DEF run, Results
    <2>5. v => ServerDid(run)' /\ ClientDid
        <3>1. CASE style = "report"
            BY <2>1, <2>3, <2>4, <3>1 DEF ServerDid, ClientDid, Ended
        <3>2. CASE style # "report"
            BY <2>1, <2>2, <2>4, <3>2 DEF ServerDid, ClientDid, Results
        <3> QED BY <3>1, <3>2
    <2> QED
        BY <2>1, <2>2, <2>4, <2>5, ResultComesIn
<1>7. CASE ServerTimedOut
    <2> DEFINE v == style = "session" /\ client = "zero"
    <2>1. /\ pc = "wait_server" /\ pc' = "next" /\ UNCHANGED <<style, script, nth, client>>
          /\ success' = [success EXCEPT ![run] = v] /\ v \in BOOLEAN
        BY <1>7 DEF ServerTimedOut, place
    <2>2. \A r \in Runs : r # run => server'[r] = server[r]
        BY <1>7 DEF ServerTimedOut, Killed, Inv, TypeOK
    <2>3. v => ServerDid(run)' /\ ClientDid
        BY <2>1 DEF ServerDid, ClientDid
    <2> HIDE DEF v
    <2> QED
        BY <2>1, <2>2, <2>3, ResultComesIn
<1>8. CASE NextRun
    <2>1. /\ UNCHANGED <<style, script, success, server, client>> /\ pc = "next"
          /\ \/ nth' = nth + 1 /\ pc' = "start"
             \/ nth' = nth /\ pc' = "over"
        BY <1>8 DEF NextRun
    <2>2. script \in Int /\ nth \in Int /\ Runs \subseteq Int \X Int
        BY DEF Inv, TypeOK, Runs
    <2>3. CASE nth' = nth
        <3>1. pc' = "over"
            BY <2>1, <2>2, <2>3
        <3> QED
            BY <1>2, <2>1, <2>3, <3>1, ResultsStay
    <2>4. CASE nth' = nth + 1
        <3> SUFFICES ASSUME NEW r \in Runs, success[r]
                     PROVE  /\ ServerDid(r)' /\ r # run'
                            /\ r[1] < script \/ (r[1] = script /\ r[2] < nth')
            BY <2>1 DEF SuccessInv
        <3>1. ServerDid(r)'
            BY <2>1, ResultsAreIn DEF ServerDid
        <3>2. r[1] < script \/ (r[1] = script /\ r[2] < nth) \/ (r[1] = script /\ r[2] = nth)
            BY Numbers DEF Inv, SuccessInv
        <3>3. r[1] \in Int /\ r[2] \in Int /\ run'[1] = script /\ run'[2] = nth + 1
            BY <2>1, <2>2, <2>4 DEF run
        <3>4. r # run' /\ (r[1] < script \/ (r[1] = script /\ r[2] < nth'))
            BY <2>2, <2>4, <3>2, <3>3
        <3> QED
            BY <3>1, <3>4
    <2> QED
        BY <2>1, <2>3, <2>4
<1>9. CASE NextScript
    <2>0. UNCHANGED <<style, success, server, client>>
        BY <1>9 DEF NextScript
    <2>1. CASE script < MaxScripts
        <3>0. script' = script + 1 /\ script \in Int
            BY <1>9, <2>1 DEF NextScript, Inv, TypeOK
        <3> SUFFICES ASSUME NEW r \in Runs, success[r]
                     PROVE  ServerDid(r)' /\ r # run' /\ r[1] < script + 1
            BY <2>0, <3>0 DEF SuccessInv
        <3>1. ServerDid(r) /\ (r[1] < script \/ r[1] = script)
            BY ResultsAreIn
        <3>2. r[1] < script + 1
            BY <3>1, Later DEF Inv
        <3>3. run'[1] = script + 1 /\ r[1] \in Int
            BY <3>0 DEF run, Runs
        <3>4. ServerDid(r)'
            BY <2>0, <3>1 DEF ServerDid
        <3> QED
            BY <3>0, <3>2, <3>3, <3>4
    <2>2. CASE ~(script < MaxScripts)
        <3>1. UNCHANGED <<script, nth>> /\ pc' = "done"
            BY <1>9, <2>2 DEF NextScript
        <3> QED
            BY <1>2, <2>0, <3>1, ResultsStay
    <2> QED
        BY <2>1, <2>2
<1> QED
    BY <1>3, <1>4, <1>5, <1>6, <1>7, <1>8, <1>9 DEF Next, Script, Programs

-----------------------------------------------------------------------------
LEMMA StepInv == Inv /\ [Next]_vars => Inv'
<1> SUFFICES ASSUME Inv, [Next]_vars PROVE Inv'
    OBVIOUS
<1>1. CASE Next
    BY <1>1, TypeStep, ClientStep, ServerStep, OrphanStep, OwnServerStep, PeerStep, SuccessStep
       DEF Inv
<1>2. CASE UNCHANGED vars
    BY <1>2 DEF vars, Inv, TypeOK, ClientInv, ServerInv, NoOrphans, OnlyOwnServer, PeerInv,
                SuccessInv, ServerDid, ClientDid, run
<1> QED
    BY <1>1, <1>2

LEMMA AlwaysInv == Spec => []Inv
BY InitInv, StepInv, PTL DEF Spec

LEMMA OwnSuccess == Inv => SuccessIsOwn
<1> SUFFICES ASSUME Inv, NEW r \in Runs, success[r]
             PROVE  /\ ServerDid(r)
                    /\ r = run => /\ ClientDid
                                  /\ peer \in {Nobody, r} \/ (style = "session" /\ peer[1] < script)
    BY DEF SuccessIsOwn, ServerDid, ClientDid, Ended
<1>1. ServerDid(r) /\ (r = run => ClientDid)
    BY DEF Inv, SuccessInv
<1>2. r = run => pc \in {"next", "over", "done"}
    BY Numbers DEF Inv, SuccessInv
<1> QED
    BY <1>1, <1>2 DEF Inv, PeerInv

-----------------------------------------------------------------------------
\* The variables keep their types, whatever the programs and the parent do to a script
\* that runs its pairs (run_pair of the scripts, the loops of their compare modes).
THEOREM TypeCorrect == Spec => []TypeOK
<1>1. Inv => TypeOK
    BY DEF Inv
<1> QED
    BY <1>1, AlwaysInv, PTL

\* Killing server and client on every way out, and the group's death on the parent's
\* timeout, leaves no process of a pair behind when the next pair starts.
THEOREM NothingOutlivesItsPair == Spec => []NoOrphans
<1>1. Inv => NoOrphans
    BY DEF Inv
<1> QED
    BY <1>1, AlwaysInv, PTL

\* A script never has two servers up; only a server in a session of its own
\* (example009) meets the servers of a later script.
THEOREM ServersDoNotMeet == Spec => []OnlyOwnServer
<1>1. Inv => OnlyOwnServer
    BY DEF Inv
<1> QED
    BY <1>1, AlwaysInv, PTL

\* A pair that is called a success is one of a client that ended by itself, with both
\* exit codes 0 where they are asked for, and nobody but the server of the same pair
\* served it; example009 takes the client's word, and its client may have met the
\* server that a killed evaluation left behind.
THEOREM SuccessesAreOwn == Spec => []SuccessIsOwn
BY OwnSuccess, AlwaysInv, PTL

-----------------------------------------------------------------------------
(* The socket file a client is shown: the script has unlinked the last     *)
(* one, and no other server is there to make one.                          *)

SocketInv == style = "socket" /\ pc = "settle" => address \in {Nobody, run}

LEMMA SocketStep ==
    ASSUME Inv, SocketInv, [Next]_vars
    PROVE  SocketInv'
<1> USE DEF SocketInv
<1>1. SUFFICES ASSUME style' = "socket", pc' = "settle"
               PROVE  address' \in {Nobody, run'}
    OBVIOUS
<1>2. ASSUME NEW r \in Runs, Bind(r)
      PROVE  address' \in {Nobody, run'}
    <2>1. r = run
        BY <1>1, <1>2 DEF Bind, place, Inv, OnlyOwnServer
    <2> QED
        BY <1>2, <2>1 DEF Bind, place, run
<1>3. ASSUME NEW r \in Runs, ServerExits(r)
      PROVE  address' \in {Nobody, run'}
    BY <1>1, <1>3 DEF ServerExits, Freed, place, run
<1>4. CASE StartServer
    BY <1>1, <1>4 DEF StartServer, CleanStaleSocket, place
<1>5. CASE Connect \/ ClientExits \/ Done \/ UNCHANGED vars
    BY <1>1, <1>5 DEF Connect, ClientExits, Done, vars, place, run
<1>6. ~(\/ StartClient \/ StartClientRaises \/ NoSocket \/ ClientEnds \/ ClientTimedOut \/ ServerEnds
        \/ ServerTimedOut \/ NextRun \/ Dies \/ NextScript)
    BY <1>1 DEF StartClient, StartClientRaises, NoSocket, ClientEnds, ClientTimedOut, ServerEnds,
                ServerTimedOut, NextRun, Dies, NextScript
<1> QED
    BY <1>2, <1>3, <1>4, <1>5, <1>6 DEF Next, Script, Programs

\* A client is only ever started by StartClient.
LEMMA StartedByStartClient ==
    ASSUME [Next]_vars, client # "up", client' = "up"
    PROVE  StartClient
<1> QED
    BY DEF Next, Script, Programs, StartServer, StartClient, StartClientRaises, NoSocket, ClientEnds,
           ClientTimedOut, ServerEnds, ServerTimedOut, NextRun, Dies, NextScript, Bind, ServerExits,
           Connect, ClientExits, Done, vars, KilledClient

\* In the "socket" style no client is started on the socket file of another pair,
\* killed or crashed as that one's server may have been.
THEOREM ClientsFindTheirSocket == Spec => ClientFindsItsSocket
<1>1. Init => SocketInv
    BY DEF Init, SocketInv
<1>2. ASSUME Inv, SocketInv, [Next]_vars
      PROVE  style = "socket" /\ client # "up" /\ client' = "up" => address = run
    BY <1>2, StartedByStartClient DEF StartClient, SocketInv
<1> QED
    BY <1>1, <1>2, SocketStep, AlwaysInv, PTL DEF Spec, ClientFindsItsSocket

-----------------------------------------------------------------------------
(* What makes every script end, but for its being scheduled: it has a       *)
(* number of steps left, and the programs cannot add to them.               *)

\* The steps that are left of a pair.
LeftOfPair ==
    CASE pc = "start" -> 7
      [] pc = "settle" -> 6
      [] pc = "wait_client" -> 5
      [] pc = "wait_server" -> 4
      [] pc = "next" -> 3
      [] pc = "dying" -> 2
      [] pc \in {"over", "dead"} -> 1
      [] pc = "done" -> 0

LeftOfScript == (RunsPerScript - nth) * 5 + LeftOfPair

\* A script takes at most this many steps.
PerScript == RunsPerScript * 5 + 2

Left == (MaxScripts - script) * PerScript + LeftOfScript

LEMMA ScriptIsSmall == ASSUME TypeOK PROVE LeftOfScript \in 0..PerScript /\ PerScript \in Nat
  <1>1. LeftOfPair \in 0..7
    BY DEF TypeOK, LeftOfPair
  <1>2. nth \in 1..RunsPerScript /\ RunsPerScript \in Nat
    BY RunsPerScriptAssumption DEF TypeOK
  <1> QED BY <1>1, <1>2 DEF LeftOfScript, PerScript

LEMMA ScriptsArePaidFor ==
  ASSUME NEW n \in Nat, PerScript \in Nat
  PROVE  n * PerScript \in Nat /\ (n + 1) * PerScript = n * PerScript + PerScript
  <1>1. \A k \in Nat : n * k \in Nat /\ (n + 1) * k = n * k + k
    OBVIOUS
  <1> QED BY <1>1

LEMMA LeftIsNatural == ASSUME TypeOK PROVE Left \in Nat
  <1>1. MaxScripts - script \in Nat
    BY MaxScriptsAssumption DEF TypeOK
  <1>2. (MaxScripts - script) * PerScript \in Nat
    BY <1>1, ScriptIsSmall, ScriptsArePaidFor
  <1> QED BY <1>2, ScriptIsSmall DEF Left

LEMMA WithinScript ==
  ASSUME TypeOK, TypeOK', UNCHANGED script, LeftOfScript' < LeftOfScript
  PROVE  Left' < Left
  <1>1. MaxScripts - script \in Nat
    BY MaxScriptsAssumption DEF TypeOK
  <1>2. (MaxScripts - script) * PerScript \in Nat
    BY <1>1, ScriptIsSmall, ScriptsArePaidFor
  <1>3. LeftOfScript \in Nat
    BY ScriptIsSmall
  <1>4. LeftOfScript' \in Int
    <2>1. LeftOfPair' \in 0..7
      BY DEF TypeOK, LeftOfPair
    <2>2. nth' \in 1..RunsPerScript /\ RunsPerScript \in Nat
      BY RunsPerScriptAssumption DEF TypeOK
    <2> QED BY <2>1, <2>2 DEF LeftOfScript
  <1>5. Left' = (MaxScripts - script) * PerScript + LeftOfScript'
    BY DEF Left, PerScript
  <1> QED BY <1>2, <1>3, <1>4, <1>5 DEF Left

LEMMA ScriptCosts == ASSUME TypeOK, TypeOK', Script PROVE Left' < Left
  <1> USE DEF place
  <1>0. nth \in 1..RunsPerScript /\ RunsPerScript \in Nat
    BY RunsPerScriptAssumption DEF TypeOK
  <1>1. CASE StartServer \/ StartClient \/ StartClientRaises \/ NoSocket \/ ClientEnds
              \/ ClientTimedOut \/ ServerEnds \/ ServerTimedOut \/ Dies
    <2>1. UNCHANGED <<script, nth>>
      BY <1>1 DEF StartServer, StartClient, StartClientRaises, NoSocket, ClientEnds,
                  ClientTimedOut, ServerEnds, ServerTimedOut, Dies
    <2>2. \/ pc = "start" /\ pc' = "settle"
          \/ pc = "settle" /\ pc' \in {"wait_client", "next", "dying"}
          \/ pc = "wait_client" /\ pc' \in {"wait_server", "next"}
          \/ pc = "wait_server" /\ pc' = "next"
          \/ pc \in {"settle", "wait_client", "wait_server", "dying"} /\ pc' = "dead"
      BY <1>1 DEF StartServer, StartClient, StartClientRaises, NoSocket, ClientEnds,
                  ClientTimedOut, ServerEnds, ServerTimedOut, Dies
    <2>3. LeftOfPair' < LeftOfPair /\ LeftOfPair \in 0..7 /\ LeftOfPair' \in 0..7
      BY <2>2 DEF LeftOfPair
    <2>4. LeftOfScript' = (RunsPerScript - nth) * 5 + LeftOfPair'
      BY <2>1 DEF LeftOfScript
    <2>5. (RunsPerScript - nth) * 5 \in Nat
      BY <1>0
    <2>6. LeftOfScript' < LeftOfScript
      BY <2>3, <2>4, <2>5 DEF LeftOfScript
    <2> QED BY <2>1, <2>6, WithinScript
  <1>2. CASE NextRun
    <2>1. UNCHANGED script /\ LeftOfPair = 3
      BY <1>2 DEF NextRun, LeftOfPair
    <2>2. CASE More
      <3>1. nth' = nth + 1 /\ LeftOfPair' = 7
        BY <1>2, <2>2 DEF NextRun, LeftOfPair
      <3> QED BY <1>0, <2>1, <3>1, WithinScript DEF LeftOfScript
    <2>3. CASE ~More
      <3>1. nth' = nth /\ LeftOfPair' = 1
        BY <1>2, <2>3 DEF NextRun, LeftOfPair
      <3> QED BY <1>0, <2>1, <3>1, WithinScript DEF LeftOfScript
    <2> QED BY <2>2, <2>3
  <1>3. CASE NextScript
    <2>1. LeftOfPair = 1
      BY <1>3 DEF NextScript, LeftOfPair
    <2>2. CASE script < MaxScripts
      <3>1. script' = script + 1 /\ nth' = 1 /\ LeftOfPair' = 7
        BY <1>3, <2>2 DEF NextScript, LeftOfPair
      <3>2. LeftOfScript' = PerScript
        BY <1>0, <3>1 DEF LeftOfScript, PerScript
      <3>3. PICK n \in Nat : n + 1 = MaxScripts - script
        <4>1. MaxScripts - script - 1 \in Nat /\ MaxScripts - script - 1 + 1 = MaxScripts - script
          BY <2>2, MaxScriptsAssumption DEF TypeOK
        <4> QED BY <4>1
      <3>4. MaxScripts - script' = n
        BY <3>1, <3>3, MaxScriptsAssumption DEF TypeOK
      <3>5. Left' = n * PerScript + PerScript
        BY <3>2, <3>4 DEF Left, PerScript
      <3>6. Left = (n + 1) * PerScript + LeftOfScript
        BY <3>3 DEF Left
      <3>7. LeftOfScript > 0
        BY <1>0, <2>1 DEF LeftOfScript
      <3> QED BY <3>5, <3>6, <3>7, ScriptIsSmall, ScriptsArePaidFor
    <2>3. CASE ~(script < MaxScripts)
      <3>1. UNCHANGED <<script, nth>> /\ LeftOfPair' = 0
        BY <1>3, <2>3 DEF NextScript, LeftOfPair
      <3> QED BY <1>0, <2>1, <3>1, WithinScript DEF LeftOfScript
    <2> QED BY <2>2, <2>3
  <1> QED BY <1>1, <1>2, <1>3 DEF Script

LEMMA ProgramsCostNothing == Programs => Left' = Left
  <1> SUFFICES ASSUME Programs PROVE Left' = Left
    OBVIOUS
  <1>1. UNCHANGED <<script, nth, pc>>
    BY DEF Programs, Bind, ServerExits, Connect, ClientExits, place
  <1> QED BY <1>1 DEF Left, LeftOfScript, LeftOfPair, PerScript

\* Every step of a script, the parent's timeout included, is one of finitely many, and
\* nothing its programs do takes it back.
THEOREM ScriptsRunDown ==
  Spec => /\ [](Left \in Nat)
          /\ [][(Script /\ Left' < Left) \/ (Programs /\ Left' = Left)]_vars
  <1>1. TypeOK => Left \in Nat
    BY LeftIsNatural
  <1>2. TypeOK /\ TypeOK' /\ [Next]_vars => [(Script /\ Left' < Left) \/ (Programs /\ Left' = Left)]_vars
    <2> SUFFICES ASSUME TypeOK, TypeOK', Script \/ Programs
                 PROVE  (Script /\ Left' < Left) \/ (Programs /\ Left' = Left)
      BY DEF Next, Done
    <2>1. CASE Script
      BY <2>1, ScriptCosts
    <2>2. CASE Programs
      BY <2>2, ProgramsCostNothing
    <2> QED BY <2>1, <2>2
  <1> QED BY <1>1, <1>2, TypeCorrect, PTL DEF Spec
=============================================================================

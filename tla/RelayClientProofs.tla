-------------------------- MODULE RelayClientProofs --------------------------
(***************************************************************************)
(* Theorems about RelayClient for any servers, handlers and bounds.        *)
(***************************************************************************)
EXTENDS RelayClient, TLAPS, SequenceTheorems

(* What makes ChosenHasReader inductive: nothing waits to be established,   *)
(* unread, in the table of a client that settled.                           *)
NoCandidate == stat = "CONNECTED" => \A s \in Servers : serverConn[s] # "WAIT_ACK"

IInv == TypeOK /\ OneServerWhenConnected /\ ChosenHasReader /\ NoCandidate

-----------------------------------------------------------------------------
LEMMA CheckIsProc == "check" \in Procs
BY DEF Procs

LEMMA HandlersAreProcs == Handlers \subseteq Procs
BY DEF Procs

(* The tail of a list of stages and the procedures are lists of stages.     *)
LEMMA StageLists ==
    /\ Restarting \in Seq(Stages)
    /\ FromTracker \in Seq(Stages)
    /\ \A q \in Seq(Stages) :
          q # <<>> => Tail(q) \in Seq(Stages) /\ <<"started">> \o Tail(q) \in Seq(Stages)
<1>1. FromTracker \in Seq(Stages)
  BY DEF FromTracker, Stages
<1>2. <<"restart", "start">> \in Seq(Stages)
  BY DEF Stages
<1>3. <<"started">> \in Seq(Stages)
  BY DEF Stages
<1> QED
  BY <1>1, <1>2, <1>3 DEF Restarting

(* What becomes of the lists.                                               *)
LEMMA TodoStep ==
    ASSUME todo \in [Procs -> Seq(Stages)], NEW p \in Procs
    PROVE  /\ todo[p] # <<>> /\ Done(p) => todo' \in [Procs -> Seq(Stages)]
           /\ Return(p) => todo' \in [Procs -> Seq(Stages)]
           /\ \A q \in Seq(Stages) :
                 todo' = [todo EXCEPT ![p] = q] => todo' \in [Procs -> Seq(Stages)]
<1>1. \A q \in Seq(Stages) : [todo EXCEPT ![p] = q] \in [Procs -> Seq(Stages)]
  OBVIOUS
<1>2. <<>> \in Seq(Stages)
  OBVIOUS
<1>3. todo[p] # <<>> => Tail(todo[p]) \in Seq(Stages)
  BY StageLists
<1> QED
  BY <1>1, <1>2, <1>3 DEF Done, Return

LEMMA TypeInit == Init => TypeOK
<1> SUFFICES ASSUME Init PROVE TypeOK
  OBVIOUS
<1>1. todo \in [Procs -> Seq(Stages)]
  <2>1. PICK c \in Handlers :
          todo = [p \in Procs |-> IF p = c THEN <<"start">> \o FromTracker ELSE <<>>]
    BY DEF Init
  <2>2. <<"start">> \in Seq(Stages)
    BY DEF Stages
  <2> QED
    BY <2>1, <2>2, StageLists
<1> QED
  BY <1>1, BoundAssumption DEF Init, TypeOK, ClientStats

(* Every step keeps the types.                                              *)
LEMMA TypeNext == TypeOK /\ [Next]_vars => TypeOK'
<1> SUFFICES ASSUME TypeOK, [Next]_vars PROVE TypeOK'
  OBVIOUS
<1> USE CheckIsProc, HandlersAreProcs DEF TypeOK
<1>1. CASE CheckLoop
  <2>1. todo' \in [Procs -> Seq(Stages)]
    <3>1. <<"done">> \in Seq(Stages) /\ <<"choose">> \in Seq(Stages)
            /\ <<"watch">> \in Seq(Stages)
      BY DEF Stages
    <3> QED
      BY <1>1, <3>1, TodoStep DEF CheckLoop
  <2> QED
    BY <1>1, <2>1 DEF CheckLoop
<1>2. CASE Choose
  <2>1. todo' \in [Procs -> Seq(Stages)]
    BY <1>2, StageLists, TodoStep DEF Choose
  <2>2. CASE Live = {}
    <3>1. UNCHANGED <<stat, serverConn, readers, failed, stale, serverAddrList, lock,
                      sock, commands, deaths>>
      BY <1>2, <2>2 DEF Choose
    <3> QED
      BY <2>1, <3>1
  <2>3. CASE Live # {}
    <3>1. PICK c \in Live :
            /\ stat' = "CONNECTED"
            /\ serverConn' = [s \in Servers |-> IF s = c THEN "ESTABLISHED" ELSE "none"]
            /\ readers' = [s \in Servers |-> IF s = c THEN readers[s] + 1 ELSE 0]
            /\ stale' = [s \in Servers |->
                  IF s = c THEN stale[s]
                  ELSE stale[s] + readers[s] + (IF s \in Live THEN 1 ELSE 0)]
      BY <1>2, <2>3 DEF Choose
    <3>2. stat' \in ClientStats /\ serverConn' \in [Servers -> ConnStats \union {"none"}]
      BY <3>1 DEF ClientStats, ConnStats
    <3>3. readers' \in [Servers -> Nat] /\ stale' \in [Servers -> Nat]
      BY <3>1
    <3>4. failed' \subseteq Servers
      BY <1>2, <2>3 DEF Choose
    <3>5. UNCHANGED <<serverAddrList, lock, sock, commands, deaths>>
      BY <1>2 DEF Choose
    <3> QED
      BY <2>1, <3>2, <3>3, <3>4, <3>5
  <2> QED
    BY <2>2, <2>3
<1>3. CASE Watch
  <2>1. todo' \in [Procs -> Seq(Stages)]
    <3>1. <<>> \in Seq(Stages)
      OBVIOUS
    <3> QED
      BY <1>3, <3>1, StageLists, TodoStep DEF Watch
  <2>2. CASE UNCHANGED <<serverConn, readers, failed, stale>>
    BY <1>3, <2>1, <2>2 DEF Watch
  <2>3. ASSUME NEW s \in Servers, Drop({s}) PROVE TypeOK'
    BY <1>3, <2>1, <2>3 DEF Watch, Drop, ConnStats
  <2> QED
    BY <1>3, <2>2, <2>3 DEF Watch
<1>4. ASSUME NEW p \in Procs, Restart(p) PROVE TypeOK'
  <2>1. todo' \in [Procs -> Seq(Stages)]
    BY <1>4, TodoStep DEF Restart, At
  <2> QED
    BY <1>4, <2>1 DEF Restart, Drop, ClientStats
<1>5. ASSUME NEW p \in Procs, Start(p) PROVE TypeOK'
  <2>1. todo' \in [Procs -> Seq(Stages)]
    BY <1>5, StageLists, TodoStep DEF Start, At
  <2> QED
    BY <1>5, <2>1 DEF Start, Connected, ConnStats
<1>6. ASSUME NEW p \in Procs, Started(p) PROVE TypeOK'
  <2>1. todo' \in [Procs -> Seq(Stages)]
    BY <1>6, TodoStep DEF Started, At
  <2> QED
    BY <1>6, <2>1 DEF Started, ClientStats
<1>7. ASSUME NEW p \in Procs, Fetch(p) PROVE TypeOK'
  <2>1. todo' \in [Procs -> Seq(Stages)]
    BY <1>7, TodoStep DEF Fetch, At
  <2> QED
    BY <1>7, <2>1 DEF Fetch
<1>8. ASSUME NEW p \in Procs, Look(p) PROVE TypeOK'
  <2>1. todo' \in [Procs -> Seq(Stages)]
    BY <1>8, TodoStep DEF Look, At
  <2> QED
    BY <1>8, <2>1 DEF Look
<1>9. ASSUME NEW p \in Procs, Join(p) PROVE TypeOK'
  <2>1. todo' \in [Procs -> Seq(Stages)]
    BY <1>9, TodoStep DEF Join, At
  <2> QED
    BY <1>9, <2>1 DEF Join, Connected, ConnStats, ClientStats
<1>10. ASSUME NEW p \in Procs, Shutdown(p) PROVE TypeOK'
  <2>1. todo' \in [Procs -> Seq(Stages)]
    BY <1>10, TodoStep DEF Shutdown, At
  <2> QED
    BY <1>10, <2>1 DEF Shutdown, ConnStats
<1>11. ASSUME NEW h \in Handlers, Command(h) PROVE TypeOK'
  <2>1. todo' \in [Procs -> Seq(Stages)]
    <3>1. <<"shutdown">> \in Seq(Stages)
      BY DEF Stages
    <3> QED
      BY <1>11, <3>1, StageLists, TodoStep DEF Command, Ready, RestartClientConnection, SetClientTracker,
       UpdateClientServerAddr, DeleteClient
  <2> QED
    BY <1>11, <2>1, BoundAssumption DEF Command, Ready, RestartClientConnection, SetClientTracker,
       UpdateClientServerAddr, DeleteClient, ClientStats
<1>12. ASSUME NEW s \in Servers, AcceptRequest(s) PROVE TypeOK'
  BY <1>12 DEF AcceptRequest, Connected, ConnStats
<1>13. ASSUME NEW s \in Servers, Establish(s) PROVE TypeOK'
  BY <1>13 DEF Establish, ConnStats
<1>14. ASSUME NEW s \in Servers, Die(s) PROVE TypeOK'
  BY <1>14, BoundAssumption DEF Die, ConnStats
<1>15. ASSUME NEW s \in Servers, ReaderTakes(s) PROVE TypeOK'
  BY <1>15 DEF ReaderTakes
<1>16. ASSUME NEW s \in Servers, StaleReaderTakes(s) PROVE TypeOK'
  BY <1>16 DEF StaleReaderTakes
<1>17. ASSUME NEW s \in Servers, ReaderFails(s) PROVE TypeOK'
  BY <1>17 DEF ReaderFails
<1>18. CASE UNCHANGED vars
  BY <1>18 DEF vars
<1> QED
  BY <1>1, <1>2, <1>3, <1>4, <1>5, <1>6, <1>7, <1>8, <1>9, <1>10, <1>11, <1>12,
     <1>13, <1>14, <1>15, <1>16, <1>17, <1>18 DEF Next, Procedures

-----------------------------------------------------------------------------
(* Steps that leave the table, its readers and the status as they are.      *)
LEMMA Untouched ==
    ASSUME IInv, UNCHANGED <<stat, serverConn, readers, failed>>
    PROVE  (OneServerWhenConnected /\ ChosenHasReader /\ NoCandidate)'
BY DEF IInv, OneServerWhenConnected, ChosenHasReader, NoCandidate, InTable, Live

(* Steps after which the client is not CONNECTED.                           *)
LEMMA NotConnected ==
    ASSUME stat' # "CONNECTED"
    PROVE  (OneServerWhenConnected /\ ChosenHasReader /\ NoCandidate)'
BY DEF OneServerWhenConnected, ChosenHasReader, NoCandidate

LEMMA SafeNext ==
    IInv /\ [Next]_vars => (OneServerWhenConnected /\ ChosenHasReader /\ NoCandidate)'
<1> SUFFICES ASSUME IInv, [Next]_vars
             PROVE  (OneServerWhenConnected /\ ChosenHasReader /\ NoCandidate)'
  OBVIOUS
<1> USE DEF IInv, TypeOK
<1> DEFINE Safe == OneServerWhenConnected /\ ChosenHasReader /\ NoCandidate
<1>1. CASE CheckLoop
  BY <1>1, Untouched DEF CheckLoop
<1>2. CASE Choose
  <2>1. CASE Live = {}
    BY <1>2, <2>1, Untouched DEF Choose
  <2>2. CASE Live # {}
    <3>1. PICK c \in Live :
            /\ serverConn' = [s \in Servers |-> IF s = c THEN "ESTABLISHED" ELSE "none"]
            /\ readers' = [s \in Servers |-> IF s = c THEN readers[s] + 1 ELSE 0]
      BY <1>2, <2>2 DEF Choose
    <3>2. readers'[c] > 0
      BY <3>1 DEF Live
    <3> QED
      BY <3>1, <3>2 DEF OneServerWhenConnected, ChosenHasReader, NoCandidate,
         InTable, Live
  <2> QED
    BY <2>1, <2>2
<1>3. CASE Watch
  <2>1. CASE UNCHANGED <<serverConn, readers, failed, stale>>
    BY <1>3, <2>1, Untouched DEF Watch
  <2>2. ASSUME NEW s \in Servers, serverConn[s] = "CLOSED", Drop({s}) PROVE Safe'
    BY <1>3, <2>2 DEF Watch, Drop, OneServerWhenConnected, ChosenHasReader,
       NoCandidate, InTable, Live
  <2> QED
    BY <1>3, <2>1, <2>2 DEF Watch
<1>4. ASSUME NEW p \in Procs, Restart(p) PROVE Safe'
  BY <1>4, NotConnected DEF Restart
<1>5. ASSUME NEW p \in Procs, Start(p) PROVE Safe'
  <2>1. CASE stat \in {"CONNECTED", "CLOSED"}
    BY <1>5, <2>1, Untouched DEF Start
  <2>2. CASE stat \notin {"CONNECTED", "CLOSED"}
    BY <1>5, <2>2, NotConnected DEF Start
  <2> QED
    BY <2>1, <2>2
<1>6. ASSUME NEW p \in Procs, Started(p) PROVE Safe'
  BY <1>6, NotConnected DEF Started
<1>7. ASSUME NEW p \in Procs, Fetch(p) \/ Look(p) PROVE Safe'
  BY <1>7, Untouched DEF Fetch, Look
<1>8. ASSUME NEW p \in Procs, Join(p) PROVE Safe'
  BY <1>8, NotConnected DEF Join
<1>9. ASSUME NEW p \in Procs, Shutdown(p) PROVE Safe'
  BY <1>9 DEF Shutdown, OneServerWhenConnected, ChosenHasReader, NoCandidate,
     InTable, Live
<1>10. ASSUME NEW h \in Handlers, Command(h) PROVE Safe'
  <2>1. CASE stat' = stat
    BY <1>10, <2>1, Untouched DEF Command, Ready, RestartClientConnection, SetClientTracker,
       UpdateClientServerAddr, DeleteClient
  <2>2. CASE stat' = "CLOSED"
    BY <2>2, NotConnected
  <2> QED
    BY <1>10, <2>1, <2>2 DEF Command, Ready, RestartClientConnection, SetClientTracker,
       UpdateClientServerAddr, DeleteClient
<1>11. ASSUME NEW s \in Servers, AcceptRequest(s) PROVE Safe'
  BY <1>11, NotConnected DEF AcceptRequest
<1>12. ASSUME NEW s \in Servers, Establish(s) PROVE Safe'
  BY <1>12, NotConnected DEF Establish, NoCandidate
<1>13. ASSUME NEW s \in Servers, Die(s) PROVE Safe'
  BY <1>13 DEF Die, OneServerWhenConnected, ChosenHasReader, NoCandidate,
     InTable, Live
<1>14. ASSUME NEW s \in Servers, ReaderTakes(s) PROVE Safe'
  BY <1>14 DEF ReaderTakes, OneServerWhenConnected, ChosenHasReader, NoCandidate,
     InTable, Live
<1>15. ASSUME NEW s \in Servers, StaleReaderTakes(s) PROVE Safe'
  BY <1>15, Untouched DEF StaleReaderTakes
<1>16. ASSUME NEW s \in Servers, ReaderFails(s) PROVE Safe'
  BY <1>16 DEF ReaderFails, OneServerWhenConnected, ChosenHasReader, NoCandidate,
     InTable, Live
<1>17. CASE UNCHANGED vars
  BY <1>17, Untouched DEF vars
<1> QED
  BY <1>1, <1>2, <1>3, <1>4, <1>5, <1>6, <1>7, <1>8, <1>9, <1>10, <1>11, <1>12,
     <1>13, <1>14, <1>15, <1>16, <1>17 DEF Next, Procedures

-----------------------------------------------------------------------------
(* The inductive invariant holds of every reachable state.                  *)
THEOREM Inductive == Spec => []IInv
<1>1. Init => IInv
  BY TypeInit DEF Init, IInv, OneServerWhenConnected, ChosenHasReader, NoCandidate
<1>2. IInv /\ [Next]_vars => IInv'
  BY TypeNext, SafeNext DEF IInv
<1> QED
  BY <1>1, <1>2, PTL DEF Spec

(* The types of the client manager's state (AdvancedRelayClient).           *)
THEOREM TypeCorrect == Spec => []TypeOK
<1>1. IInv => TypeOK
  BY DEF IInv
<1> QED
  BY <1>1, Inductive, PTL

(* A client that settled on a server has no other in its table, whatever    *)
(* handlers, requests and deaths did meanwhile (check_session_proc).        *)
THEOREM SettledOnOne == Spec => []OneServerWhenConnected
<1>1. IInv => OneServerWhenConnected
  BY DEF IInv
<1> QED
  BY <1>1, Inductive, PTL

(* The established connection of a client that settled has a goroutine that *)
(* reads the user's port for it, unless a read error ended one after the    *)
(* client settled on it (check_session_proc, RecvUserClientDataProc).       *)
THEOREM SettledIsRead == Spec => []ChosenHasReader
<1>1. IInv => ChosenHasReader
  BY DEF IInv
<1> QED
  BY <1>1, Inductive, PTL
=============================================================================

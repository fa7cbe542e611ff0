--------------------------- MODULE TrackerLinkProofs ---------------------------
(***************************************************************************)
(* Theorems about TrackerLink for any links, addresses and rivals.         *)
(***************************************************************************)
EXTENDS TrackerLink, TLAPS

(* The tracker keeps one websocket for the id.                              *)
OneOpen == \A k, l \in Links : connection[k] = "open" /\ connection[l] = "open" => k = l

(* connectProc says CONNECTED only between its announcement and the loss of *)
(* the websocket.                                                           *)
ConnectedWhere ==
    \A l \in Links : stat[l] = "CONNECTED" => pc[l] \in {"send", "inner", "read", "lost"}

(* A success is being reported exactly while trackerProc is at it.          *)
Reporting ==
    /\ announced # NoLink <=> trackerPc = "report"
    /\ reportPc["tracker"] # "idle" <=> trackerPc = "report"

(* The link is up, and trackerProc has taken its success.                   *)
Up(l) ==
    /\ stat[l] = "CONNECTED" /\ connection[l] = "open"
    /\ pc[l] \in {"inner", "read"} \/ (pc[l] = "send" /\ message[l] # "SUCCESS")

(* this.tracker names a link whose connectProc runs or has run.             *)
Started == tracker # NoLink => pc[tracker] # "new"

(* A link that this.tracker is still to name is another one, and its        *)
(* success, once reported, is missed.                                       *)
Pending ==
    \A p \in Links :
        closerPc["config"] = "assign" /\ closing["config"] = p =>
            /\ pc[p] # "new" /\ tracker # p
            /\ Up(p) /\ announced # p => p \in missed

(* OnlineHasAddress, while a message of the tracker is handed on and while  *)
(* a report is under way, too.                                              *)
Told ==
    \A l \in Links :
        l = tracker /\ Up(l) /\ announced # l /\ l \notin missed /\ ~overtaken =>
            record = publicAddr \/ reportPc["recv"] # "idle"

IInv == TypeOK /\ OneOpen /\ ConnectedWhere /\ Reporting /\ Started /\ Pending /\ Told

-----------------------------------------------------------------------------
LEMMA TypeInit == Init => TypeOK
<1> SUFFICES ASSUME Init PROVE TypeOK
  OBVIOUS
<1> USE DEF Init
<1>1. /\ stat \in [Links -> {"INIT", "CONNECTING", "CONNECTED", "ERROR", "CLOSED"}]
      /\ connection \in [Links -> {"nil", "open", "lost", "closed"}]
      /\ pc \in [Links -> Labels]
      /\ message \in [Links -> {"none", "SUCCESS", "CONNECT"}]
  BY DEF Labels
<1>2. /\ reportPc \in [Reporters -> {"idle", "read", "send"}]
      /\ addrList \in [Reporters -> Addrs \union {NoAddr}]
      /\ \A r \in Reporters : reportPc[r] # "send"
  OBVIOUS
<1>3. /\ closerPc \in [Closers -> {"idle", "stat", "socket", "after", "assign", "chan", "done"}]
      /\ closing \in [Closers -> Links \union {NoLink}]
      /\ \A c \in Closers : closerPc[c] \notin {"stat", "socket", "assign"}
  OBVIOUS
<1> QED
  BY <1>1, <1>2, <1>3 DEF TypeOK

LEMMA TypeNext == TypeOK /\ Reporting /\ [Next]_vars => TypeOK'
<1> SUFFICES ASSUME TypeOK, Reporting, [Next]_vars PROVE TypeOK'
  OBVIOUS
<1> USE DEF TypeOK, Labels, Reporters, Closers, LinkOnly, At, Goto,
       linkVars, reportVars, closerVars, serverVars, notes
<1>1. ASSUME NEW l \in Links, ConnectProc(l) PROVE TypeOK'
  <2>1. CASE Start(l)
    BY <2>1 DEF Start
  <2>2. CASE Top(l)
    BY <2>2 DEF Top
  <2>3. CASE Dial(l)
    <3>1. connection' \in [Links -> {"nil", "open", "lost", "closed"}]
      BY <2>3 DEF Dial, Forgotten
    <3>2. record' \in Addrs \union {NoAddr, Unreported}
      BY <2>3 DEF Dial, Forgotten
    <3>3. pc' \in [Links -> Labels]
      BY <2>3 DEF Dial, Forgotten
    <3> QED
      BY <2>3, <3>1, <3>2, <3>3 DEF Dial, Forgotten
  <2>4. CASE Dialed(l)
    BY <2>4 DEF Dialed
  <2>5. CASE SetConnected(l)
    BY <2>5 DEF SetConnected
  <2>6. CASE Deliver(l)
    BY <2>6 DEF Deliver
  <2>7. CASE SendPanics(l)
    BY <2>7 DEF SendPanics
  <2>8. CASE Inner(l)
    BY <2>8 DEF Inner
  <2>9. CASE ReadFails(l)
    BY <2>9 DEF ReadFails
  <2>10. CASE Lost(l)
    BY <2>10 DEF Lost
  <2> QED
    BY <1>1, <2>1, <2>2, <2>3, <2>4, <2>5, <2>6, <2>7, <2>8, <2>9, <2>10
       DEF ConnectProc
<1>2. ASSUME NEW l \in Links, ReadMessage(l) PROVE TypeOK'
  BY <1>2 DEF ReadMessage
<1>3. ASSUME NEW l \in Links, Drop(l) PROVE TypeOK'
  BY <1>3 DEF Drop, Forgotten
<1>4. CASE RivalConnects
  BY <1>4 DEF RivalConnects, Forgotten
<1>5. CASE TrackerProc
  BY <1>5 DEF TrackerProc, TrackerTop, TrackerChanClosed, TrackerConnect
<1>6. ASSUME NEW a \in Addrs, NewAddr(a) PROVE TypeOK'
  BY <1>6 DEF NewAddr
<1>7. CASE PeriodicReport
  BY <1>7 DEF PeriodicReport
<1>8. ASSUME NEW r \in Reporters, Report(r) PROVE TypeOK'
  <2>1. CASE ReadAddr(r)
    BY <1>8, <2>1 DEF ReadAddr, Reported, Missed
  <2>2. CASE SendAddrList(r)
    <3>1. missed' \subseteq Links
      <4>1. missed' \subseteq missed \union Missed(r)
        BY <2>2 DEF SendAddrList
      <4>2. CASE r = "tracker"
        <5>1. announced \in Links
          BY <2>2, <4>2 DEF SendAddrList, Reporting
        <5> QED
          BY <4>1, <5>1 DEF Missed
      <4>3. CASE r # "tracker"
        BY <4>1, <4>3 DEF Missed
      <4> QED
        BY <4>2, <4>3
    <3>2. record' \in Addrs \union {NoAddr, Unreported}
      BY <1>8, <2>2 DEF SendAddrList
    <3>3. overtaken' \in BOOLEAN
      <4>1. overtaken' = (addrList[r] # publicAddr) \/ overtaken' = overtaken
        BY <2>2 DEF SendAddrList
      <4> QED
        BY <4>1
    <3> QED
      BY <1>8, <2>2, <3>1, <3>2, <3>3 DEF SendAddrList, Reported
  <2> QED
    BY <1>8, <2>1, <2>2 DEF Report
<1>9. ASSUME NEW c \in Closers, CloserBegin(c) PROVE TypeOK'
  BY <1>9 DEF CloserBegin
<1>10. ASSUME NEW c \in Closers, CloseStat(c) PROVE TypeOK'
  BY <1>10 DEF CloseStat, LinkClosed
<1>11. ASSUME NEW c \in Closers, CloseSocket(c) PROVE TypeOK'
  BY <1>11 DEF CloseSocket, LinkClosed, Forgotten
<1>12. CASE NoNewTracker \/ NewServerTracker \/ AssignTracker
  <2>1. CASE NoNewTracker
    BY <2>1 DEF NoNewTracker
  <2>2. CASE NewServerTracker
    BY <2>2, NoLinkAssumption DEF NewServerTracker
  <2>3. CASE AssignTracker
    BY <2>3 DEF AssignTracker
  <2> QED
    BY <1>12, <2>1, <2>2, <2>3
<1>13. CASE CloseConn \/ CloseChan
  <2>1. CASE CloseConn
    BY <2>1 DEF CloseConn
  <2>2. CASE CloseChan
    BY <2>2 DEF CloseChan
  <2> QED
    BY <1>13, <2>1, <2>2
<1>14. CASE UNCHANGED vars
  BY <1>14 DEF vars
<1> QED
  BY <1>1, <1>2, <1>3, <1>4, <1>5, <1>6, <1>7, <1>8, <1>9, <1>10, <1>11, <1>12, <1>13,
     <1>14 DEF Next, SetTrackerConfig, Close

-----------------------------------------------------------------------------
LEMMA OneOpenNext == TypeOK /\ OneOpen /\ [Next]_vars => OneOpen'
<1> SUFFICES ASSUME TypeOK, OneOpen, [Next]_vars PROVE OneOpen'
  OBVIOUS
<1> USE DEF TypeOK, Reporters, Closers, LinkOnly, At, Goto,
       linkVars, reportVars, closerVars, serverVars, notes, OneOpen
<1>1. ASSUME NEW l \in Links, ConnectProc(l) PROVE OneOpen'
  <2>1. CASE Start(l)
    BY <2>1 DEF Start
  <2>2. CASE Top(l)
    BY <2>2 DEF Top
  <2>3. CASE Dial(l)
    BY <2>3 DEF Dial, Forgotten
  <2>4. CASE Dialed(l)
    BY <2>4 DEF Dialed
  <2>5. CASE SetConnected(l)
    BY <2>5 DEF SetConnected
  <2>6. CASE Deliver(l)
    BY <2>6 DEF Deliver
  <2>7. CASE SendPanics(l)
    BY <2>7 DEF SendPanics
  <2>8. CASE Inner(l)
    BY <2>8 DEF Inner
  <2>9. CASE ReadFails(l)
    BY <2>9 DEF ReadFails
  <2>10. CASE Lost(l)
    BY <2>10 DEF Lost
  <2> QED
    BY <1>1, <2>1, <2>2, <2>3, <2>4, <2>5, <2>6, <2>7, <2>8, <2>9, <2>10
       DEF ConnectProc
<1>2. ASSUME NEW l \in Links, ReadMessage(l) PROVE OneOpen'
  BY <1>2 DEF ReadMessage
<1>3. ASSUME NEW l \in Links, Drop(l) PROVE OneOpen'
  BY <1>3 DEF Drop, Forgotten
<1>4. CASE RivalConnects
  BY <1>4 DEF RivalConnects, Forgotten
<1>5. CASE TrackerProc
  BY <1>5 DEF TrackerProc, TrackerTop, TrackerChanClosed, TrackerConnect
<1>6. ASSUME NEW a \in Addrs, NewAddr(a) PROVE OneOpen'
  BY <1>6 DEF NewAddr
<1>7. CASE PeriodicReport
  BY <1>7 DEF PeriodicReport
<1>8. ASSUME NEW r \in Reporters, Report(r) PROVE OneOpen'
  <2>1. CASE ReadAddr(r)
    BY <1>8, <2>1 DEF ReadAddr, Reported, Missed
  <2>2. CASE SendAddrList(r)
    BY <1>8, <2>2 DEF SendAddrList, Reported, Missed
  <2> QED
    BY <1>8, <2>1, <2>2 DEF Report
<1>9. ASSUME NEW c \in Closers, CloserBegin(c) PROVE OneOpen'
  BY <1>9 DEF CloserBegin
<1>10. ASSUME NEW c \in Closers, CloseStat(c) PROVE OneOpen'
  BY <1>10 DEF CloseStat, LinkClosed
<1>11. ASSUME NEW c \in Closers, CloseSocket(c) PROVE OneOpen'
  BY <1>11 DEF CloseSocket, Forgotten, LinkClosed
<1>12. CASE NoNewTracker
  BY <1>12 DEF NoNewTracker
<1>13. CASE NewServerTracker
  BY <1>13 DEF NewServerTracker
<1>14. CASE AssignTracker
  BY <1>14 DEF AssignTracker
<1>15. CASE CloseConn
  BY <1>15 DEF CloseConn
<1>16. CASE CloseChan
  BY <1>16 DEF CloseChan
<1>17. CASE UNCHANGED vars
  BY <1>17 DEF vars
<1> QED
  BY <1>1, <1>2, <1>3, <1>4, <1>5, <1>6, <1>7, <1>8, <1>9, <1>10, <1>11,
     <1>12, <1>13, <1>14, <1>15, <1>16, <1>17
     DEF Next, SetTrackerConfig, Close

LEMMA ConnectedNext == TypeOK /\ ConnectedWhere /\ [Next]_vars => ConnectedWhere'
<1> SUFFICES ASSUME TypeOK, ConnectedWhere, [Next]_vars PROVE ConnectedWhere'
  OBVIOUS
<1> USE DEF TypeOK, Reporters, Closers, LinkOnly, At, Goto,
       linkVars, reportVars, closerVars, serverVars, notes, ConnectedWhere
<1>1. ASSUME NEW l \in Links, ConnectProc(l) PROVE ConnectedWhere'
  <2>1. CASE Start(l)
    BY <2>1 DEF Start
  <2>2. CASE Top(l)
    BY <2>2 DEF Top
  <2>3. CASE Dial(l)
    BY <2>3 DEF Dial, Forgotten
  <2>4. CASE Dialed(l)
    BY <2>4 DEF Dialed
  <2>5. CASE SetConnected(l)
    BY <2>5 DEF SetConnected
  <2>6. CASE Deliver(l)
    BY <2>6 DEF Deliver
  <2>7. CASE SendPanics(l)
    BY <2>7 DEF SendPanics
  <2>8. CASE Inner(l)
    BY <2>8 DEF Inner
  <2>9. CASE ReadFails(l)
    BY <2>9 DEF ReadFails
  <2>10. CASE Lost(l)
    BY <2>10 DEF Lost
  <2> QED
    BY <1>1, <2>1, <2>2, <2>3, <2>4, <2>5, <2>6, <2>7, <2>8, <2>9, <2>10
       DEF ConnectProc
<1>2. ASSUME NEW l \in Links, ReadMessage(l) PROVE ConnectedWhere'
  BY <1>2 DEF ReadMessage
<1>3. ASSUME NEW l \in Links, Drop(l) PROVE ConnectedWhere'
  BY <1>3 DEF Drop, Forgotten
<1>4. CASE RivalConnects
  BY <1>4 DEF RivalConnects, Forgotten
<1>5. CASE TrackerProc
  BY <1>5 DEF TrackerProc, TrackerTop, TrackerChanClosed, TrackerConnect
<1>6. ASSUME NEW a \in Addrs, NewAddr(a) PROVE ConnectedWhere'
  BY <1>6 DEF NewAddr
<1>7. CASE PeriodicReport
  BY <1>7 DEF PeriodicReport
<1>8. ASSUME NEW r \in Reporters, Report(r) PROVE ConnectedWhere'
  <2>1. CASE ReadAddr(r)
    BY <1>8, <2>1 DEF ReadAddr, Reported, Missed
  <2>2. CASE SendAddrList(r)
    BY <1>8, <2>2 DEF SendAddrList, Reported, Missed
  <2> QED
    BY <1>8, <2>1, <2>2 DEF Report
<1>9. ASSUME NEW c \in Closers, CloserBegin(c) PROVE ConnectedWhere'
  BY <1>9 DEF CloserBegin
<1>10. ASSUME NEW c \in Closers, CloseStat(c) PROVE ConnectedWhere'
  BY <1>10 DEF CloseStat, LinkClosed
<1>11. ASSUME NEW c \in Closers, CloseSocket(c) PROVE ConnectedWhere'
  BY <1>11 DEF CloseSocket, Forgotten, LinkClosed
<1>12. CASE NoNewTracker
  BY <1>12 DEF NoNewTracker
<1>13. CASE NewServerTracker
  BY <1>13 DEF NewServerTracker
<1>14. CASE AssignTracker
  BY <1>14 DEF AssignTracker
<1>15. CASE CloseConn
  BY <1>15 DEF CloseConn
<1>16. CASE CloseChan
  BY <1>16 DEF CloseChan
<1>17. CASE UNCHANGED vars
  BY <1>17 DEF vars
<1> QED
  BY <1>1, <1>2, <1>3, <1>4, <1>5, <1>6, <1>7, <1>8, <1>9, <1>10, <1>11,
     <1>12, <1>13, <1>14, <1>15, <1>16, <1>17
     DEF Next, SetTrackerConfig, Close

LEMMA ReportingNext == TypeOK /\ Reporting /\ [Next]_vars => Reporting'
<1> SUFFICES ASSUME TypeOK, Reporting, [Next]_vars PROVE Reporting'
  OBVIOUS
<1> USE DEF TypeOK, Reporters, Closers, LinkOnly, At, Goto,
       linkVars, reportVars, closerVars, serverVars, notes, Reporting
<1>1. ASSUME NEW l \in Links, ConnectProc(l) PROVE Reporting'
  <2>1. CASE Start(l)
    BY <2>1, NoLinkAssumption DEF Start
  <2>2. CASE Top(l)
    BY <2>2, NoLinkAssumption DEF Top
  <2>3. CASE Dial(l)
    BY <2>3, NoLinkAssumption DEF Dial, Forgotten
  <2>4. CASE Dialed(l)
    BY <2>4, NoLinkAssumption DEF Dialed
  <2>5. CASE SetConnected(l)
    BY <2>5, NoLinkAssumption DEF SetConnected
  <2>6. CASE Deliver(l)
    BY <2>6, NoLinkAssumption DEF Deliver
  <2>7. CASE SendPanics(l)
    BY <2>7, NoLinkAssumption DEF SendPanics
  <2>8. CASE Inner(l)
    BY <2>8, NoLinkAssumption DEF Inner
  <2>9. CASE ReadFails(l)
    BY <2>9, NoLinkAssumption DEF ReadFails
  <2>10. CASE Lost(l)
    BY <2>10, NoLinkAssumption DEF Lost
  <2> QED
    BY <1>1, <2>1, <2>2, <2>3, <2>4, <2>5, <2>6, <2>7, <2>8, <2>9, <2>10
       DEF ConnectProc
<1>2. ASSUME NEW l \in Links, ReadMessage(l) PROVE Reporting'
  BY <1>2, NoLinkAssumption DEF ReadMessage
<1>3. ASSUME NEW l \in Links, Drop(l) PROVE Reporting'
  BY <1>3, NoLinkAssumption DEF Drop, Forgotten
<1>4. CASE RivalConnects
  BY <1>4, NoLinkAssumption DEF RivalConnects, Forgotten
<1>5. CASE TrackerProc
  BY <1>5, NoLinkAssumption DEF TrackerProc, TrackerTop, TrackerChanClosed, TrackerConnect
<1>6. ASSUME NEW a \in Addrs, NewAddr(a) PROVE Reporting'
  BY <1>6, NoLinkAssumption DEF NewAddr
<1>7. CASE PeriodicReport
  BY <1>7, NoLinkAssumption DEF PeriodicReport
<1>8. ASSUME NEW r \in Reporters, Report(r) PROVE Reporting'
  <2>1. CASE ReadAddr(r)
    BY <1>8, <2>1, NoLinkAssumption DEF ReadAddr, Reported, Missed
  <2>2. CASE SendAddrList(r)
    BY <1>8, <2>2, NoLinkAssumption DEF SendAddrList, Reported, Missed
  <2> QED
    BY <1>8, <2>1, <2>2 DEF Report
<1>9. ASSUME NEW c \in Closers, CloserBegin(c) PROVE Reporting'
  BY <1>9, NoLinkAssumption DEF CloserBegin
<1>10. ASSUME NEW c \in Closers, CloseStat(c) PROVE Reporting'
  BY <1>10, NoLinkAssumption DEF CloseStat, LinkClosed
<1>11. ASSUME NEW c \in Closers, CloseSocket(c) PROVE Reporting'
  BY <1>11, NoLinkAssumption DEF CloseSocket, Forgotten, LinkClosed
<1>12. CASE NoNewTracker
  BY <1>12, NoLinkAssumption DEF NoNewTracker
<1>13. CASE NewServerTracker
  BY <1>13, NoLinkAssumption DEF NewServerTracker
<1>14. CASE AssignTracker
  BY <1>14, NoLinkAssumption DEF AssignTracker
<1>15. CASE CloseConn
  BY <1>15, NoLinkAssumption DEF CloseConn
<1>16. CASE CloseChan
  BY <1>16, NoLinkAssumption DEF CloseChan
<1>17. CASE UNCHANGED vars
  BY <1>17, NoLinkAssumption DEF vars
<1> QED
  BY <1>1, <1>2, <1>3, <1>4, <1>5, <1>6, <1>7, <1>8, <1>9, <1>10, <1>11,
     <1>12, <1>13, <1>14, <1>15, <1>16, <1>17
     DEF Next, SetTrackerConfig, Close

LEMMA StartedNext == TypeOK /\ Started /\ Pending /\ [Next]_vars => Started'
<1> SUFFICES ASSUME TypeOK, Started, Pending, [Next]_vars PROVE Started'
  OBVIOUS
<1> USE DEF TypeOK, Reporters, Closers, LinkOnly, At, Goto,
       linkVars, reportVars, closerVars, serverVars, notes, Started, Pending
<1>1. ASSUME NEW l \in Links, ConnectProc(l) PROVE Started'
  <2>1. CASE Start(l)
    BY <2>1, NoLinkAssumption DEF Start
  <2>2. CASE Top(l)
    BY <2>2, NoLinkAssumption DEF Top
  <2>3. CASE Dial(l)
    BY <2>3, NoLinkAssumption DEF Dial, Forgotten
  <2>4. CASE Dialed(l)
    BY <2>4, NoLinkAssumption DEF Dialed
  <2>5. CASE SetConnected(l)
    BY <2>5, NoLinkAssumption DEF SetConnected
  <2>6. CASE Deliver(l)
    BY <2>6, NoLinkAssumption DEF Deliver
  <2>7. CASE SendPanics(l)
    BY <2>7, NoLinkAssumption DEF SendPanics
  <2>8. CASE Inner(l)
    BY <2>8, NoLinkAssumption DEF Inner
  <2>9. CASE ReadFails(l)
    BY <2>9, NoLinkAssumption DEF ReadFails
  <2>10. CASE Lost(l)
    BY <2>10, NoLinkAssumption DEF Lost
  <2> QED
    BY <1>1, <2>1, <2>2, <2>3, <2>4, <2>5, <2>6, <2>7, <2>8, <2>9, <2>10
       DEF ConnectProc
<1>2. ASSUME NEW l \in Links, ReadMessage(l) PROVE Started'
  BY <1>2, NoLinkAssumption DEF ReadMessage
<1>3. ASSUME NEW l \in Links, Drop(l) PROVE Started'
  BY <1>3, NoLinkAssumption DEF Drop, Forgotten
<1>4. CASE RivalConnects
  BY <1>4, NoLinkAssumption DEF RivalConnects, Forgotten
<1>5. CASE TrackerProc
  BY <1>5, NoLinkAssumption DEF TrackerProc, TrackerTop, TrackerChanClosed, TrackerConnect
<1>6. ASSUME NEW a \in Addrs, NewAddr(a) PROVE Started'
  BY <1>6, NoLinkAssumption DEF NewAddr
<1>7. CASE PeriodicReport
  BY <1>7, NoLinkAssumption DEF PeriodicReport
<1>8. ASSUME NEW r \in Reporters, Report(r) PROVE Started'
  <2>1. CASE ReadAddr(r)
    BY <1>8, <2>1, NoLinkAssumption DEF ReadAddr, Reported, Missed
  <2>2. CASE SendAddrList(r)
    BY <1>8, <2>2, NoLinkAssumption DEF SendAddrList, Reported, Missed
  <2> QED
    BY <1>8, <2>1, <2>2 DEF Report
<1>9. ASSUME NEW c \in Closers, CloserBegin(c) PROVE Started'
  BY <1>9, NoLinkAssumption DEF CloserBegin
<1>10. ASSUME NEW c \in Closers, CloseStat(c) PROVE Started'
  BY <1>10, NoLinkAssumption DEF CloseStat, LinkClosed
<1>11. ASSUME NEW c \in Closers, CloseSocket(c) PROVE Started'
  BY <1>11, NoLinkAssumption DEF CloseSocket, Forgotten, LinkClosed
<1>12. CASE NoNewTracker
  BY <1>12, NoLinkAssumption DEF NoNewTracker
<1>13. CASE NewServerTracker
  BY <1>13, NoLinkAssumption DEF NewServerTracker
<1>14. CASE AssignTracker
  BY <1>14, NoLinkAssumption DEF AssignTracker
<1>15. CASE CloseConn
  BY <1>15, NoLinkAssumption DEF CloseConn
<1>16. CASE CloseChan
  BY <1>16, NoLinkAssumption DEF CloseChan
<1>17. CASE UNCHANGED vars
  BY <1>17, NoLinkAssumption DEF vars
<1> QED
  BY <1>1, <1>2, <1>3, <1>4, <1>5, <1>6, <1>7, <1>8, <1>9, <1>10, <1>11,
     <1>12, <1>13, <1>14, <1>15, <1>16, <1>17
     DEF Next, SetTrackerConfig, Close

LEMMA PendingNext == TypeOK /\ OneOpen /\ ConnectedWhere /\ Reporting /\ Started /\ Pending /\ [Next]_vars => Pending'
<1> SUFFICES ASSUME TypeOK, OneOpen, ConnectedWhere, Reporting, Started, Pending, [Next]_vars PROVE Pending'
  OBVIOUS
<1> USE DEF TypeOK, Reporters, Closers, LinkOnly, At, Goto,
       linkVars, reportVars, closerVars, serverVars, notes,
       OneOpen, ConnectedWhere, Reporting, Started, Pending, Up
<1>1. ASSUME NEW l \in Links, ConnectProc(l) PROVE Pending'
  <2>1. CASE Start(l)
    BY <2>1, NoLinkAssumption DEF Start
  <2>2. CASE Top(l)
    BY <2>2, NoLinkAssumption DEF Top
  <2>3. CASE Dial(l)
    BY <2>3, NoLinkAssumption DEF Dial, Forgotten
  <2>4. CASE Dialed(l)
    BY <2>4, NoLinkAssumption DEF Dialed
  <2>5. CASE SetConnected(l)
    BY <2>5, NoLinkAssumption DEF SetConnected
  <2>6. CASE Deliver(l)
    BY <2>6, NoLinkAssumption DEF Deliver
  <2>7. CASE SendPanics(l)
    BY <2>7, NoLinkAssumption DEF SendPanics
  <2>8. CASE Inner(l)
    BY <2>8, NoLinkAssumption DEF Inner
  <2>9. CASE ReadFails(l)
    BY <2>9, NoLinkAssumption DEF ReadFails
  <2>10. CASE Lost(l)
    BY <2>10, NoLinkAssumption DEF Lost
  <2> QED
    BY <1>1, <2>1, <2>2, <2>3, <2>4, <2>5, <2>6, <2>7, <2>8, <2>9, <2>10
       DEF ConnectProc
<1>2. ASSUME NEW l \in Links, ReadMessage(l) PROVE Pending'
  BY <1>2, NoLinkAssumption DEF ReadMessage
<1>3. ASSUME NEW l \in Links, Drop(l) PROVE Pending'
  BY <1>3, NoLinkAssumption DEF Drop, Forgotten
<1>4. CASE RivalConnects
  BY <1>4, NoLinkAssumption DEF RivalConnects, Forgotten
<1>5. CASE TrackerProc
  BY <1>5, NoLinkAssumption DEF TrackerProc, TrackerTop, TrackerChanClosed, TrackerConnect
<1>6. ASSUME NEW a \in Addrs, NewAddr(a) PROVE Pending'
  BY <1>6, NoLinkAssumption DEF NewAddr
<1>7. CASE PeriodicReport
  BY <1>7, NoLinkAssumption DEF PeriodicReport
<1>8. ASSUME NEW r \in Reporters, Report(r) PROVE Pending'
  <2>1. CASE ReadAddr(r)
    BY <1>8, <2>1, NoLinkAssumption DEF ReadAddr, Reported, Missed
  <2>2. CASE SendAddrList(r)
    BY <1>8, <2>2, NoLinkAssumption DEF SendAddrList, Reported, Missed
  <2> QED
    BY <1>8, <2>1, <2>2 DEF Report
<1>9. ASSUME NEW c \in Closers, CloserBegin(c) PROVE Pending'
  BY <1>9, NoLinkAssumption DEF CloserBegin
<1>10. ASSUME NEW c \in Closers, CloseStat(c) PROVE Pending'
  BY <1>10, NoLinkAssumption DEF CloseStat, LinkClosed
<1>11. ASSUME NEW c \in Closers, CloseSocket(c) PROVE Pending'
  BY <1>11, NoLinkAssumption DEF CloseSocket, Forgotten, LinkClosed
<1>12. CASE NoNewTracker
  BY <1>12, NoLinkAssumption DEF NoNewTracker
<1>13. CASE NewServerTracker
  BY <1>13, NoLinkAssumption DEF NewServerTracker
<1>14. CASE AssignTracker
  BY <1>14, NoLinkAssumption DEF AssignTracker
<1>15. CASE CloseConn
  BY <1>15, NoLinkAssumption DEF CloseConn
<1>16. CASE CloseChan
  BY <1>16, NoLinkAssumption DEF CloseChan
<1>17. CASE UNCHANGED vars
  BY <1>17, NoLinkAssumption DEF vars
<1> QED
  BY <1>1, <1>2, <1>3, <1>4, <1>5, <1>6, <1>7, <1>8, <1>9, <1>10, <1>11,
     <1>12, <1>13, <1>14, <1>15, <1>16, <1>17
     DEF Next, SetTrackerConfig, Close

LEMMA ToldNext == TypeOK /\ OneOpen /\ ConnectedWhere /\ Reporting /\ Pending /\ Told /\ [Next]_vars => Told'
<1> SUFFICES ASSUME TypeOK, OneOpen, ConnectedWhere, Reporting, Pending, Told, [Next]_vars PROVE Told'
  OBVIOUS
<1> USE DEF TypeOK, Reporters, Closers, LinkOnly, At, Goto,
       linkVars, reportVars, closerVars, serverVars, notes,
       OneOpen, ConnectedWhere, Reporting, Pending, Told, Up
<1>1. ASSUME NEW l \in Links, ConnectProc(l) PROVE Told'
  <2>1. CASE Start(l)
    BY <2>1, NoLinkAssumption DEF Start
  <2>2. CASE Top(l)
    BY <2>2, NoLinkAssumption DEF Top
  <2>3. CASE Dial(l)
    BY <2>3, NoLinkAssumption DEF Dial, Forgotten
  <2>4. CASE Dialed(l)
    BY <2>4, NoLinkAssumption DEF Dialed
  <2>5. CASE SetConnected(l)
    BY <2>5, NoLinkAssumption DEF SetConnected
  <2>6. CASE Deliver(l)
    BY <2>6, NoLinkAssumption DEF Deliver
  <2>7. CASE SendPanics(l)
    BY <2>7, NoLinkAssumption DEF SendPanics
  <2>8. CASE Inner(l)
    BY <2>8, NoLinkAssumption DEF Inner
  <2>9. CASE ReadFails(l)
    BY <2>9, NoLinkAssumption DEF ReadFails
  <2>10. CASE Lost(l)
    BY <2>10, NoLinkAssumption DEF Lost
  <2> QED
    BY <1>1, <2>1, <2>2, <2>3, <2>4, <2>5, <2>6, <2>7, <2>8, <2>9, <2>10
       DEF ConnectProc
<1>2. ASSUME NEW l \in Links, ReadMessage(l) PROVE Told'
  BY <1>2, NoLinkAssumption DEF ReadMessage
<1>3. ASSUME NEW l \in Links, Drop(l) PROVE Told'
  BY <1>3, NoLinkAssumption DEF Drop, Forgotten
<1>4. CASE RivalConnects
  BY <1>4, NoLinkAssumption DEF RivalConnects, Forgotten
<1>5. CASE TrackerProc
  BY <1>5, NoLinkAssumption DEF TrackerProc, TrackerTop, TrackerChanClosed, TrackerConnect
<1>6. ASSUME NEW a \in Addrs, NewAddr(a) PROVE Told'
  BY <1>6, NoLinkAssumption DEF NewAddr
<1>7. CASE PeriodicReport
  BY <1>7, NoLinkAssumption DEF PeriodicReport
<1>8. ASSUME NEW r \in Reporters, Report(r) PROVE Told'
  <2>1. CASE ReadAddr(r)
    BY <1>8, <2>1, NoLinkAssumption DEF ReadAddr, Reported, Missed
  <2>2. CASE SendAddrList(r)
    <3>1. CASE stat[tracker] = "CONNECTED" /\ connection[tracker] = "open"
      <4>1. ~overtaken' => record' = publicAddr'
        BY <1>8, <2>2, <3>1 DEF SendAddrList
      <4> QED
        BY <4>1
    <3>2. CASE ~(stat[tracker] = "CONNECTED" /\ connection[tracker] = "open")
      <4>1. UNCHANGED <<stat, connection, tracker>>
        BY <2>2 DEF SendAddrList
      <4> QED
        BY <3>2, <4>1
    <3> QED
      BY <3>1, <3>2
  <2> QED
    BY <1>8, <2>1, <2>2 DEF Report
<1>9. ASSUME NEW c \in Closers, CloserBegin(c) PROVE Told'
  BY <1>9, NoLinkAssumption DEF CloserBegin
<1>10. ASSUME NEW c \in Closers, CloseStat(c) PROVE Told'
  BY <1>10, NoLinkAssumption DEF CloseStat, LinkClosed
<1>11. ASSUME NEW c \in Closers, CloseSocket(c) PROVE Told'
  BY <1>11, NoLinkAssumption DEF CloseSocket, Forgotten, LinkClosed
<1>12. CASE NoNewTracker
  BY <1>12, NoLinkAssumption DEF NoNewTracker
<1>13. CASE NewServerTracker
  BY <1>13, NoLinkAssumption DEF NewServerTracker
<1>14. CASE AssignTracker
  BY <1>14, NoLinkAssumption DEF AssignTracker
<1>15. CASE CloseConn
  BY <1>15, NoLinkAssumption DEF CloseConn
<1>16. CASE CloseChan
  BY <1>16, NoLinkAssumption DEF CloseChan
<1>17. CASE UNCHANGED vars
  BY <1>17, NoLinkAssumption DEF vars
<1> QED
  BY <1>1, <1>2, <1>3, <1>4, <1>5, <1>6, <1>7, <1>8, <1>9, <1>10, <1>11,
     <1>12, <1>13, <1>14, <1>15, <1>16, <1>17
     DEF Next, SetTrackerConfig, Close

-----------------------------------------------------------------------------
(* The inductive invariant holds of every reachable state.                  *)
THEOREM Inductive == Spec => []IInv
<1>1. Init => IInv
  <2> SUFFICES ASSUME Init PROVE IInv
    OBVIOUS
  <2>1. TypeOK
    BY TypeInit
  <2>2. OneOpen /\ ConnectedWhere /\ Started
    BY DEF Init, OneOpen, ConnectedWhere, Started
  <2>3. Reporting
    BY DEF Init, Reporting, Reporters
  <2>4. Pending
    BY DEF Init, Pending, Closers
  <2>5. Told
    BY NoLinkAssumption DEF Init, Told
  <2> QED
    BY <2>1, <2>2, <2>3, <2>4, <2>5 DEF IInv
<1>2. IInv /\ [Next]_vars => IInv'
  BY TypeNext, OneOpenNext, ConnectedNext, ReportingNext, StartedNext, PendingNext, ToldNext
     DEF IInv
<1> QED
  BY <1>1, <1>2, PTL DEF Spec

(* The types of the link's state, and no call on a nil tracker              *)
(* (AdvancedRelayServer, ServerTracker).                                    *)
THEOREM TypeCorrect == Spec => []TypeOK
<1>1. IInv => TypeOK
  BY DEF IInv
<1> QED
  BY <1>1, Inductive, PTL

(* A tracker that counts the server online has its newest address, however  *)
(* many links were made, at whatever point SetTrackerConfig assigns the one *)
(* it started, and whoever took the id meanwhile; but for a success that    *)
(* came before its link had its name, and an older address that came last   *)
(* (connectProc, trackerProc, SendAddrList, SetTrackerConfig).              *)
THEOREM OnlineIsReported == Spec => []OnlineHasAddress
<1>1. IInv => OnlineHasAddress
  <2> SUFFICES ASSUME IInv,
                      NEW l \in Links, Online(l), pc[l] \in {"inner", "read"}, Quiet,
                      l \notin missed, ~overtaken
               PROVE  record = publicAddr
    BY DEF OnlineHasAddress
  <2>1. reportPc["tracker"] = "idle" /\ reportPc["recv"] = "idle"
    BY DEF Quiet, Reporters
  <2>2. announced # l
    BY <2>1, NoLinkAssumption DEF IInv, Reporting
  <2> QED
    BY <2>1, <2>2 DEF IInv, Told, Up, Online
<1> QED
  BY <1>1, Inductive, PTL
=============================================================================

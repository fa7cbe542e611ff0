------------------------------ MODULE TrackerLink ------------------------------
(***************************************************************************)
(* A server's link to its tracker: ServerTracker.connectProc keeps a       *)
(* websocket up, trackerProc takes its messages from messageChan, three    *)
(* goroutines report the server's public address, SetTrackerConfig         *)
(* replaces the link and Close of the server ends it                       *)
(* (udprelay/tracker.go, udprelay/advanced_relay_server.go).               *)
(*                                                                         *)
(* The tracker is a service of its own: as README.md says of it, it knows  *)
(* one server per id, and a second one that connects throws out the first. *)
(* Every link of this server uses the same id, and so may a rival server.  *)
(***************************************************************************)
EXTENDS Naturals

CONSTANTS
    Links,      \* the ServerTracker objects that may be made
    NoLink,     \* this.tracker is nil
    Addrs,      \* public addresses the STUN server may report
    NoAddr,     \* none yet: the empty string
    Unreported, \* the tracker has no address of this server
    Rivals,     \* another server may come with the same id: a BOOLEAN
    Deletable   \* the server may be closed: a BOOLEAN

ASSUME NoLinkAssumption == NoLink \notin Links
ASSUME AddrsAssumption ==
    NoAddr \notin Addrs /\ Unreported \notin Addrs /\ NoAddr # Unreported
ASSUME BooleansAssumption == Rivals \in BOOLEAN /\ Deletable \in BOOLEAN

Reporters == {"recv", "tracker", "check"}
Closers == {"config", "close"}   \* SetTrackerConfig and Close of the server

VARIABLES
    tracker,      \* this.tracker of the server
    stat,         \* [Links -> TK_STAT_*]
    connection,   \* [Links -> what its websocket is]
    pc,           \* [Links -> label of connectProc]
    message,      \* [Links -> the message that connectProc holds]
    trackerPc,    \* trackerProc
    chanClosed,   \* messageChan is closed
    publicAddr,   \* this.localPublicAddr
    reportPc,     \* [Reporters -> label of SendAddrtoTracker]
    addrList,     \* [Reporters -> the address it read]
    closerPc,     \* [Closers -> label]
    closing,      \* [Closers -> the link it closes, or has made]
    record,       \* the address that the tracker has
    panic,
    \* Notes of what happened, which no action looks at:
    announced,    \* the link whose success trackerProc reports
    missed,       \* links whose success was reported to another one, or to none
    overtaken     \* the tracker last took an address that was out of date by then

linkVars == <<stat, connection, pc, message>>
reportVars == <<reportPc, addrList>>
closerVars == <<closerPc, closing>>
serverVars == <<tracker, trackerPc, chanClosed, publicAddr>>
notes == <<announced, missed, overtaken>>
vars == <<linkVars, reportVars, closerVars, serverVars, record, panic, notes>>

Labels == {"new", "start", "top", "dial", "dialed", "connected", "send", "inner",
           "read", "lost", "done"}

TypeOK ==
    /\ tracker \in Links \union {NoLink}
    /\ stat \in [Links -> {"INIT", "CONNECTING", "CONNECTED", "ERROR", "CLOSED"}]
    /\ connection \in [Links -> {"nil", "open", "lost", "closed"}]
    /\ pc \in [Links -> Labels]
    /\ message \in [Links -> {"none", "SUCCESS", "CONNECT"}]
    /\ trackerPc \in {"top", "wait", "connect", "report", "done"}
    /\ chanClosed \in BOOLEAN
    /\ publicAddr \in Addrs \union {NoAddr}
    /\ reportPc \in [Reporters -> {"idle", "read", "send"}]
    /\ addrList \in [Reporters -> Addrs \union {NoAddr}]
    /\ closerPc \in [Closers -> {"idle", "stat", "socket", "after", "assign", "chan", "done"}]
    /\ closing \in [Closers -> Links \union {NoLink}]
    /\ record \in Addrs \union {NoAddr, Unreported}
    /\ panic \in BOOLEAN
    /\ announced \in Links \union {NoLink} /\ missed \subseteq Links /\ overtaken \in BOOLEAN
    \* No call on a nil tracker.
    /\ \A r \in Reporters : reportPc[r] = "send" => tracker # NoLink
    /\ \A c \in Closers : closerPc[c] \in {"stat", "socket", "assign"} => closing[c] # NoLink

Init ==
    /\ tracker = NoLink
    /\ stat = [l \in Links |-> "INIT"]
    /\ connection = [l \in Links |-> "nil"]
    /\ pc = [l \in Links |-> "new"]
    /\ message = [l \in Links |-> "none"]
    /\ trackerPc = "top"
    /\ chanClosed = FALSE
    /\ publicAddr = NoAddr
    /\ reportPc = [r \in Reporters |-> "idle"]
    /\ addrList = [r \in Reporters |-> NoAddr]
    /\ closerPc = [c \in Closers |-> "idle"]
    /\ closing = [c \in Closers |-> NoLink]
    /\ record = Unreported
    /\ panic = FALSE
    /\ announced = NoLink /\ missed = {} /\ overtaken = FALSE

Closed == closerPc["close"] # "idle"
At(l, label) == ~panic /\ pc[l] = label
Goto(l, label) == pc' = [pc EXCEPT ![l] = label]

\* Only connectProc of one link moves on.
LinkOnly == UNCHANGED <<reportVars, closerVars, serverVars, record, panic, notes>>

\* The websocket ended, and with it what the tracker knew of this server.
Forgotten == record' = Unreported /\ missed' = {} /\ overtaken' = FALSE

-----------------------------------------------------------------------------
(* connectProc.                                                             *)

\* A server URL that does not parse ends it at once.
Start(l) ==
    /\ At(l, "start")
    /\ \/ stat' = [stat EXCEPT ![l] = "CONNECTING"] /\ Goto(l, "top")
       \/ stat' = [stat EXCEPT ![l] = "ERROR"] /\ Goto(l, "done")
    /\ UNCHANGED <<connection, message>> /\ LinkOnly

Top(l) ==
    /\ At(l, "top")
    /\ Goto(l, IF stat[l] = "CLOSED" THEN "done" ELSE "dial")
    /\ UNCHANGED <<stat, connection, message>> /\ LinkOnly

\* The tracker accepts the websocket, and throws out whoever has the id, a
\* rival too, or the dial fails.
Dial(l) ==
    /\ At(l, "dial")
    /\ \/ /\ connection' = [k \in Links |->
                 IF k = l THEN "open"
                 ELSE IF connection[k] = "open" THEN "lost" ELSE connection[k]]
          /\ Forgotten
       \/ /\ connection' = [connection EXCEPT ![l] = "nil"]
          /\ UNCHANGED <<record, missed, overtaken>>
    /\ Goto(l, "dialed")
    /\ UNCHANGED <<stat, message, reportVars, closerVars, serverVars, panic, announced>>

Dialed(l) ==
    /\ At(l, "dialed")
    /\ Goto(l, IF stat[l] = "CLOSED" THEN "done"
               ELSE IF connection[l] = "nil" THEN "inner" ELSE "connected")
    /\ UNCHANGED <<stat, connection, message>> /\ LinkOnly

\* Mutant: the success is not announced.
SetConnectedSilently(l) ==
    /\ At(l, "connected")
    /\ stat' = [stat EXCEPT ![l] = "CONNECTED"]
    /\ Goto(l, "inner")
    /\ UNCHANGED <<connection, message>> /\ LinkOnly

SetConnected(l) ==
    /\ At(l, "connected")
    /\ stat' = [stat EXCEPT ![l] = "CONNECTED"]
    /\ message' = [message EXCEPT ![l] = "SUCCESS"]
    /\ Goto(l, "send")
    /\ UNCHANGED connection /\ LinkOnly

\* messageChan has no buffer: the send ends when trackerProc receives.
Deliver(l) ==
    /\ At(l, "send")
    /\ trackerPc = "wait"
    /\ ~chanClosed
    /\ trackerPc' = IF message[l] = "SUCCESS" THEN "report" ELSE "connect"
    /\ reportPc' = IF message[l] = "SUCCESS"
                     THEN [reportPc EXCEPT !["tracker"] = "read"] ELSE reportPc
    /\ announced' = IF message[l] = "SUCCESS" THEN l ELSE announced
    /\ message' = [message EXCEPT ![l] = "none"]
    /\ Goto(l, "inner")
    /\ UNCHANGED <<stat, connection, addrList, closerVars, tracker, chanClosed,
                   publicAddr, record, panic, missed, overtaken>>

SendPanics(l) ==
    /\ At(l, "send")
    /\ chanClosed
    /\ panic' = TRUE
    /\ UNCHANGED <<linkVars, reportVars, closerVars, serverVars, record, notes>>

\* The condition of the inner loop
Inner(l) ==
    /\ At(l, "inner")
    /\ Goto(l, IF stat[l] = "CONNECTED" THEN "read" ELSE "top")
    /\ UNCHANGED <<stat, connection, message>> /\ LinkOnly

\* and ReadMessage. A message of the tracker is dropped if the link was closed;
\* one that does not parse is, too.
ReadMessage(l) ==
    /\ At(l, "read")
    /\ connection[l] = "open"
    /\ \/ /\ stat[l] # "CLOSED"
          /\ message' = [message EXCEPT ![l] = "CONNECT"]
          /\ Goto(l, "send")
       \/ /\ stat[l] = "CLOSED"
          /\ Goto(l, "done")
          /\ UNCHANGED message
    /\ UNCHANGED <<stat, connection>> /\ LinkOnly

\* The websocket failed, or was closed.
ReadFails(l) ==
    /\ At(l, "read")
    /\ connection[l] # "open"
    /\ Goto(l, IF stat[l] = "CLOSED" THEN "done" ELSE "lost")
    /\ UNCHANGED <<stat, connection, message>> /\ LinkOnly

Lost(l) ==
    /\ At(l, "lost")
    /\ stat' = [stat EXCEPT ![l] = "CONNECTING"]
    /\ Goto(l, "top")
    /\ UNCHANGED <<connection, message>> /\ LinkOnly

\* What connectProc does by itself.
ConnectProc(l) ==
    \/ Start(l) \/ Top(l) \/ Dial(l) \/ Dialed(l) \/ SetConnected(l) \/ Deliver(l)
    \/ SendPanics(l) \/ Inner(l) \/ ReadFails(l) \/ Lost(l)

-----------------------------------------------------------------------------
(* The tracker, the network and the rival.                                  *)

Drop(l) ==
    /\ ~panic /\ connection[l] = "open"
    /\ connection' = [connection EXCEPT ![l] = "lost"]
    /\ Forgotten
    /\ UNCHANGED <<stat, pc, message, reportVars, closerVars, serverVars, panic, announced>>

\* It comes, or comes back after this server has thrown it out.
RivalConnects ==
    /\ ~panic /\ Rivals
    /\ \E l \in Links : connection[l] = "open"
    /\ connection' = [l \in Links |->
          IF connection[l] = "open" THEN "lost" ELSE connection[l]]
    /\ Forgotten
    /\ UNCHANGED <<stat, pc, message, reportVars, closerVars, serverVars, panic, announced>>

-----------------------------------------------------------------------------
(* trackerProc.                                                             *)

TrackerTop ==
    /\ ~panic /\ trackerPc = "top"
    /\ trackerPc' = IF Closed THEN "done" ELSE "wait"
    /\ UNCHANGED <<linkVars, reportVars, closerVars, tracker, chanClosed, publicAddr,
                   record, panic, notes>>

TrackerChanClosed ==
    /\ ~panic /\ trackerPc = "wait"
    /\ chanClosed
    /\ trackerPc' = "done"
    /\ UNCHANGED <<linkVars, reportVars, closerVars, tracker, chanClosed, publicAddr,
                   record, panic, notes>>

\* ReqClientConn for every address of the message.
TrackerConnect ==
    /\ ~panic /\ trackerPc = "connect"
    /\ trackerPc' = "top"
    /\ UNCHANGED <<linkVars, reportVars, closerVars, tracker, chanClosed, publicAddr,
                   record, panic, notes>>

TrackerProc == TrackerTop \/ TrackerChanClosed \/ TrackerConnect

-----------------------------------------------------------------------------
(* SendAddrtoTracker and SendAddrList.                                      *)

\* recv_udp_proc got another address from the STUN server.
NewAddr(a) ==
    /\ ~panic /\ reportPc["recv"] = "idle"
    /\ closerPc["close"] \notin {"chan", "done"}
    /\ publicAddr # a
    /\ publicAddr' = a
    /\ reportPc' = [reportPc EXCEPT !["recv"] = "read"]
    /\ UNCHANGED <<linkVars, addrList, closerVars, tracker, trackerPc, chanClosed,
                   record, panic, notes>>

\* Mutant: only a closed server reports.
PeriodicReportClosed ==
    /\ ~panic /\ reportPc["check"] = "idle"
    /\ Closed
    /\ reportPc' = [reportPc EXCEPT !["check"] = "read"]
    /\ UNCHANGED <<linkVars, addrList, closerVars, serverVars, record, panic, notes>>

\* check_session_proc reports every 1200 seconds.
PeriodicReport ==
    /\ ~panic /\ reportPc["check"] = "idle"
    /\ ~Closed
    /\ reportPc' = [reportPc EXCEPT !["check"] = "read"]
    /\ UNCHANGED <<linkVars, addrList, closerVars, serverVars, record, panic, notes>>

\* The report of r is over; trackerProc goes on with its loop.
Reported(r) ==
    /\ reportPc' = [reportPc EXCEPT ![r] = "idle"]
    /\ addrList' = [addrList EXCEPT ![r] = NoAddr]
    /\ trackerPc' = IF r = "tracker" THEN "top" ELSE trackerPc
    /\ announced' = IF r = "tracker" THEN NoLink ELSE announced

\* trackerProc reports, and not to the link that announced its success.
Missed(r) == IF r = "tracker" /\ announced # tracker THEN {announced} ELSE {}

\* Mutant: the tracker is not tested for nil.
ReadAddrUnchecked(r) ==
    /\ ~panic /\ reportPc[r] = "read"
    /\ addrList' = [addrList EXCEPT ![r] = publicAddr]
    /\ reportPc' = [reportPc EXCEPT ![r] = "send"]
    /\ UNCHANGED <<linkVars, closerVars, tracker, trackerPc, chanClosed, publicAddr,
                   record, panic, notes>>

ReadAddr(r) ==
    /\ ~panic /\ reportPc[r] = "read"
    /\ IF tracker = NoLink
         THEN Reported(r) /\ missed' = missed \union Missed(r)
         ELSE /\ addrList' = [addrList EXCEPT ![r] = publicAddr]
              /\ reportPc' = [reportPc EXCEPT ![r] = "send"]
              /\ UNCHANGED <<trackerPc, announced, missed>>
    /\ UNCHANGED <<linkVars, closerVars, tracker, chanClosed, publicAddr, record, panic,
                   overtaken>>

\* SendAddrList of the link there is now. The write fails when the websocket is
\* gone.
SendAddrList(r) ==
    /\ ~panic /\ reportPc[r] = "send"
    /\ IF stat[tracker] = "CONNECTED" /\ connection[tracker] = "open"
         THEN /\ record' = addrList[r]
              /\ overtaken' = (addrList[r] # publicAddr)
              /\ missed' = (missed \union Missed(r)) \ {tracker}
         ELSE /\ missed' = missed \union Missed(r)
              /\ UNCHANGED <<record, overtaken>>
    /\ Reported(r)
    /\ UNCHANGED <<linkVars, closerVars, tracker, chanClosed, publicAddr, panic>>

Report(r) == ReadAddr(r) \/ SendAddrList(r)

-----------------------------------------------------------------------------
(* SetTrackerConfig, by the HTTP handler, and Close of the server.          *)

CloserBegin(c) ==
    /\ ~panic /\ closerPc[c] = "idle"
    /\ closerPc["close"] # "done"
    /\ c = "close" => Deletable
    /\ closing' = [closing EXCEPT ![c] = tracker]
    /\ closerPc' = [closerPc EXCEPT ![c] = IF tracker = NoLink THEN "after" ELSE "stat"]
    /\ UNCHANGED <<linkVars, reportVars, serverVars, record, panic, notes>>

\* The link is closed, and c goes on.
LinkClosed(c) ==
    /\ closerPc' = [closerPc EXCEPT ![c] = "after"]
    /\ closing' = [closing EXCEPT ![c] = NoLink]

\* Close of the link.
CloseStat(c) ==
    /\ ~panic /\ closerPc[c] = "stat"
    /\ stat' = [stat EXCEPT ![closing[c]] = "CLOSED"]
    /\ IF stat[closing[c]] = "CLOSED"
         THEN LinkClosed(c)
         ELSE closerPc' = [closerPc EXCEPT ![c] = "socket"] /\ UNCHANGED closing
    /\ UNCHANGED <<connection, pc, message, reportVars, serverVars, record, panic, notes>>

\* Mutant: the websocket stays open.
CloseSocketForgotten(c) ==
    /\ ~panic /\ closerPc[c] = "socket"
    /\ LinkClosed(c)
    /\ UNCHANGED <<linkVars, reportVars, serverVars, record, panic, notes>>

CloseSocket(c) ==
    /\ ~panic /\ closerPc[c] = "socket"
    /\ LinkClosed(c)
    /\ connection' = [connection EXCEPT ![closing[c]] = IF @ = "nil" THEN @ ELSE "closed"]
    /\ IF connection[closing[c]] = "open"
         THEN Forgotten ELSE UNCHANGED <<record, missed, overtaken>>
    /\ UNCHANGED <<stat, pc, message, reportVars, serverVars, panic, announced>>

\* SetTrackerConfig makes no link if the configuration is empty or invalid:
\* this.tracker then stays the closed one.
NoNewTracker ==
    /\ ~panic /\ closerPc["config"] = "after"
    /\ closerPc' = [closerPc EXCEPT !["config"] = "idle"]
    /\ UNCHANGED <<linkVars, reportVars, closing, serverVars, record, panic, notes>>

\* NewServerTracker starts connectProc of the link,
NewServerTracker ==
    /\ ~panic /\ closerPc["config"] = "after"
    /\ \E l \in Links :
           /\ pc[l] = "new"
           /\ Goto(l, "start")
           /\ closing' = [closing EXCEPT !["config"] = l]
    /\ closerPc' = [closerPc EXCEPT !["config"] = "assign"]
    /\ UNCHANGED <<stat, connection, message, reportVars, serverVars, record, panic, notes>>

\* and this.tracker names it later.
AssignTracker ==
    /\ ~panic /\ closerPc["config"] = "assign"
    /\ tracker' = closing["config"]
    /\ closerPc' = [closerPc EXCEPT !["config"] = "idle"]
    /\ closing' = [closing EXCEPT !["config"] = NoLink]
    /\ UNCHANGED <<linkVars, reportVars, trackerPc, chanClosed, publicAddr, record, panic,
                   notes>>

\* Close of the server closes its connections, sleeps a second, closes its
\* socket
CloseConn ==
    /\ ~panic /\ closerPc["close"] = "after"
    /\ closerPc' = [closerPc EXCEPT !["close"] = "chan"]
    /\ UNCHANGED <<linkVars, reportVars, closing, serverVars, record, panic, notes>>

\* Mutant: the channel stays open.
CloseChanForgotten ==
    /\ ~panic /\ closerPc["close"] = "chan"
    /\ closerPc' = [closerPc EXCEPT !["close"] = "done"]
    /\ UNCHANGED <<linkVars, reportVars, closing, serverVars, record, panic, notes>>

\* and then the channel.
CloseChan ==
    /\ ~panic /\ closerPc["close"] = "chan"
    /\ closerPc' = [closerPc EXCEPT !["close"] = "done"]
    /\ chanClosed' = TRUE
    /\ UNCHANGED <<linkVars, reportVars, closing, tracker, trackerPc, publicAddr, record,
                   panic, notes>>

SetTrackerConfig ==
    \/ CloseStat("config") \/ CloseSocket("config")
    \/ NoNewTracker \/ NewServerTracker \/ AssignTracker

Close == CloseStat("close") \/ CloseSocket("close") \/ CloseConn \/ CloseChan

-----------------------------------------------------------------------------
Next ==
    \/ \E l \in Links : ConnectProc(l) \/ ReadMessage(l) \/ Drop(l)
    \/ RivalConnects
    \/ TrackerProc
    \/ \E a \in Addrs : NewAddr(a)
    \/ PeriodicReport
    \/ \E r \in Reporters : Report(r)
    \/ \E c \in Closers : CloserBegin(c)
    \/ SetTrackerConfig \/ Close

Spec == Init /\ [][Next]_vars

\* Goroutines run and a dial returns; trackerProc receives from one link after
\* the other. The tracker need not send anything, the rival need not come, and
\* nothing is asked of recv_udp_proc.
Fairness ==
    /\ \A l \in Links : SF_vars(ConnectProc(l))
    /\ WF_vars(TrackerProc \/ Report("tracker"))
    /\ WF_vars(PeriodicReport \/ Report("check"))
    /\ WF_vars(SetTrackerConfig)
    /\ WF_vars(Close)

FairSpec == Spec /\ Fairness

-----------------------------------------------------------------------------
Online(l) == l = tracker /\ stat[l] = "CONNECTED" /\ connection[l] = "open"
Quiet == \A r \in Reporters : reportPc[r] = "idle"

(* A tracker that counts the server online knows the server's address: once *)
(* the link has announced its websocket and no report is under way, the     *)
(* tracker has the newest address, unless the success came before           *)
(* this.tracker named the link, or the last report to arrive had read an    *)
(* older address. Both are made up for by the next report. Before STUN has  *)
(* answered, the address it is told is the empty one (connectProc,          *)
(* trackerProc, SendAddrtoTracker, SetTrackerConfig).                       *)
OnlineHasAddress ==
    \A l \in Links :
        Online(l) /\ pc[l] \in {"inner", "read"} /\ Quiet /\ l \notin missed /\ ~overtaken =>
            record = publicAddr

(* The tracker gets to know the server's address: a report that overtakes   *)
(* another, a success that was reported to another link, or a change that   *)
(* came while the websocket was down, is repaired as long as the websocket  *)
(* stays up (check_session_proc's periodic report, SendAddrtoTracker).      *)
AddressGetsThere ==
    \A l \in Links, a \in Addrs :
        (Online(l) /\ publicAddr = a)
            ~> (record = a \/ ~Online(l) \/ publicAddr # a \/ Closed \/ panic)

(* connectProc of a link that was closed ends, wherever the close finds it, *)
(* except where it overwrites the status (ServerTracker.Close, connectProc).*)
ClosedLinkEnds ==
    \A l \in Links :
        stat[l] = "CLOSED" ~> pc[l] \in {"new", "done"} \/ stat[l] # "CLOSED" \/ panic

(* trackerProc ends when the server is closed, whatever it waits for        *)
(* (AdvancedRelayServer.Close, trackerProc).                                *)
TrackerProcEnds == Closed ~> trackerPc = "done" \/ panic

-----------------------------------------------------------------------------
(* advanced_relay_server.go:130: "report once when the tracker has been     *)
(* connected". Refuted: trackerProc may take the success before             *)
(* this.tracker names the link that announces it.                           *)
SuccessReported ==
    \A l \in Links :
        Online(l) /\ pc[l] \in {"inner", "read"} /\ Quiet => record # Unreported

(* advanced_relay_server.go:223: "when a new ip is received it is reported  *)
(* to the tracker". When no report is under way and one has been made, the  *)
(* tracker has the newest address. Refuted: reports overtake each other.    *)
NewestReported ==
    (/\ \A r \in Reporters : reportPc[r] = "idle"
     /\ record # Unreported)
        => record = publicAddr
=============================================================================

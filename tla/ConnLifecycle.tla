---------------------------- MODULE ConnLifecycle ----------------------------
(***************************************************************************)
(* The goroutines that share one AdvancedRelayConn and how it is taken     *)
(* down (udprelay/relay_connection.go). Nothing guards connStat: the tests *)
(* at the head of a handler are one step, its assignments later ones.      *)
(*                                                                         *)
(*   dispatch  the manager's recv_udp_proc, one packet at a time           *)
(*   recv      recvPacketProc                                              *)
(*   check     checkSessionProc and its timeout                            *)
(*   user      the manager closing the connection                          *)
(*   connect   requestConnectProc or tryConnectProc                        *)
(*                                                                         *)
(* Keys, serial numbers and contents are RelayHandshake's: here every      *)
(* packet decrypts and is fresh.                                           *)
(***************************************************************************)
EXTENDS Naturals, Sequences

CONSTANTS
    Situations,  \* the connections to look at, see below
    RecvCap,     \* capacity of recvChan, 20 in the program
    CommonCap,   \* capacity of commonChan, 5 in the program
    MaxPackets   \* bound: how many packets arrive

Procs == {"dispatch", "recv", "check", "user", "connect"}
Stats == {"INIT", "WAIT_CONN", "WAIT_ACK", "READY", "ESTABLISHED", "CLOSED"}
Kinds == {"CREATE", "ACK", "DATA", "CLOSE", "PING"}
Closers == {"recv", "check", "user"}

\* A connection of the end act in the status stat, to which packets of the
\* kinds arrive and which the closers may close.
ASSUME SituationsAssumption ==
    Situations \subseteq [act : {"server", "client"}, stat : Stats,
                          kinds : SUBSET Kinds, closers : SUBSET Closers]
ASSUME CapAssumption ==
    RecvCap \in Nat \ {0} /\ CommonCap \in Nat \ {0} /\ MaxPackets \in Nat

VARIABLES
    situation,
    connStat,
    pc,            \* [Procs -> label]
    hand,          \* the packet that dispatch carries and the one recv handles
    recvChan,
    recvClosed,    \* close(recvChan) was called
    commonChan,    \* how many signals commonChan holds
    commonClosed,
    session,       \* the server's session: "none", "open" or "closed"
    lock,          \* who holds the manager's lock on its connection table
    arrivals,      \* how many packets arrived
    panic          \* what brought the process down, "no" if nothing did

chans == <<recvChan, recvClosed, commonChan, commonClosed>>
vars == <<situation, connStat, pc, hand, chans, session, lock, arrivals, panic>>

CloseLabels == {"close", "stat", "signal", "closeRecv", "closeCommon", "sessions"}
Labels == CloseLabels \union
    {"idle", "send", "top", "wait", "handle", "create", "ack", "signalAck",
     "establish", "session", "done"}
Reasons == {"no", "sendRecvChan", "sendCommonChan", "closeRecvChan", "closeCommonChan"}

TypeOK ==
    /\ situation \in Situations
    /\ connStat \in Stats
    /\ pc \in [Procs -> Labels]
    /\ hand \in [{"dispatch", "recv"} -> Kinds \union {"none"}]
    /\ recvChan \in Seq(Kinds) /\ Len(recvChan) <= RecvCap
    /\ commonChan \in 0 .. CommonCap
    /\ {recvClosed, commonClosed} \subseteq BOOLEAN
    /\ session \in {"none", "open", "closed"}
    /\ lock \in {"free", "dispatch", "user"}
    /\ arrivals \in 0 .. MaxPackets
    /\ panic \in Reasons

Init ==
    /\ situation \in Situations
    /\ connStat = situation.stat
    /\ pc = [p \in Procs |->
               CASE p = "dispatch" -> "idle"
                 [] p = "recv"     -> "top"
                 [] p = "connect"  -> IF connStat \in {"WAIT_CONN", "WAIT_ACK"}
                                        THEN "wait" ELSE "done"
                 [] OTHER          -> "idle"]
    /\ hand = [p \in {"dispatch", "recv"} |-> "none"]
    /\ recvChan = <<>> /\ recvClosed = FALSE
    /\ commonChan = 0 /\ commonClosed = FALSE
    /\ session = "none"
    /\ lock = "free"
    /\ arrivals = 0
    /\ panic = "no"

Goto(p, label) == pc' = [pc EXCEPT ![p] = label]
At(p, label) == panic = "no" /\ pc[p] = label

-----------------------------------------------------------------------------
(* recv_udp_proc: under the manager's lock, drop the packet if IsClosed,    *)
(* else send it to recvChan, which blocks when it is full.                  *)

\* Mutant: the packet is sent outside the lock.
DispatchUnlocked(k) ==
    /\ At("dispatch", "idle")
    /\ arrivals < MaxPackets
    /\ lock = "free"
    /\ arrivals' = arrivals + 1
    /\ IF connStat = "CLOSED"
         THEN UNCHANGED <<pc, hand>>
         ELSE /\ Goto("dispatch", "send")
              /\ hand' = [hand EXCEPT !["dispatch"] = k]
    /\ UNCHANGED <<connStat, chans, session, lock, panic>>

Dispatch(k) ==
    /\ At("dispatch", "idle")
    /\ arrivals < MaxPackets
    /\ lock = "free"
    /\ arrivals' = arrivals + 1
    /\ IF connStat = "CLOSED"
         THEN UNCHANGED <<pc, hand, lock>>
         ELSE /\ Goto("dispatch", "send")
              /\ hand' = [hand EXCEPT !["dispatch"] = k]
              /\ lock' = "dispatch"
    /\ UNCHANGED <<connStat, chans, session, panic>>

\* Mutant: the queue has no limit.
DispatchSendUnbounded ==
    /\ At("dispatch", "send")
    /\ ~recvClosed
    /\ recvChan' = Append(recvChan, hand["dispatch"])
    /\ hand' = [hand EXCEPT !["dispatch"] = "none"]
    /\ lock' = "free"
    /\ Goto("dispatch", "idle")
    /\ UNCHANGED <<connStat, recvClosed, commonChan, commonClosed, session,
                   arrivals, panic>>

DispatchSend ==
    /\ At("dispatch", "send")
    /\ ~recvClosed
    /\ Len(recvChan) < RecvCap
    /\ recvChan' = Append(recvChan, hand["dispatch"])
    /\ hand' = [hand EXCEPT !["dispatch"] = "none"]
    /\ lock' = "free"
    /\ Goto("dispatch", "idle")
    /\ UNCHANGED <<connStat, recvClosed, commonChan, commonClosed, session,
                   arrivals, panic>>

DispatchPanics ==
    /\ At("dispatch", "send")
    /\ recvClosed
    /\ panic' = "sendRecvChan"
    /\ UNCHANGED <<connStat, pc, hand, chans, session, lock, arrivals>>

-----------------------------------------------------------------------------
(* closeWithoutSendMSG, by any of the closers, statement by statement.      *)

\* Mutant: the early return forgets the lock.
CloseTestKeepsLock(c) ==
    /\ At(c, "close")
    /\ Goto(c, IF connStat = "CLOSED" THEN "done" ELSE "stat")
    /\ UNCHANGED <<connStat, hand, chans, session, lock, arrivals, panic>>

CloseTest(c) ==
    /\ At(c, "close")
    /\ Goto(c, IF connStat = "CLOSED" THEN "done" ELSE "stat")
    /\ lock' = IF c = "user" /\ connStat = "CLOSED" THEN "free" ELSE lock
    /\ UNCHANGED <<connStat, hand, chans, session, arrivals, panic>>

CloseStat(c) ==
    /\ At(c, "stat")
    /\ connStat' = "CLOSED"
    /\ Goto(c, "signal")
    /\ UNCHANGED <<hand, chans, session, lock, arrivals, panic>>

\* Blocks while commonChan is full.
CloseSignal(c) ==
    /\ At(c, "signal")
    /\ ~commonClosed
    /\ commonChan < CommonCap
    /\ commonChan' = commonChan + 1
    /\ Goto(c, "closeRecv")
    /\ UNCHANGED <<connStat, hand, recvChan, recvClosed, commonClosed, session,
                   lock, arrivals, panic>>

\* Mutant: recvChan is not closed.
CloseRecvChanForgotten(c) ==
    /\ At(c, "closeRecv")
    /\ Goto(c, "closeCommon")
    /\ UNCHANGED <<connStat, hand, chans, session, lock, arrivals, panic>>

CloseRecvChan(c) ==
    /\ At(c, "closeRecv")
    /\ ~recvClosed
    /\ recvClosed' = TRUE
    /\ Goto(c, "closeCommon")
    /\ UNCHANGED <<connStat, hand, recvChan, commonChan, commonClosed, session,
                   lock, arrivals, panic>>

CloseCommonChan(c) ==
    /\ At(c, "closeCommon")
    /\ ~commonClosed
    /\ commonClosed' = TRUE
    /\ Goto(c, "sessions")
    /\ UNCHANGED <<connStat, hand, recvChan, recvClosed, commonChan, session,
                   lock, arrivals, panic>>

CloseSessions(c) ==
    /\ At(c, "sessions")
    /\ session' = IF situation.act = "server" /\ session = "open" THEN "closed" ELSE session
    /\ Goto(c, "done")
    /\ lock' = IF c = "user" THEN "free" ELSE lock
    /\ UNCHANGED <<connStat, hand, chans, arrivals, panic>>

\* The second of two closers, or one after the connection came back to life.
ClosePanics(c) ==
    /\ \/ At(c, "signal") /\ commonClosed /\ panic' = "sendCommonChan"
       \/ At(c, "closeRecv") /\ recvClosed /\ panic' = "closeRecvChan"
       \/ At(c, "closeCommon") /\ commonClosed /\ panic' = "closeCommonChan"
    /\ UNCHANGED <<connStat, pc, hand, chans, session, lock, arrivals>>

CloseStep(c) ==
    \/ CloseTest(c) \/ CloseStat(c) \/ CloseSignal(c) \/ CloseRecvChan(c)
    \/ CloseCommonChan(c) \/ CloseSessions(c) \/ ClosePanics(c)

\* checkSessionProc's timeout: no packet for a minute. It never fires for a
\* client that waits for its acknowledgement.
CheckTimeout ==
    /\ "check" \in situation.closers
    /\ At("check", "idle")
    /\ connStat \notin {"CLOSED", "WAIT_ACK"}
    /\ Goto("check", "close")
    /\ UNCHANGED <<connStat, hand, chans, session, lock, arrivals, panic>>

CheckReturns ==
    /\ At("check", "idle")
    /\ connStat = "CLOSED"
    /\ Goto("check", "done")
    /\ UNCHANGED <<connStat, hand, chans, session, lock, arrivals, panic>>

\* Close, RestartConnection or the client's choice of another connection, all
\* under the manager's lock.
UserClose ==
    /\ "user" \in situation.closers
    /\ At("user", "idle")
    /\ lock = "free"
    /\ lock' = "user"
    /\ Goto("user", "close")
    /\ UNCHANGED <<connStat, hand, chans, session, arrivals, panic>>

-----------------------------------------------------------------------------
(* recvPacketProc.                                                          *)

RecvLoop ==
    /\ At("recv", "top")
    /\ Goto("recv", IF connStat = "CLOSED" THEN "done" ELSE "wait")
    /\ UNCHANGED <<connStat, hand, chans, session, lock, arrivals, panic>>

RecvTake ==
    /\ At("recv", "wait")
    /\ IF recvChan # <<>>
         THEN /\ hand' = [hand EXCEPT !["recv"] = Head(recvChan)]
              /\ recvChan' = Tail(recvChan)
              /\ Goto("recv", "handle")
         ELSE /\ recvClosed
              /\ Goto("recv", "done")
              /\ UNCHANGED <<hand, recvChan>>
    /\ UNCHANGED <<connStat, recvClosed, commonChan, commonClosed, session, lock,
                   arrivals, panic>>

\* Where a handler goes after its test of connStat.
AfterTest(k, stat) ==
    CASE k = "CREATE" /\ situation.act = "server" /\ stat # "ESTABLISHED" -> "create"
      [] k = "ACK" /\ situation.act = "client" /\ stat = "WAIT_ACK"       -> "ack"
      [] k = "PING" /\ stat = "READY"                           -> "establish"
      [] k = "DATA" /\ situation.act = "server" /\ stat = "READY"         -> "establish"
      [] k = "DATA" /\ situation.act = "server" /\ stat = "ESTABLISHED"   -> "session"
      [] k = "CLOSE" /\ stat = "ESTABLISHED" /\ "recv" \in situation.closers -> "close"
      [] OTHER                                                  -> "top"

RecvHandle ==
    /\ At("recv", "handle")
    /\ Goto("recv", AfterTest(hand["recv"], connStat))
    /\ UNCHANGED <<connStat, hand, chans, session, lock, arrivals, panic>>

\* The assignments write over whatever happened since the test.
RecvCreate ==
    /\ At("recv", "create")
    /\ connStat' = "READY"
    /\ Goto("recv", "top")
    /\ UNCHANGED <<hand, chans, session, lock, arrivals, panic>>

RecvAck ==
    /\ At("recv", "ack")
    /\ connStat' = "ESTABLISHED"
    /\ Goto("recv", "signalAck")
    /\ UNCHANGED <<hand, chans, session, lock, arrivals, panic>>

RecvSignalAck ==
    /\ At("recv", "signalAck")
    /\ IF commonClosed
         THEN panic' = "sendCommonChan" /\ UNCHANGED <<pc, commonChan>>
         ELSE /\ commonChan < CommonCap
              /\ commonChan' = commonChan + 1
              /\ Goto("recv", "top")
              /\ UNCHANGED panic
    /\ UNCHANGED <<connStat, hand, recvChan, recvClosed, commonClosed, session,
                   lock, arrivals>>

RecvEstablish ==
    /\ At("recv", "establish")
    /\ connStat' = "ESTABLISHED"
    /\ Goto("recv", IF hand["recv"] = "DATA" THEN "session" ELSE "top")
    /\ UNCHANGED <<hand, chans, session, lock, arrivals, panic>>

\* The session of the datagram, created if it is new.
RecvSession ==
    /\ At("recv", "session")
    /\ session' = IF session = "none" THEN "open" ELSE session
    /\ Goto("recv", "top")
    /\ UNCHANGED <<connStat, hand, chans, lock, arrivals, panic>>

Recv ==
    \/ RecvLoop \/ RecvTake \/ RecvHandle \/ RecvCreate \/ RecvAck
    \/ RecvSignalAck \/ RecvEstablish \/ RecvSession

-----------------------------------------------------------------------------
(* The connecting goroutine: a timer of a few seconds, or commonChan.       *)

ConnectSignal ==
    /\ At("connect", "wait")
    /\ commonChan > 0 \/ commonClosed
    /\ commonChan' = IF commonChan > 0 THEN commonChan - 1 ELSE 0
    /\ Goto("connect", "done")
    /\ UNCHANGED <<connStat, hand, recvChan, recvClosed, commonClosed, session,
                   lock, arrivals, panic>>

\* The timer fired and its packet went out: the loop looks at connStat.
ConnectTimer ==
    /\ At("connect", "wait")
    /\ connStat \notin {"WAIT_CONN", "WAIT_ACK"}
    /\ Goto("connect", "done")
    /\ UNCHANGED <<connStat, hand, chans, session, lock, arrivals, panic>>

-----------------------------------------------------------------------------
Step ==
    \/ \E k \in situation.kinds : Dispatch(k)
    \/ DispatchSend \/ DispatchPanics
    \/ \E c \in situation.closers : CloseStep(c)
    \/ CheckTimeout \/ CheckReturns \/ UserClose
    \/ Recv
    \/ ConnectSignal \/ ConnectTimer

Next == Step /\ UNCHANGED situation

Spec == Init /\ [][Next]_vars

\* Goroutines run. The timeout comes since only MaxPackets packets arrive; no
\* packet need arrive and the manager need not close.
Fairness ==
    /\ WF_vars((DispatchSend \/ DispatchPanics) /\ UNCHANGED situation)
    /\ \A c \in Closers : WF_vars(CloseStep(c) /\ UNCHANGED situation)
    /\ WF_vars((CheckTimeout \/ CheckReturns) /\ UNCHANGED situation)
    /\ WF_vars(Recv /\ UNCHANGED situation)
    /\ WF_vars((ConnectSignal \/ ConnectTimer) /\ UNCHANGED situation)

FairSpec == Spec /\ Fairness

-----------------------------------------------------------------------------
(* The manager's lock keeps a packet and a close of the manager apart: with *)
(* an established connection that only the manager closes nothing panics    *)
(* (recv_udp_proc, Close). No MSG_CREATE_CONN may come late: it would       *)
(* revive the connection.                                                   *)
ManagerAlone ==
    /\ situation.closers = {"user"}
    /\ situation.stat = "ESTABLISHED"
    /\ "CREATE" \notin situation.kinds

NoPanic == ManagerAlone => panic = "no"

(* A connection that was closed comes to rest, unless the process is gone:  *)
(* its goroutines return, no closer waits for room in commonChan, which     *)
(* nobody reads any more, and the manager's lock is free                    *)
(* (closeWithoutSendMSG, recvPacketProc, checkSessionProc).                 *)
Rested ==
    /\ \A p \in {"recv", "check", "connect"} : pc[p] = "done"
    /\ lock = "free"

ClosedRests == connStat = "CLOSED" ~> Rested \/ panic # "no"

(* Whoever holds the manager's lock lets it go: a full recvChan does not    *)
(* hold up the manager and its other connections for good (recv_udp_proc).  *)
LockReleased == lock # "free" ~> lock = "free" \/ panic # "no"

-----------------------------------------------------------------------------
(* advanced_relay_server.go:233: "a packet for a connection already closed: *)
(* release it and try a new handshake". Such a packet is survived.          *)
ClosedConnReleased == panic # "sendRecvChan"

(* relay_connection.go:351: "the server must also close the sessions". When *)
(* a closed connection is at rest no session of it is left open.            *)
SessionsClosed ==
    (connStat = "CLOSED" /\ \A p \in Procs \ {"dispatch"} : pc[p] \in {"idle", "done"})
        => session # "open"
=============================================================================

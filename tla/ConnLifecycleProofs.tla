------------------------- MODULE ConnLifecycleProofs -------------------------
(***************************************************************************)
(* TypeOK and NoPanic of ConnLifecycle, for every set of situations, every *)
(* capacity of the two channels and any number of packets.                 *)
(***************************************************************************)
EXTENDS ConnLifecycle, SequenceTheorems, TLAPS

\* What is on its way to a handler was dispatched.
Carried ==
    /\ pc["dispatch"] = "send" => hand["dispatch"] \in situation.kinds
    /\ hand["recv"] \in situation.kinds \union {"none"}
    /\ recvChan \in Seq(situation.kinds)

(* The manager's lock is held by dispatch while it sends, and by the        *)
(* manager from the start of its close to the end.                          *)
LockInv ==
    /\ lock = "dispatch" <=> pc["dispatch"] = "send"
    /\ lock = "user" <=> pc["user"] \in CloseLabels

LifeInv == TypeOK /\ Carried /\ LockInv

\* What the manager has done of its close, of which it is the only closer.
UserClosed(labels) == pc["user"] \in labels \union {"done"}

AloneInv ==
    /\ connStat \in {"ESTABLISHED", "CLOSED"}
    /\ pc["recv"] \in {"top", "wait", "handle", "session", "done"}
    /\ pc["user"] \in CloseLabels \union {"idle", "done"}
    /\ connStat = "CLOSED" <=> UserClosed({"signal", "closeRecv", "closeCommon", "sessions"})
    /\ recvClosed <=> UserClosed({"closeCommon", "sessions"})
    /\ commonClosed <=> UserClosed({"sessions"})
    /\ pc["dispatch"] = "send" => pc["user"] = "idle"
    /\ panic = "no"

ManagedInv == ManagerAlone => AloneInv

-----------------------------------------------------------------------------
LEMMA SituationType ==
    ASSUME situation \in Situations
    PROVE  /\ situation.act \in {"server", "client"} /\ situation.stat \in Stats
           /\ situation.kinds \subseteq Kinds /\ situation.closers \subseteq Closers
BY SituationsAssumption

LEMMA InitLife == Init => LifeInv
<1> SUFFICES ASSUME Init PROVE LifeInv
  OBVIOUS
<1> USE DEF Init
<1>1. TypeOK
  <2>1. pc \in [Procs -> Labels]
    BY DEF Procs, Labels, CloseLabels
  <2>2. hand \in [{"dispatch", "recv"} -> Kinds \union {"none"}]
    OBVIOUS
  <2>3. recvChan \in Seq(Kinds) /\ Len(recvChan) <= RecvCap
    BY CapAssumption
  <2>4. connStat \in Stats
    BY SituationType
  <2>5. commonChan \in 0 .. CommonCap /\ arrivals \in 0 .. MaxPackets
    BY CapAssumption
  <2> QED
    BY <2>1, <2>2, <2>3, <2>4, <2>5 DEF TypeOK, Reasons
<1>2. Carried
  BY DEF Carried, Procs
<1>3. LockInv
  BY DEF LockInv, Procs, CloseLabels
<1> QED
  BY <1>1, <1>2, <1>3 DEF LifeInv

(* A step that moves one process to another label.                          *)
LEMMA Moves ==
    ASSUME pc \in [Procs -> Labels], NEW p \in Procs, NEW label \in Labels, Goto(p, label)
    PROVE  /\ pc' \in [Procs -> Labels]
           /\ pc'[p] = label
           /\ \A q \in Procs \ {p} : pc'[q] = pc[q]
BY DEF Goto

LEMMA DispatchLife ==
    LifeInv /\ UNCHANGED situation
        /\ ((\E k \in situation.kinds : Dispatch(k)) \/ DispatchSend \/ DispatchPanics)
        => LifeInv'
<1> SUFFICES ASSUME LifeInv, UNCHANGED situation,
                    (\E k \in situation.kinds : Dispatch(k)) \/ DispatchSend \/ DispatchPanics
             PROVE  LifeInv'
  OBVIOUS
<1> USE DEF LifeInv, At
<1>0. /\ TypeOK /\ pc \in [Procs -> Labels] /\ situation.kinds \subseteq Kinds
      /\ {"dispatch", "user", "recv"} \subseteq Procs
      /\ {"send", "idle"} \subseteq Labels /\ "idle" \notin CloseLabels /\ "send" \notin CloseLabels
      /\ arrivals \in Nat /\ MaxPackets \in Nat /\ RecvCap \in Nat
  BY SituationType, CapAssumption DEF TypeOK, Procs, Labels, CloseLabels
<1>1. ASSUME NEW k \in situation.kinds, Dispatch(k)
      PROVE  LifeInv'
  <2>1. arrivals' \in 0 .. MaxPackets
    BY <1>0, <1>1 DEF Dispatch
  <2>2. CASE connStat = "CLOSED"
    BY <1>1, <2>1, <2>2 DEF Dispatch, TypeOK, Carried, LockInv, chans
  <2>3. CASE connStat # "CLOSED"
    <3>1. /\ pc' \in [Procs -> Labels] /\ pc'["dispatch"] = "send"
          /\ \A q \in Procs \ {"dispatch"} : pc'[q] = pc[q]
      BY <1>0, <1>1, <2>3, Moves DEF Dispatch
    <3>2. /\ hand' \in [{"dispatch", "recv"} -> Kinds \union {"none"}]
          /\ hand'["dispatch"] = k /\ hand'["recv"] = hand["recv"]
      BY <1>0, <1>1, <2>3 DEF Dispatch, TypeOK
    <3>3. lock' = "dispatch" /\ lock = "free"
      BY <1>1, <2>3 DEF Dispatch
    <3>4. TypeOK'
      BY <1>1, <2>1, <3>1, <3>2, <3>3 DEF Dispatch, TypeOK, chans
    <3>5. Carried'
      BY <1>1, <3>1, <3>2 DEF Dispatch, Carried, chans
    <3>6. LockInv'
      BY <1>0, <3>1, <3>3 DEF LockInv
    <3> QED
      BY <3>4, <3>5, <3>6
  <2> QED
    BY <2>2, <2>3
<1>2. CASE DispatchSend
  <2>1. /\ pc' \in [Procs -> Labels] /\ pc'["dispatch"] = "idle"
        /\ \A q \in Procs \ {"dispatch"} : pc'[q] = pc[q]
    BY <1>0, <1>2, Moves DEF DispatchSend
  <2>2. /\ hand' \in [{"dispatch", "recv"} -> Kinds \union {"none"}]
        /\ hand'["recv"] = hand["recv"]
    BY <1>2 DEF DispatchSend, TypeOK
  <2>3. recvChan' \in Seq(situation.kinds) /\ recvChan' \in Seq(Kinds) /\ Len(recvChan') <= RecvCap
    <3>1. hand["dispatch"] \in situation.kinds /\ recvChan \in Seq(situation.kinds)
      BY <1>2 DEF DispatchSend, Carried
    <3>2. recvChan' = Append(recvChan, hand["dispatch"]) /\ Len(recvChan) < RecvCap
      BY <1>2 DEF DispatchSend
    <3>3. recvChan' \in Seq(situation.kinds)
      BY <3>1, <3>2, AppendProperties
    <3>4. recvChan' \in Seq(Kinds)
      BY <1>0, <3>1, <3>2, AppendProperties DEF TypeOK
    <3>5. Len(recvChan') = Len(recvChan) + 1 /\ Len(recvChan) \in Nat
      BY <3>1, <3>2, AppendProperties, LenProperties
    <3> QED
      BY <1>0, <3>2, <3>3, <3>4, <3>5
  <2>4. TypeOK'
    BY <1>2, <2>1, <2>2, <2>3 DEF DispatchSend, TypeOK
  <2>5. Carried'
    BY <2>1, <2>2, <2>3 DEF Carried
  <2>6. LockInv'
    BY <1>0, <1>2, <2>1 DEF DispatchSend, LockInv
  <2> QED
    BY <2>4, <2>5, <2>6
<1>3. CASE DispatchPanics
  BY <1>3 DEF DispatchPanics, TypeOK, Carried, LockInv, chans, Reasons
<1> QED
  BY <1>1, <1>2, <1>3

(* A step of a closer, of the timeout or of the connecting goroutine        *)
(* touches nothing that is on its way.                                      *)
LEMMA CloseLife ==
    ASSUME LifeInv, UNCHANGED situation, NEW c \in situation.closers, CloseStep(c)
    PROVE  LifeInv'
<1> USE DEF LifeInv, At
<1>0. /\ pc \in [Procs -> Labels] /\ c \in Procs /\ c # "dispatch"
      /\ {"dispatch", "user", "recv"} \subseteq Procs
      /\ CloseLabels \union {"done"} \subseteq Labels
      /\ "done" \notin CloseLabels
      /\ CommonCap \in Nat /\ commonChan \in Nat /\ commonChan <= CommonCap
  BY SituationType, CapAssumption DEF TypeOK, Procs, Closers, Labels, CloseLabels
<1>1. CASE ClosePanics(c)
  BY <1>1 DEF ClosePanics, TypeOK, Carried, LockInv, chans, Reasons
<1>2. ASSUME NEW label \in CloseLabels \union {"done"}, Goto(c, label), pc[c] \in CloseLabels,
             UNCHANGED <<hand, recvChan, arrivals, panic>>,
             lock' = IF c = "user" /\ label = "done" THEN "free" ELSE lock,
             connStat' \in {connStat, "CLOSED"}, session' \in {session, "closed"},
             recvClosed' \in BOOLEAN, commonClosed' \in BOOLEAN, commonChan' \in 0 .. CommonCap
      PROVE  LifeInv'
  <2>1. /\ pc' \in [Procs -> Labels] /\ pc'[c] = label
        /\ \A q \in Procs \ {c} : pc'[q] = pc[q]
    BY <1>0, <1>2, Moves
  <2>2. TypeOK'
    BY <1>2, <2>1 DEF TypeOK, Stats
  <2>3. Carried'
    BY <1>0, <1>2, <2>1 DEF Carried
  <2>4. LockInv'
    BY <1>0, <1>2, <2>1 DEF LockInv
  <2> QED
    BY <2>2, <2>3, <2>4
<1> USE DEF CloseLabels, chans
<1>3. CASE CloseTest(c)
  <2>1. CASE connStat = "CLOSED"
    BY <1>0, <1>2, <1>3, <2>1 DEF CloseTest, TypeOK
  <2>2. CASE connStat # "CLOSED"
    BY <1>0, <1>2, <1>3, <2>2 DEF CloseTest, TypeOK
  <2> QED
    BY <2>1, <2>2
<1>4. CASE CloseStat(c)
  BY <1>0, <1>2, <1>4 DEF CloseStat, TypeOK
<1>5. CASE CloseSignal(c)
  <2>1. commonChan' \in 0 .. CommonCap
    BY <1>0, <1>5 DEF CloseSignal
  <2> QED
    BY <1>0, <1>2, <1>5, <2>1 DEF CloseSignal, TypeOK
<1>6. CASE CloseRecvChan(c)
  BY <1>0, <1>2, <1>6 DEF CloseRecvChan, TypeOK
<1>7. CASE CloseCommonChan(c)
  BY <1>0, <1>2, <1>7 DEF CloseCommonChan, TypeOK
<1>8. CASE CloseSessions(c)
  BY <1>0, <1>2, <1>8 DEF CloseSessions, TypeOK
<1> QED
  BY <1>1, <1>3, <1>4, <1>5, <1>6, <1>7, <1>8 DEF CloseStep

LEMMA OthersLife ==
    ASSUME LifeInv, UNCHANGED situation,
           \/ CheckTimeout \/ CheckReturns \/ UserClose \/ ConnectSignal \/ ConnectTimer
    PROVE  LifeInv'
<1> USE DEF LifeInv, At
<1>0. /\ pc \in [Procs -> Labels] /\ Procs = {"dispatch", "recv", "check", "user", "connect"}
      /\ {"close", "done", "idle"} \subseteq Labels
      /\ "close" \in CloseLabels /\ "idle" \notin CloseLabels
      /\ commonChan \in Nat /\ commonChan <= CommonCap /\ CommonCap \in Nat
  BY CapAssumption DEF TypeOK, Procs, Labels, CloseLabels
<1>1. ASSUME NEW p \in {"check", "connect"}, NEW label \in Labels, Goto(p, label),
             UNCHANGED <<connStat, hand, recvChan, recvClosed, commonClosed, session, lock,
                         arrivals, panic>>,
             commonChan' \in 0 .. CommonCap
      PROVE  LifeInv'
  <2>1. /\ pc' \in [Procs -> Labels] /\ pc'["dispatch"] = pc["dispatch"] /\ pc'["user"] = pc["user"]
    BY <1>0, <1>1, Moves
  <2> QED
    BY <1>1, <2>1 DEF TypeOK, Carried, LockInv
<1>2. CASE CheckTimeout \/ CheckReturns
  BY <1>0, <1>1, <1>2 DEF CheckTimeout, CheckReturns, TypeOK, chans
<1>3. CASE UserClose
  <2>1. /\ pc' \in [Procs -> Labels] /\ pc'["dispatch"] = pc["dispatch"] /\ pc'["user"] = "close"
    BY <1>0, <1>3, Moves DEF UserClose
  <2> QED
    BY <1>0, <1>3, <2>1 DEF UserClose, TypeOK, Carried, LockInv, chans
<1>4. CASE ConnectSignal
  <2>1. commonChan' \in 0 .. CommonCap
    BY <1>0, <1>4 DEF ConnectSignal
  <2> QED
    BY <1>0, <1>1, <1>4, <2>1 DEF ConnectSignal
<1>5. CASE ConnectTimer
  BY <1>0, <1>1, <1>5 DEF ConnectTimer, TypeOK, chans
<1> QED
  BY <1>2, <1>3, <1>4, <1>5

LEMMA RecvLife ==
    ASSUME LifeInv, UNCHANGED situation, Recv
    PROVE  LifeInv'
<1> USE DEF LifeInv, At
<1>0. /\ pc \in [Procs -> Labels] /\ Procs = {"dispatch", "recv", "check", "user", "connect"}
      /\ {"top", "wait", "handle", "create", "ack", "signalAck", "establish", "session",
          "close", "done"} \subseteq Labels
      /\ situation.kinds \subseteq Kinds
      /\ commonChan \in Nat /\ commonChan <= CommonCap /\ CommonCap \in Nat
  BY CapAssumption, SituationType DEF TypeOK, Procs, Labels, CloseLabels
<1>1. ASSUME NEW label \in Labels, Goto("recv", label),
             UNCHANGED <<hand, recvChan, recvClosed, commonClosed, lock, arrivals, panic>>,
             connStat' \in Stats, session' \in {session, "open"}, commonChan' \in 0 .. CommonCap
      PROVE  LifeInv'
  <2>1. /\ pc' \in [Procs -> Labels] /\ pc'["dispatch"] = pc["dispatch"] /\ pc'["user"] = pc["user"]
    BY <1>0, <1>1, Moves
  <2>2. TypeOK'
    BY <1>1, <2>1 DEF TypeOK
  <2>3. Carried' /\ LockInv'
    BY <1>1, <2>1 DEF Carried, LockInv
  <2> QED
    BY <2>2, <2>3
<1>2. CASE RecvLoop
  BY <1>0, <1>1, <1>2 DEF RecvLoop, TypeOK, chans
<1>3. CASE RecvTake
  <2>1. CASE recvChan # <<>>
    <3>1. /\ Head(recvChan) \in situation.kinds /\ Tail(recvChan) \in Seq(situation.kinds)
          /\ Tail(recvChan) \in Seq(Kinds) /\ Len(Tail(recvChan)) <= RecvCap
      <4>1. Head(recvChan) \in situation.kinds /\ Tail(recvChan) \in Seq(situation.kinds)
        BY <2>1, HeadTailProperties DEF Carried
      <4>2. Tail(recvChan) \in Seq(Kinds) /\ Len(Tail(recvChan)) = Len(recvChan) - 1
        BY <2>1, HeadTailProperties DEF TypeOK
      <4> QED
        BY <4>1, <4>2, LenProperties, CapAssumption DEF TypeOK
    <3>2. /\ pc' \in [Procs -> Labels] /\ pc'["dispatch"] = pc["dispatch"]
          /\ pc'["user"] = pc["user"]
      BY <1>0, <1>3, <2>1, Moves DEF RecvTake
    <3>3. /\ hand' \in [{"dispatch", "recv"} -> Kinds \union {"none"}]
          /\ hand'["recv"] \in situation.kinds /\ hand'["dispatch"] = hand["dispatch"]
      BY <1>0, <1>3, <2>1, <3>1 DEF RecvTake, TypeOK
    <3>4. TypeOK'
      BY <1>3, <2>1, <3>1, <3>2, <3>3 DEF RecvTake, TypeOK
    <3>5. Carried' /\ LockInv'
      BY <1>3, <2>1, <3>1, <3>2, <3>3 DEF RecvTake, Carried, LockInv
    <3> QED
      BY <3>4, <3>5
  <2>2. CASE recvChan = <<>>
    BY <1>0, <1>1, <1>3, <2>2 DEF RecvTake, TypeOK
  <2> QED
    BY <2>1, <2>2
<1>4. CASE RecvHandle
  <2>1. AfterTest(hand["recv"], connStat) \in Labels
    BY <1>0 DEF AfterTest
  <2> QED
    BY <1>1, <1>4, <2>1 DEF RecvHandle, TypeOK, chans
<1>5. CASE RecvCreate \/ RecvAck
  BY <1>0, <1>1, <1>5 DEF RecvCreate, RecvAck, TypeOK, Stats, chans
<1>6. CASE RecvSignalAck
  <2>1. CASE commonClosed
    BY <1>6, <2>1 DEF RecvSignalAck, TypeOK, Carried, LockInv, Reasons
  <2>2. CASE ~commonClosed
    <3>1. commonChan' \in 0 .. CommonCap
      BY <1>0, <1>6, <2>2 DEF RecvSignalAck
    <3> QED
      BY <1>0, <1>1, <1>6, <2>2, <3>1 DEF RecvSignalAck, TypeOK
  <2> QED
    BY <2>1, <2>2
<1>7. CASE RecvEstablish
  BY <1>0, <1>1, <1>7 DEF RecvEstablish, TypeOK, Stats, chans
<1>8. CASE RecvSession
  BY <1>0, <1>1, <1>8 DEF RecvSession, TypeOK, chans
<1> QED
  BY <1>2, <1>3, <1>4, <1>5, <1>6, <1>7, <1>8 DEF Recv

LEMMA NextLife == LifeInv /\ [Next]_vars => LifeInv'
<1>1. CASE UNCHANGED vars
  BY <1>1 DEF vars, chans, LifeInv, TypeOK, Carried, LockInv
<1>2. ASSUME LifeInv, Next PROVE LifeInv'
  BY <1>2, DispatchLife, CloseLife, OthersLife, RecvLife DEF Next, Step
<1> QED
  BY <1>1, <1>2

(* The variables keep their types (relay_connection.go): in particular      *)
(* neither channel ever holds more than it was made for, and every label    *)
(* is one that its goroutine has.                                           *)
THEOREM TypeCorrect == Spec => []TypeOK
<1>1. LifeInv => TypeOK
  BY DEF LifeInv
<1> QED
  BY <1>1, InitLife, NextLife, PTL DEF Spec

-----------------------------------------------------------------------------
(* The manager alone closes.                                                *)

LEMMA InitManaged == Init => ManagedInv
BY DEF Init, ManagedInv, ManagerAlone, AloneInv, UserClosed, CloseLabels, Procs

LEMMA DispatchAlone ==
    ASSUME LifeInv, AloneInv, ManagerAlone, UNCHANGED situation,
           (\E k \in situation.kinds : Dispatch(k)) \/ DispatchSend \/ DispatchPanics
    PROVE  AloneInv'
<1> USE DEF At
<1>0. /\ pc \in [Procs -> Labels] /\ {"dispatch", "user", "recv"} \subseteq Procs
      /\ {"send", "idle"} \subseteq Labels
  BY DEF LifeInv, TypeOK, Procs, Labels, CloseLabels
<1>1. CASE UNCHANGED <<connStat, recvClosed, commonClosed, panic>>
           /\ (Goto("dispatch", "idle") \/ UNCHANGED pc)
  <2>1. pc'["user"] = pc["user"] /\ pc'["recv"] = pc["recv"]
        /\ (pc'["dispatch"] = "idle" \/ pc'["dispatch"] = pc["dispatch"])
    BY <1>0, <1>1, Moves
  <2> QED
    BY <1>1, <2>1 DEF AloneInv, UserClosed
<1>2. ASSUME NEW k \in situation.kinds, Dispatch(k), connStat # "CLOSED"
      PROVE  AloneInv'
  <2>1. /\ pc'["user"] = pc["user"] /\ pc'["recv"] = pc["recv"]
    BY <1>0, <1>2, Moves DEF Dispatch
  <2>2. pc["user"] = "idle"
    BY <1>2 DEF LifeInv, LockInv, AloneInv, UserClosed, Dispatch
  <2> QED
    BY <1>2, <2>1, <2>2 DEF Dispatch, AloneInv, UserClosed, chans
<1>3. ~DispatchPanics
  BY DEF DispatchPanics, AloneInv, UserClosed
<1> QED
  BY <1>1, <1>2, <1>3 DEF Dispatch, DispatchSend, chans

LEMMA CloseAlone ==
    ASSUME LifeInv, AloneInv, UNCHANGED situation, CloseStep("user")
    PROVE  AloneInv'
<1> USE DEF At
<1>0. /\ pc \in [Procs -> Labels] /\ {"dispatch", "user", "recv"} \subseteq Procs
      /\ CloseLabels \union {"done"} \subseteq Labels
  BY DEF LifeInv, TypeOK, Procs, Labels, CloseLabels
<1>1. ~ClosePanics("user")
  BY DEF ClosePanics, AloneInv, UserClosed
<1>2. \A label \in CloseLabels \union {"done"} : Goto("user", label) =>
          /\ pc'["user"] = label /\ pc'["recv"] = pc["recv"] /\ pc'["dispatch"] = pc["dispatch"]
  BY <1>0, Moves
<1>3. pc["user"] \in CloseLabels => pc["dispatch"] # "send"
  BY DEF AloneInv, CloseLabels
<1> USE DEF AloneInv, UserClosed, CloseLabels, chans
<1>4. CASE CloseTest("user")
  BY <1>2, <1>3, <1>4 DEF CloseTest
<1>5. CASE CloseStat("user")
  BY <1>2, <1>3, <1>5 DEF CloseStat
<1>6. CASE CloseSignal("user")
  BY <1>2, <1>3, <1>6 DEF CloseSignal
<1>7. CASE CloseRecvChan("user")
  BY <1>2, <1>3, <1>7 DEF CloseRecvChan
<1>8. CASE CloseCommonChan("user")
  BY <1>2, <1>3, <1>8 DEF CloseCommonChan
<1>9. CASE CloseSessions("user")
  BY <1>2, <1>3, <1>9 DEF CloseSessions
<1> QED
  BY <1>1, <1>4, <1>5, <1>6, <1>7, <1>8, <1>9 DEF CloseStep

LEMMA RecvAlone ==
    ASSUME LifeInv, AloneInv, ManagerAlone, UNCHANGED situation, Recv
    PROVE  AloneInv'
<1> USE DEF At
<1>0. /\ pc \in [Procs -> Labels] /\ {"dispatch", "user", "recv"} \subseteq Procs
      /\ {"top", "wait", "handle", "session", "done"} \subseteq Labels
  BY DEF LifeInv, TypeOK, Procs, Labels, CloseLabels
<1>1. ASSUME NEW label \in {"top", "wait", "handle", "session", "done"}, Goto("recv", label),
             UNCHANGED <<connStat, recvClosed, commonClosed, panic>>
      PROVE  AloneInv'
  <2>1. /\ pc'["user"] = pc["user"] /\ pc'["recv"] = label
        /\ pc'["dispatch"] = pc["dispatch"]
    BY <1>0, <1>1, Moves
  <2> QED
    BY <1>1, <2>1 DEF AloneInv, UserClosed
<1>2. CASE RecvLoop \/ RecvTake \/ RecvSession
  BY <1>1, <1>2 DEF RecvLoop, RecvTake, RecvSession, chans
<1>3. CASE RecvHandle
  <2>1. hand["recv"] # "CREATE"
    BY DEF LifeInv, Carried, ManagerAlone
  <2>2. AfterTest(hand["recv"], connStat) \in {"top", "session"}
    BY <2>1 DEF AfterTest, AloneInv, ManagerAlone
  <2> QED
    BY <1>1, <1>3, <2>2 DEF RecvHandle, chans
<1>4. ~(RecvCreate \/ RecvAck \/ RecvSignalAck \/ RecvEstablish)
  BY DEF RecvCreate, RecvAck, RecvSignalAck, RecvEstablish, AloneInv
<1> QED
  BY <1>2, <1>3, <1>4 DEF Recv

LEMMA OthersAlone ==
    ASSUME LifeInv, AloneInv, ManagerAlone, UNCHANGED situation,
           \/ CheckTimeout \/ CheckReturns \/ UserClose \/ ConnectSignal \/ ConnectTimer
    PROVE  AloneInv'
<1> USE DEF At
<1>0. /\ pc \in [Procs -> Labels] /\ Procs = {"dispatch", "recv", "check", "user", "connect"}
      /\ {"close", "done"} \subseteq Labels
  BY DEF LifeInv, TypeOK, Procs, Labels, CloseLabels
<1>1. CASE CheckReturns \/ ConnectSignal \/ ConnectTimer
  <2>1. pc'["user"] = pc["user"] /\ pc'["recv"] = pc["recv"] /\ pc'["dispatch"] = pc["dispatch"]
    BY <1>0, <1>1, Moves DEF CheckReturns, ConnectSignal, ConnectTimer
  <2> QED
    BY <1>1, <2>1 DEF CheckReturns, ConnectSignal, ConnectTimer, AloneInv, UserClosed, chans
<1>2. CASE UserClose
  <2>1. pc'["user"] = "close" /\ pc'["recv"] = pc["recv"] /\ pc'["dispatch"] = pc["dispatch"]
    BY <1>0, <1>2, Moves DEF UserClose
  <2>2. pc["dispatch"] # "send"
    BY <1>2 DEF UserClose, LifeInv, LockInv
  <2> QED
    BY <1>2, <2>1, <2>2 DEF UserClose, AloneInv, UserClosed, CloseLabels, chans
<1>3. ~CheckTimeout
  BY DEF CheckTimeout, ManagerAlone
<1> QED
  BY <1>1, <1>2, <1>3

LEMMA NextManaged == LifeInv /\ ManagedInv /\ [Next]_vars => ManagedInv'
<1>1. CASE UNCHANGED vars
  BY <1>1 DEF vars, chans, ManagedInv, ManagerAlone, AloneInv, UserClosed
<1>2. ASSUME LifeInv, ManagedInv, Next, ManagerAlone' PROVE AloneInv'
  <2>1. UNCHANGED situation /\ ManagerAlone /\ AloneInv
    BY <1>2 DEF Next, ManagerAlone, ManagedInv
  <2>2. CASE \E c \in situation.closers : CloseStep(c)
    BY <1>2, <2>1, <2>2, CloseAlone DEF ManagerAlone
  <2> QED
    BY <1>2, <2>1, <2>2, DispatchAlone, RecvAlone, OthersAlone DEF Next, Step
<1> QED
  BY <1>1, <1>2 DEF ManagedInv

(* An established connection that only the manager closes and that no       *)
(* MSG_CREATE_CONN reaches brings nothing down, however many packets arrive *)
(* and whatever the channels hold: the manager's lock keeps recv_udp_proc's *)
(* send and the close apart (advanced_relay_server.go, Close and            *)
(* recv_udp_proc).                                                          *)
THEOREM SpecNoPanic == Spec => []NoPanic
<1>1. ManagedInv => NoPanic
  BY DEF ManagedInv, AloneInv, NoPanic
<1> QED
  BY <1>1, InitLife, NextLife, InitManaged, NextManaged, PTL DEF Spec
=============================================================================

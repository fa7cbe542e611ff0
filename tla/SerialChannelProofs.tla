------------------------- MODULE SerialChannelProofs -------------------------
(***************************************************************************)
(* What the replay filter guarantees for every width of the counter and    *)
(* every number of packets.                                                *)
(***************************************************************************)
EXTENDS SerialChannel, TLAPS

\* Below the wrap a packet's serial number is its ordinal, and the receiver
\* remembers the ordinal of the last packet it accepted.
IInv ==
    /\ TypeOK
    /\ BeforeWrap =>
         /\ sendPacketSN = Len(wire)
         /\ \A n \in DOMAIN wire : wire[n] = n
         /\ recvPacketSn = lastAccepted

LEMMA SmallModulus == \A a, m \in Nat : a < m => a % m = a
  OBVIOUS

LEMMA SumBelowWrap ==
    ASSUME TypeOK, BeforeWrap, NEW n \in DOMAIN wire
    PROVE  (n + ReorderSlack) % SNSpace = n + ReorderSlack
<1>1. n \in Nat /\ n <= Len(wire) /\ Len(wire) \in Nat
  BY DEF TypeOK
<1>2. n + ReorderSlack \in Nat /\ n + ReorderSlack < SNSpace
  BY <1>1, SNSpaceAssumption DEF BeforeWrap, ReorderSlack
<1> QED
  BY <1>2, SNSpaceAssumption, SmallModulus

(* The type invariant holds whatever the width: the counters stay serial   *)
(* numbers even when sendPacket wraps (sendPacket, recvPacketProc).        *)
THEOREM TypeCorrect == Spec => []TypeOK
<1>1. Init => TypeOK
  BY SNSpaceAssumption DEF Init, TypeOK, SerialNumbers
<1>2. TypeOK /\ [Next]_vars => TypeOK'
  <2> SUFFICES ASSUME TypeOK, [Next]_vars PROVE TypeOK'
    OBVIOUS
  <2>1. CASE SendPacket
    <3>1. sendPacketSN' \in SerialNumbers
      BY <2>1, SNSpaceAssumption DEF SendPacket, TypeOK, SerialNumbers, NextSN
    <3>2. wire' \in Seq(SerialNumbers) /\ DOMAIN wire \subseteq DOMAIN wire'
      BY <2>1, <3>1 DEF SendPacket, TypeOK
    <3> QED
      BY <2>1, <3>1, <3>2 DEF SendPacket, TypeOK
  <2>2. ASSUME NEW n \in DOMAIN wire, Accept(n) PROVE TypeOK'
    <3>1. wire[n] \in SerialNumbers
      BY DEF TypeOK
    <3> QED
      BY <2>2, <3>1 DEF Accept, TypeOK
  <2>3. CASE UNCHANGED vars
    BY <2>3 DEF vars, TypeOK
  <2> QED
    BY <2>1, <2>2, <2>3 DEF Next
<1> QED
  BY <1>1, <1>2, PTL DEF Spec

\* The inductive invariant.
LEMMA Inductive == Spec => []IInv
<1>1. Init => IInv
  BY SNSpaceAssumption DEF Init, IInv, TypeOK, SerialNumbers
<1>2. IInv /\ TypeOK' /\ [Next]_vars => IInv'
  <2> SUFFICES ASSUME IInv, TypeOK', [Next]_vars PROVE IInv'
    OBVIOUS
  <2> USE SNSpaceAssumption
  <2>1. CASE SendPacket
    <3> SUFFICES ASSUME BeforeWrap' PROVE IInv'
      BY DEF IInv
    <3>1. Len(wire') = Len(wire) + 1 /\ Len(wire) \in Nat
      BY <2>1 DEF SendPacket, TypeOK, IInv
    <3>2. BeforeWrap /\ Len(wire) + 1 < SNSpace
      BY <3>1 DEF BeforeWrap, ReorderSlack
    <3>3. sendPacketSN' = Len(wire) + 1
      <4>1. (Len(wire) + 1) % SNSpace = Len(wire) + 1
        BY <3>1, <3>2, SmallModulus
      <4> QED
        BY <2>1, <3>2, <4>1 DEF SendPacket, IInv, NextSN
    <3>4. \A n \in DOMAIN wire' : wire'[n] = n
      BY <2>1, <3>2, <3>3 DEF SendPacket, IInv, TypeOK
    <3> QED
      BY <2>1, <3>1, <3>2, <3>3, <3>4 DEF SendPacket, IInv
  <2>2. ASSUME NEW n \in DOMAIN wire, Accept(n) PROVE IInv'
    BY <2>2 DEF Accept, IInv, BeforeWrap
  <2>3. CASE UNCHANGED vars
    BY <2>3 DEF vars, IInv, TypeOK, BeforeWrap
  <2> QED
    BY <2>1, <2>2, <2>3 DEF Next
<1> QED
  BY <1>1, <1>2, TypeCorrect, PTL DEF Spec

(* How far the filter reaches, whatever the network did before: away from   *)
(* the wrap of the counter it discards a packet exactly when the packet is  *)
(* ReorderSlack or more older than the last one accepted, so that a repeat  *)
(* of that one and the four before it go through (recvPacketProc's serial   *)
(* number test).                                                            *)
THEOREM WindowIsExact == Spec => []FilterWindow
<1>1. IInv => FilterWindow
  <2> SUFFICES ASSUME IInv, BeforeWrap, NEW n \in DOMAIN wire
               PROVE  Replayed(recvPacketSn, wire[n]) <=> n + ReorderSlack <= lastAccepted
    BY DEF FilterWindow
  <2>1. wire[n] = n /\ recvPacketSn = lastAccepted
    BY DEF IInv
  <2>2. (n + ReorderSlack) % SNSpace = n + ReorderSlack
    BY SumBelowWrap DEF IInv
  <2>3. n \in Nat /\ lastAccepted \in Nat
    BY DEF IInv, TypeOK
  <2> QED
    BY <2>1, <2>2, <2>3 DEF Replayed, ReorderSlack
<1> QED
  BY <1>1, Inductive, PTL
=============================================================================

---------------------------- MODULE SerialChannel ----------------------------
(***************************************************************************)
(* One direction of a connection: sendPacket numbers the packets, the      *)
(* network loses, duplicates and reorders them, recvPacketProc filters     *)
(* them by serial number (udprelay/relay_connection.go).                   *)
(*                                                                         *)
(* A packet is known by its ordinal: wire[n] is the serial number of the   *)
(* n-th packet sent. The network may deliver any packet sent so far, any   *)
(* number of times, or never.                                              *)
(***************************************************************************)
EXTENDS SerialNumber, Sequences

CONSTANT MaxSend   \* bound: how many packets are sent

VARIABLES
    sendPacketSN,   \* the sender's counter
    wire,           \* the serial number of every packet sent so far
    recvPacketSn,   \* serial number of the last packet the receiver accepted
    lastAccepted    \* its ordinal, 0 before the first one

vars == <<sendPacketSN, wire, recvPacketSn, lastAccepted>>

TypeOK ==
    /\ sendPacketSN \in SerialNumbers
    /\ wire \in Seq(SerialNumbers)
    /\ recvPacketSn \in SerialNumbers
    /\ lastAccepted \in {0} \union DOMAIN wire

Init ==
    /\ sendPacketSN = 0
    /\ wire = <<>>
    /\ recvPacketSn = 0
    /\ lastAccepted = 0

SendPacket ==
    /\ Len(wire) < MaxSend
    /\ sendPacketSN' = NextSN(sendPacketSN)
    /\ wire' = Append(wire, sendPacketSN')
    /\ UNCHANGED <<recvPacketSn, lastAccepted>>

\* The filter discards any other packet without a trace.
Accept(n) ==
    /\ ~Replayed(recvPacketSn, wire[n])
    /\ recvPacketSn' = wire[n]
    /\ lastAccepted' = n
    /\ UNCHANGED <<sendPacketSN, wire>>

Next == SendPacket \/ \E n \in DOMAIN wire : Accept(n)

Spec == Init /\ [][Next]_vars

-----------------------------------------------------------------------------
\* recvPacketProc's sum does not wrap for any packet sent so far.
BeforeWrap == Len(wire) + ReorderSlack < SNSpace

(* The filter's window, which TLAPS proves: before the counter comes near   *)
(* its wrap a packet is taken for a replay exactly when it is at least      *)
(* ReorderSlack older than the last accepted one (recvPacketProc's serial   *)
(* number test). The last accepted packet itself, and those up to four      *)
(* older, are accepted again.                                               *)
FilterWindow ==
    BeforeWrap =>
        \A n \in DOMAIN wire :
            Replayed(recvPacketSn, wire[n]) <=> n + ReorderSlack <= lastAccepted

-----------------------------------------------------------------------------
(* What the documents say and the code does not do.                         *)

(* README.md:22: against replays, a packet whose number is smaller than the *)
(* last one is dropped. The filter accepts it when it is up to four older.  *)
SmallerDropped ==
    [][\A n \in DOMAIN wire : Accept(n) => n >= lastAccepted]_vars

(* The converse, that a newer packet is never dropped, is false near the    *)
(* wrap of the counter.                                                     *)
NewerNeverDropped ==
    \A n \in DOMAIN wire : Replayed(recvPacketSn, wire[n]) => n <= lastAccepted
=============================================================================

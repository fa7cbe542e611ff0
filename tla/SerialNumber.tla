---------------------------- MODULE SerialNumber ----------------------------
(***************************************************************************)
(* The packet serial number of an AdvancedRelayConn and its replay filter  *)
(* (udprelay/relay_connection.go).                                         *)
(*                                                                         *)
(* sendPacketSN and recvPacketSn are uint32 in the program: the arithmetic *)
(* wraps at SNSpace, which is 2^32 there and a parameter here.             *)
(***************************************************************************)
EXTENDS Integers

CONSTANT SNSpace   \* how many serial numbers there are before they wrap

ASSUME SNSpaceAssumption == SNSpace \in Nat /\ SNSpace > 5

SerialNumbers == 0 .. (SNSpace - 1)

\* The slack the receiver leaves for packets that the network reordered.
ReorderSlack == 5

\* sendPacket: this.sendPacketSN = this.sendPacketSN + 1
NextSN(sn) == (sn + 1) % SNSpace

\* recvPacketProc: a packet numbered sn is taken for a replay when the last
\* accepted one was numbered recvSn. The sum wraps, as uint32 does.
Replayed(recvSn, sn) == recvSn >= (sn + ReorderSlack) % SNSpace
=============================================================================

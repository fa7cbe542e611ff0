------------------------ MODULE RelayHandshakeProofs ------------------------
(***************************************************************************)
(* The handshake's safety on any network, for any number of attempts,      *)
(* whatever the serial numbers do and whoever closes; then, with the order *)
(* of packets and the replay filter, that the server never returns to a    *)
(* key older than the acknowledged one.                                    *)
(***************************************************************************)
EXTENDS RelayHandshake, FiniteSetTheorems, TLAPS

\* The client's handler has an acknowledgement that it could open, or nothing.
Opened == inHand = NoKey \/ ackedKey \in adopted

\* Where the client is, and what that says of the rest.
ClientInv ==
    LET stat == connStat["client"]
        recv == recvPc["client"]
    IN  /\ stat \in {"INIT", "WAIT_ACK", "ESTABLISHED", "CLOSED"}
        /\ recv \in {"wait", "done", "unpack", "establish", "signal", "confirm"}
        /\ stat \in {"INIT", "WAIT_ACK"} => inUse = NoKey
        /\ stat = "ESTABLISHED" =>
             /\ inUse # NoKey
             /\ \/ ackedKey \in adopted
                \/ recv \in {"signal", "confirm"} /\ inHand = NoKey
        /\ connectPc["client"] = "start" =>
             /\ stat \in {"INIT", "CLOSED"}
             /\ recv \in {"wait", "done"}
             /\ inUse = NoKey /\ ackedKey = NoKey
        /\ recv = "wait" /\ stat = "WAIT_ACK" => ackedKey = NoKey
        /\ recv = "unpack" =>
             /\ stat \in {"WAIT_ACK", "CLOSED"}
             /\ inHand \in adopted
             /\ inUse = NoKey /\ ackedKey = NoKey
        /\ recv = "establish" =>
             /\ stat \in {"WAIT_ACK", "CLOSED"}
             /\ adopted # {} /\ Opened
             /\ inUse = NoKey
        /\ recv \in {"signal", "confirm"} =>
             /\ stat \in {"ESTABLISHED", "CLOSED"}
             /\ Opened
             /\ inUse # NoKey
        /\ readerPc["client"] # "off" => inUse # NoKey

\* The server counts its connection as established, or is about to.
ServerRises == connStat["server"] = "ESTABLISHED" \/ recvPc["server"] \in {"ping", "data"}

ServerInv ==
    /\ connStat["server"] \in {"INIT", "WAIT_CONN", "READY", "ESTABLISHED", "CLOSED"}
    /\ recvPc["server"] \in {"wait", "done", "ready", "sendAck", "ping", "data"}
    /\ ServerRises => inUse # NoKey
    /\ recvPc["server"] \in {"ready", "sendAck"} => newPasswd["server"] # NoKey

\* Keys move from unused to pushed to adopted to acknowledged.
KeyInv ==
    /\ adopted \cap unused = {}
    /\ NoKey \notin adopted
    /\ ackedKey \in adopted \union {NoKey}
    /\ newPasswd["client"] \notin unused
    /\ cryptNew["client"] \notin unused
    /\ connectPc["client"] # "start" => cryptNew["client"] # NoKey
    /\ cryptNew["server"] = newPasswd["server"]
    /\ newPasswd["server"] \in adopted \union {NoKey}

\* No packet has pushed k yet.
Unpushed(k) == \A p \in network : p.type = "CREATE" => p.new # k

\* While a retry is under way its key is new to everybody else.
RetryInv ==
    /\ connectPc["client"] # "send"
    /\ connectPc["client"] # "drawn" => cryptNew["client"] = newPasswd["client"]
    /\ connectPc["client"] \in {"drawn", "set"} =>
         /\ newPasswd["client"] \in Keys \ adopted
         /\ Unpushed(newPasswd["client"])

\* What the packets in the network testify.
PacketInv ==
    \A p \in network :
        /\ p.type = "CREATE" => p.new \in Keys \ unused
        /\ p.type = "ACK" => p.seal \in adopted
        /\ p.to = "server" /\ p.type \in {"PING", "DATA"} =>
             /\ inUse # NoKey
             /\ p.key = Orig => connStat["client"] = "CLOSED"

\* A key that only travels under itself: the server cannot learn it.
Stray(k) ==
    /\ k \notin adopted
    /\ \A p \in network : p.type = "CREATE" /\ p.new = k => p.key = k

\* Once the client was established, until it closes, every other key it holds
\* or used is a stray one.
SettledInv ==
    inUse # NoKey /\ connStat["client"] # "CLOSED" =>
        /\ newPasswd["client"] = inUse \/ Stray(newPasswd["client"])
        /\ cryptNew["client"] = inUse \/ Stray(cryptNew["client"])
        /\ \A p \in network :
             p.to = "server" /\ p.type \in {"PING", "DATA"} =>
                 p.key = inUse \/ Stray(p.key)
        /\ ServerRises => newPasswd["server"] = inUse

IInv ==
    /\ TypeOK
    /\ ClientInv /\ ServerInv
    /\ KeyInv /\ RetryInv
    /\ PacketInv /\ SettledInv

-----------------------------------------------------------------------------
(* Types.                                                                   *)

LEMMA NextSNType == \A sn \in SerialNumbers : NextSN(sn) \in SerialNumbers
  BY SNSpaceAssumption DEF SerialNumbers, NextSN

LEMMA PeerType == \A e \in Ends : Peer(e) \in Ends
  BY DEF Ends, Peer

LEMMA SendKeyType == TypeOK => \A e \in Ends : SendKey(e) \in AnyKey
  BY DEF TypeOK, SendKey, AnyKey

LEMMA SendSealedType ==
  ASSUME TypeOK, NEW e \in Ends, NEW type \in Types, NEW key \in AnyKey,
         NEW seal \in AnyKey, NEW new \in Keys \union {NoKey},
         SendSealed(e, type, key, seal, new)
  PROVE  /\ sendPacketSN' \in [Ends -> SerialNumbers]
         /\ network' \subseteq Packets
<1>1. NextSN(sendPacketSN[e]) \in SerialNumbers
  BY NextSNType DEF TypeOK
<1>2. Peer(e) \in Ends
  BY PeerType
<1>3. [to |-> Peer(e), type |-> type, key |-> key, sn |-> NextSN(sendPacketSN[e]),
       seal |-> seal, new |-> new] \in Packets
  BY <1>1, <1>2 DEF Packets
<1> QED
  BY <1>1, <1>3 DEF SendSealed, TypeOK

LEMMA SendPacketType ==
  ASSUME TypeOK, NEW e \in Ends, NEW type \in Types, SendPacket(e, type)
  PROVE  /\ sendPacketSN' \in [Ends -> SerialNumbers]
         /\ network' \subseteq Packets
<1>1. SendKey(e) \in AnyKey /\ NoKey \in AnyKey
  BY SendKeyType DEF AnyKey
<1> QED
  BY <1>1, SendSealedType DEF SendPacket

LEMMA SendClosesType ==
  ASSUME TypeOK, NEW e \in Ends, SendCloses(e)
  PROVE  /\ sendPacketSN' \in [Ends -> SerialNumbers]
         /\ network' \subseteq Packets
<1> DEFINE sn(i) == (sendPacketSN[e] + i) % SNSpace
           closing(i) == [to |-> Peer(e), type |-> "CLOSE", key |-> SendKey(e),
                          sn |-> sn(i), seal |-> NoKey, new |-> NoKey]
<1>1. sendPacketSN[e] \in Nat
  BY SNSpaceAssumption DEF TypeOK, SerialNumbers
<1>2. \A i \in Nat : sn(i) \in SerialNumbers
  BY <1>1, SNSpaceAssumption DEF SerialNumbers
<1>3. /\ sendPacketSN' = [sendPacketSN EXCEPT ![e] = sn(Copies)]
      /\ network' = network \union {closing(i) : i \in 1 .. Copies}
  BY DEF SendCloses
<1>4. Copies \in Nat /\ \A i \in 1 .. Copies : i \in Nat
  BY ClosingAssumption
<1> HIDE DEF sn
<1>5. \A i \in 1 .. Copies : closing(i) \in Packets
  BY <1>2, <1>4, PeerType, SendKeyType DEF Packets, Types, AnyKey
<1> HIDE DEF closing
<1> QED
  BY <1>2, <1>3, <1>4, <1>5 DEF TypeOK

\* Taking a packet keeps the receiver's counters serial numbers.
LEMMA ReceiveType ==
  ASSUME TypeOK, NEW e \in Ends, NEW p \in network
  PROVE  /\ Arrive(e, p) => arrived' \in [Ends -> SerialNumbers]
         /\ \A type : Receives(e, p, type) =>
              /\ arrived' \in [Ends -> SerialNumbers]
              /\ recvPacketSn' \in [Ends -> SerialNumbers]
<1>1. p.sn \in SerialNumbers
  BY DEF TypeOK, Packets
<1> QED
  BY <1>1 DEF TypeOK, Receives, Takes, Arrive

LEMMA CloseType ==
  ASSUME TypeOK, NEW e \in Ends, CloseWithoutSendMSG(e)
  PROVE  /\ connStat' \in [Ends -> Stats]
         /\ signalled' \in [Ends -> BOOLEAN]
         /\ closePc' \in [Ends -> {"open", "said", "marked", "closed"}]
         /\ queued' \in [Ends -> SUBSET Packets]
<1>1. {p \in network : p.to = e} \subseteq Packets
  BY DEF TypeOK
<1> QED
  BY <1>1 DEF TypeOK, CloseWithoutSendMSG, Stats

LEMMA TypeInit == Init => TypeOK
<1>1. 0 \in SerialNumbers
  BY SNSpaceAssumption DEF SerialNumbers
<1> SUFFICES ASSUME Init PROVE TypeOK
  OBVIOUS
<1>2. /\ connStat \in [Ends -> Stats]
      /\ connectPc \in [Ends -> {"start", "send", "select", "drawn", "set", "done"}]
      /\ recvPc \in [Ends -> RecvLabels]
      /\ readerPc \in [Ends -> {"off", "read", "got"}]
      /\ closePc \in [Ends -> {"open", "said", "marked", "closed"}]
      /\ queued \in [Ends -> SUBSET Packets]
      /\ fault \in [Ends -> {"none", "nilAckInfo", "sendOnClosedChan"}]
      /\ signalled \in [Ends -> BOOLEAN]
  BY DEF Init, Stats, RecvLabels
<1>3. /\ sendPacketSN \in [Ends -> SerialNumbers]
      /\ recvPacketSn \in [Ends -> SerialNumbers]
      /\ arrived \in [Ends -> SerialNumbers]
  BY <1>1 DEF Init
<1>4. /\ password \in [Ends -> {Orig, NoKey}]
      /\ newPasswd \in [Ends -> Keys \union {NoKey}]
      /\ cryptNew \in [Ends -> Keys \union {NoKey}]
      /\ cryptInstance \in [Ends -> {Orig, NoKey}]
  BY DEF Init
<1> QED
  BY <1>2, <1>3, <1>4 DEF Init, TypeOK, AnyKey

LEMMA HandleType ==
  ASSUME TypeOK, NEW e \in Ends, Handle(e) PROVE TypeOK'
<1> USE DEF keyVars, pcVars, closeVars, wireVars, recvVars, history
<1>ends. "client" \in Ends /\ "server" \in Ends
  BY DEF Ends
<1>keys. /\ \A d \in Ends : newPasswd[d] \in Keys \union {NoKey} /\ newPasswd[d] \in AnyKey
         /\ NoKey \in AnyKey /\ Keys \subseteq AnyKey
  BY DEF TypeOK, AnyKey
<1>types. Types = {"REQ", "CREATE", "ACK", "CLOSE", "DATA", "PING"}
  BY DEF Types
<1>labels. RecvLabels = {"wait", "done", "unpack", "establish", "signal", "confirm",
                         "ready", "sendAck", "ping", "data"}
  BY DEF RecvLabels
<1>1. CASE AckUnpack
  <2>1. recvPc' \in [Ends -> RecvLabels]
    BY <1>1, <1>labels DEF AckUnpack, RecvGoto, TypeOK
  <2>2. /\ inHand' \in AnyKey /\ ackedKey' \in Keys \union {NoKey}
        /\ older' \subseteq Keys
    BY <1>1, <1>ends, <1>keys DEF AckUnpack, TypeOK
  <2> QED
    BY <1>1, <2>1, <2>2 DEF AckUnpack, TypeOK
<1>2. CASE AckEstablish
  <2>1. recvPc' \in [Ends -> RecvLabels] /\ connStat' \in [Ends -> Stats]
    BY <1>2, <1>labels DEF AckEstablish, RecvGoto, TypeOK, Stats
  <2>2. inUse' \in Keys \union {NoKey}
    BY <1>2, <1>ends DEF AckEstablish, TypeOK
  <2> QED
    BY <1>2, <2>1, <2>2 DEF AckEstablish, TypeOK
<1>3. CASE AckSignal
  <2>1. recvPc' \in [Ends -> RecvLabels] /\ signalled' \in [Ends -> BOOLEAN]
    BY <1>3, <1>labels DEF AckSignal, RecvGoto, TypeOK
  <2> QED
    BY <1>3, <2>1 DEF AckSignal, TypeOK
<1>4. CASE AckPanics
  <2>1. fault' \in [Ends -> {"none", "nilAckInfo", "sendOnClosedChan"}]
    BY <1>4 DEF AckPanics, TypeOK
  <2> QED
    BY <1>4, <2>1 DEF AckPanics, TypeOK
<1>5. CASE AckConfirm
  <2>1. sendPacketSN' \in [Ends -> SerialNumbers] /\ network' \subseteq Packets
    BY <1>5, <1>ends, <1>types, SendPacketType DEF AckConfirm
  <2>2. recvPc' \in [Ends -> RecvLabels]
    BY <1>5, <1>labels DEF AckConfirm, RecvLoop, RecvGoto, TypeOK
  <2> QED
    BY <1>5, <2>1, <2>2 DEF AckConfirm, InvalidOriginalPasswd, TypeOK
<1>6. CASE CreateReady
  <2>1. recvPc' \in [Ends -> RecvLabels] /\ connStat' \in [Ends -> Stats]
    BY <1>6, <1>labels DEF CreateReady, RecvGoto, TypeOK, Stats
  <2> QED
    BY <1>6, <2>1 DEF CreateReady, TypeOK
<1>7. CASE CreateAck
  <2>1. sendPacketSN' \in [Ends -> SerialNumbers] /\ network' \subseteq Packets
    <3>1. CASE SendSealed("server", "ACK", SendKey("server"), newPasswd["server"], NoKey)
      BY <3>1, <1>ends, <1>keys, <1>types, SendSealedType, SendKeyType
    <3>2. CASE UNCHANGED wireVars
      BY <3>2 DEF TypeOK
    <3> QED
      BY <1>7, <3>1, <3>2 DEF CreateAck
  <2>2. recvPc' \in [Ends -> RecvLabels]
    BY <1>7, <1>labels DEF CreateAck, RecvLoop, RecvGoto, TypeOK
  <2> QED
    BY <1>7, <2>1, <2>2 DEF CreateAck, TypeOK
<1>8. CASE PingEstablish
  <2>1. recvPc' \in [Ends -> RecvLabels] /\ connStat' \in [Ends -> Stats]
    BY <1>8, <1>labels DEF PingEstablish, RecvGoto, TypeOK, Stats
  <2> QED
    BY <1>8, <2>1 DEF PingEstablish, TypeOK
<1>9. CASE DataEstablish
  <2>1. recvPc' \in [Ends -> RecvLabels] /\ connStat' \in [Ends -> Stats]
    BY <1>9, <1>labels DEF DataEstablish, RecvGoto, TypeOK, Stats
  <2>2. /\ password' \in [Ends -> {Orig, NoKey}]
        /\ cryptInstance' \in [Ends -> {Orig, NoKey}]
    BY <1>9 DEF DataEstablish, InvalidOriginalPasswd, TypeOK
  <2>3. readerPc' \in [Ends -> {"off", "read", "got"}]
    BY <1>9 DEF DataEstablish, OpensSession, TypeOK
  <2> QED
    BY <1>9, <2>1, <2>2, <2>3 DEF DataEstablish, TypeOK
<1>10. CASE RecvEnds(e)
  <2>1. recvPc' \in [Ends -> RecvLabels]
    BY <1>10, <1>labels DEF RecvEnds, RecvGoto, TypeOK
  <2> QED
    BY <1>10, <2>1 DEF RecvEnds, TypeOK
<1> QED
  BY <1>1, <1>2, <1>3, <1>4, <1>5, <1>6, <1>7, <1>8, <1>9, <1>10 DEF Handle

LEMMA ReceptionType ==
  ASSUME TypeOK, NEW e \in Ends, NEW p \in network, Receive(e, p) PROVE TypeOK'
<1> USE DEF keyVars, pcVars, closeVars, wireVars, recvVars, history
<1>ends. "client" \in Ends /\ "server" \in Ends
  BY DEF Ends
<1>labels. RecvLabels = {"wait", "done", "unpack", "establish", "signal", "confirm",
                         "ready", "sendAck", "ping", "data"}
  BY DEF RecvLabels
<1>p. /\ p.seal \in AnyKey /\ p.new \in Keys \union {NoKey}
  BY DEF TypeOK, Packets
<1>1. CASE Drop(e, p)
  <2>1. recvPc' \in [Ends -> RecvLabels]
    BY <1>1, <1>labels DEF Drop, RecvLoop, RecvGoto, TypeOK
  <2> QED
    BY <1>1, <2>1, ReceiveType DEF Drop, Takes, TypeOK
<1>2. CASE RecvCreate(p)
  <2>1. /\ arrived' \in [Ends -> SerialNumbers]
        /\ recvPacketSn' \in [Ends -> SerialNumbers]
    BY <1>2, <1>ends, ReceiveType DEF RecvCreate
  <2>2. recvPc' \in [Ends -> RecvLabels]
    BY <1>2, <1>labels DEF RecvCreate, RecvGoto, TypeOK
  <2> QED
    BY <1>2, <1>p, <2>1, <2>2 DEF RecvCreate, TypeOK
<1>3. CASE RecvAck(p)
  <2>1. recvPc' \in [Ends -> RecvLabels]
    BY <1>3, <1>labels DEF RecvAck, RecvGoto, TypeOK
  <2> QED
    BY <1>3, <1>p, <1>ends, <2>1, ReceiveType DEF RecvAck, TypeOK
<1>4. CASE RecvPing(p)
  <2>1. recvPc' \in [Ends -> RecvLabels]
    BY <1>4, <1>labels DEF RecvPing, RecvGoto, TypeOK
  <2> QED
    BY <1>4, <1>ends, <2>1, ReceiveType DEF RecvPing, TypeOK
<1>5. CASE RecvData(p)
  <2>1. recvPc' \in [Ends -> RecvLabels]
    BY <1>5, <1>labels DEF RecvData, RecvGoto, TypeOK
  <2>2. /\ arrived' \in [Ends -> SerialNumbers]
        /\ recvPacketSn' \in [Ends -> SerialNumbers]
    BY <1>5, <1>ends, ReceiveType DEF RecvData
  <2>3. readerPc' \in [Ends -> {"off", "read", "got"}]
    BY <1>5 DEF RecvData, OpensSession, TypeOK
  <2> QED
    BY <1>5, <2>1, <2>2, <2>3 DEF RecvData, TypeOK
<1>6. CASE RecvClose(e, p)
  <2>1. /\ arrived' \in [Ends -> SerialNumbers]
        /\ recvPacketSn' \in [Ends -> SerialNumbers]
    BY <1>6, ReceiveType DEF RecvClose
  <2>2. CASE CloseWithoutSendMSG(e) /\ RecvGoto(e, "done") /\ UNCHANGED fault
    <3>1. recvPc' \in [Ends -> RecvLabels]
      BY <2>2, <1>labels DEF RecvGoto, TypeOK
    <3> QED
      BY <1>6, <2>1, <2>2, <3>1, CloseType DEF RecvClose, TypeOK
  <2>3. CASE /\ fault' = [fault EXCEPT ![e] = "sendOnClosedChan"]
             /\ UNCHANGED <<connStat, signalled, closeVars, recvPc>>
    BY <1>6, <2>1, <2>3 DEF RecvClose, TypeOK
  <2> QED
    BY <1>6, <2>2, <2>3 DEF RecvClose
<1>7. CASE RecvIgnored(e, p)
  <2>1. recvPc' \in [Ends -> RecvLabels]
    BY <1>7, <1>labels DEF RecvIgnored, RecvLoop, RecvGoto, TypeOK
  <2> QED
    BY <1>7, <2>1, ReceiveType DEF RecvIgnored, TypeOK
<1> QED
  BY <1>1, <1>2, <1>3, <1>4, <1>5, <1>6, <1>7 DEF Receive

(* Every variable keeps its type, whatever the network and the bounds.      *)
THEOREM TypeCorrect == Spec => []TypeOK
<1>1. Init => TypeOK
  BY TypeInit
<1>2. TypeOK /\ [Next]_vars => TypeOK'
  <2> SUFFICES ASSUME TypeOK, [Next]_vars PROVE TypeOK'
    OBVIOUS
  <2> USE DEF keyVars, pcVars, closeVars, wireVars, recvVars, history
  <2>ends. "client" \in Ends /\ "server" \in Ends
    BY DEF Ends
  <2>keys. /\ \A e \in Ends : /\ password[e] \in AnyKey
                              /\ newPasswd[e] \in Keys \union {NoKey}
                              /\ cryptInstance[e] \in AnyKey
           /\ NoKey \in AnyKey /\ Keys \subseteq AnyKey
    BY DEF TypeOK, AnyKey
  <2>types. Types = {"REQ", "CREATE", "ACK", "CLOSE", "DATA", "PING"}
    BY DEF Types
  <2>1. ASSUME NEW k \in Keys, Connect(k) PROVE TypeOK'
    <3>1. sendPacketSN' \in [Ends -> SerialNumbers] /\ network' \subseteq Packets
      BY <2>1, <2>ends, <2>keys, <2>types, SendSealedType DEF Connect
    <3> QED
      BY <2>1, <3>1 DEF Connect, TypeOK, Stats
  <2>2. ASSUME NEW k \in Keys, TimerDraw(k) PROVE TypeOK'
    BY <2>2 DEF TimerDraw, TypeOK
  <2>3. CASE TimerSetPassword
    BY <2>3, <2>ends DEF TimerSetPassword, TypeOK
  <2>4. CASE TimerResend
    <3>1. sendPacketSN' \in [Ends -> SerialNumbers] /\ network' \subseteq Packets
      BY <2>4, <2>ends, <2>keys, <2>types, SendSealedType, SendKeyType
      DEF TimerResend
    <3> QED
      BY <2>4, <3>1 DEF TimerResend, TypeOK
  <2>5. CASE RequestConnect
    BY <2>5 DEF RequestConnect, TypeOK, Stats
  <2>6. CASE RequestSend
    <3>1. sendPacketSN' \in [Ends -> SerialNumbers] /\ network' \subseteq Packets
      BY <2>6, <2>ends, <2>types, SendPacketType DEF RequestSend
    <3> QED
      BY <2>6, <3>1 DEF RequestSend, TypeOK
  <2>7. CASE ReaderStart
    BY <2>7 DEF ReaderStart, TypeOK
  <2>8. ASSUME NEW e \in Ends, SelectDone(e) PROVE TypeOK'
    BY <2>8 DEF SelectDone, TypeOK
  <2>9. ASSUME NEW e \in Ends, Ping(e) PROVE TypeOK'
    <3>1. sendPacketSN' \in [Ends -> SerialNumbers] /\ network' \subseteq Packets
      BY <2>9, <2>types, SendPacketType DEF Ping
    <3> QED
      BY <2>9, <3>1 DEF Ping, TypeOK
  <2>10. ASSUME NEW e \in Ends, Close(e) PROVE TypeOK'
    <3>1. sendPacketSN' \in [Ends -> SerialNumbers] /\ network' \subseteq Packets
      BY <2>10, SendClosesType DEF Close
    <3>2. /\ closePc' \in [Ends -> {"open", "said", "marked", "closed"}]
          /\ fault' \in [Ends -> {"none", "nilAckInfo", "sendOnClosedChan"}]
      BY <2>10 DEF Close, TypeOK
    <3> QED
      BY <2>10, <3>1, <3>2 DEF Close, TypeOK
  <2>11. ASSUME NEW e \in Ends, CloseMark(e) PROVE TypeOK'
    BY <2>11, CloseType DEF CloseMark, TypeOK
  <2>12. ASSUME NEW e \in Ends, CloseChannels(e) PROVE TypeOK'
    <3>1. {p \in network : p.to = e} \subseteq Packets
      BY DEF TypeOK
    <3>2. /\ closePc' \in [Ends -> {"open", "said", "marked", "closed"}]
          /\ queued' \in [Ends -> SUBSET Packets]
      BY <2>12, <3>1 DEF CloseChannels, TypeOK
    <3>3. readerPc' \in [Ends -> {"off", "read", "got"}]
      BY <2>12 DEF CloseChannels, TypeOK
    <3> QED
      BY <2>12, <3>2, <3>3 DEF CloseChannels, TypeOK
  <2>13. ASSUME NEW e \in Ends, ReaderRead(e) PROVE TypeOK'
    BY <2>13 DEF ReaderRead, TypeOK
  <2>14. ASSUME NEW e \in Ends, ReaderSend(e) PROVE TypeOK'
    <3>1. sendPacketSN' \in [Ends -> SerialNumbers] /\ network' \subseteq Packets
      BY <2>14, <2>types, SendPacketType DEF ReaderSend
    <3> QED
      BY <2>14, <3>1 DEF ReaderSend, TypeOK
  <2>15. ASSUME NEW e \in Ends, NEW p \in network, DispatchPanics(e, p) PROVE TypeOK'
    <3>1. /\ fault' \in [Ends -> {"none", "nilAckInfo", "sendOnClosedChan"}]
          /\ arrived' \in [Ends -> SerialNumbers]
      BY <2>15, ReceiveType DEF DispatchPanics, TypeOK
    <3> QED
      BY <2>15, <3>1 DEF DispatchPanics, TypeOK
  <2>16. CASE UNCHANGED vars
    BY <2>16 DEF vars, TypeOK
  <2> QED
    BY <2>1, <2>2, <2>3, <2>4, <2>5, <2>6, <2>7, <2>8, <2>9, <2>10, <2>11, <2>12,
       <2>13, <2>14, <2>15, <2>16, HandleType, ReceptionType DEF Next, Retry
<1> QED
  BY <1>1, <1>2, PTL DEF Spec

-----------------------------------------------------------------------------
(* The inductive invariant.                                                 *)

LEMMA InitInv == Init => IInv
  BY TypeInit, KeysAssumption
  DEF Init, IInv, ClientInv, ServerInv, ServerRises, KeyInv, RetryInv, Unpushed,
      PacketInv, SettledInv, Ends

\* The network hands a packet only to the end it was sent to.
LEMMA DeliverableTo ==
  ASSUME NEW e, NEW p, Deliverable(e, p) PROVE p \in network /\ p.to = e
  BY NetworkAssumption DEF Deliverable, Pending

\* Closing says nothing but CLOSE.
LEMMA ClosesSent ==
  ASSUME NEW e, SendCloses(e)
  PROVE  /\ \A p \in network' : p \in network \/ p.type = "CLOSE"
         /\ network \subseteq network'
  BY DEF SendCloses

LEMMA HandleInv ==
  ASSUME IInv, TypeOK', NEW e \in Ends, Handle(e) PROVE IInv'
<1> USE DEF keyVars, pcVars, closeVars, wireVars, recvVars, history
<1>ends. "client" \in Ends /\ "server" \in Ends /\ "client" # "server"
  BY DEF Ends
<1>1. CASE AckUnpack
  <2>1. ClientInv'
    BY <1>1, <1>ends
    DEF IInv, TypeOK, AckUnpack, RecvAt, RecvGoto, ClientInv, Opened, KeyInv,
        RetryInv
  <2>2. ServerInv'
    BY <1>1, <1>ends
    DEF IInv, TypeOK, AckUnpack, RecvAt, RecvGoto, ServerInv, ServerRises
  <2>3. KeyInv'
    BY <1>1, <1>ends
    DEF IInv, TypeOK, AckUnpack, RecvAt, RecvGoto, KeyInv, ClientInv
  <2>4. RetryInv'
    BY <1>1, <1>ends
    DEF IInv, TypeOK, AckUnpack, RecvAt, RecvGoto, RetryInv, Unpushed
  <2>5. PacketInv'
    BY <1>1, <1>ends
    DEF IInv, TypeOK, AckUnpack, RecvAt, RecvGoto, PacketInv
  <2>6. SettledInv'
    BY <1>1, <1>ends
    DEF IInv, TypeOK, AckUnpack, RecvAt, RecvGoto, SettledInv, Stray,
        ServerRises, ClientInv
  <2> QED
    BY <1>1, <2>1, <2>2, <2>3, <2>4, <2>5, <2>6 DEF IInv
<1>2. CASE AckEstablish
  <2>1. ClientInv'
    BY <1>2, <1>ends
    DEF IInv, TypeOK, AckEstablish, RecvAt, RecvGoto, ClientInv, Opened,
        KeyInv
  <2>2. ServerInv'
    BY <1>2, <1>ends
    DEF IInv, TypeOK, AckEstablish, RecvAt, RecvGoto, ServerInv, ServerRises,
        KeyInv, ClientInv
  <2>3. KeyInv'
    BY <1>2, <1>ends
    DEF IInv, TypeOK, AckEstablish, RecvAt, RecvGoto, KeyInv
  <2>4. RetryInv'
    BY <1>2, <1>ends
    DEF IInv, TypeOK, AckEstablish, RecvAt, RecvGoto, RetryInv, Unpushed
  <2>5. PacketInv'
    BY <1>2, <1>ends
    DEF IInv, TypeOK, AckEstablish, RecvAt, RecvGoto, PacketInv, ClientInv
  <2>6. SettledInv'
    BY <1>2, <1>ends
    DEF IInv, TypeOK, AckEstablish, RecvAt, RecvGoto, SettledInv, Stray,
        ServerRises, ClientInv, ServerInv, KeyInv, RetryInv, Unpushed,
        PacketInv
  <2> QED
    BY <1>2, <2>1, <2>2, <2>3, <2>4, <2>5, <2>6 DEF IInv
<1>3. CASE AckSignal
  BY <1>3, <1>ends
  DEF AckSignal, RecvAt, RecvGoto, IInv, TypeOK, ClientInv, Opened, ServerInv,
      ServerRises, KeyInv, RetryInv, Unpushed, PacketInv, SettledInv, Stray
<1>4. CASE AckPanics
  BY <1>4, <1>ends
  DEF AckPanics, RecvAt, IInv, TypeOK, ClientInv, Opened, ServerInv,
      ServerRises, KeyInv, RetryInv, Unpushed, PacketInv, SettledInv, Stray
<1>5. CASE AckConfirm
  <2>1. ClientInv'
    BY <1>5, <1>ends
    DEF IInv, TypeOK, AckConfirm, InvalidOriginalPasswd, SendPacket,
        SendSealed, SendKey, Peer, RecvAt, RecvLoop, RecvGoto, ClientInv,
        Opened
  <2>2. ServerInv'
    BY <1>5, <1>ends
    DEF IInv, TypeOK, AckConfirm, InvalidOriginalPasswd, SendPacket,
        SendSealed, SendKey, Peer, RecvAt, RecvLoop, RecvGoto, ServerInv,
        ServerRises
  <2>3. KeyInv'
    BY <1>5, <1>ends
    DEF IInv, TypeOK, AckConfirm, InvalidOriginalPasswd, SendPacket,
        SendSealed, SendKey, Peer, RecvAt, RecvLoop, RecvGoto, KeyInv
  <2>4. RetryInv'
    BY <1>5, <1>ends
    DEF IInv, TypeOK, AckConfirm, InvalidOriginalPasswd, SendPacket,
        SendSealed, SendKey, Peer, RecvAt, RecvLoop, RecvGoto, RetryInv,
        Unpushed
  <2>5. PacketInv'
    BY <1>5, <1>ends, KeysAssumption
    DEF IInv, TypeOK, AckConfirm, InvalidOriginalPasswd, SendPacket,
        SendSealed, SendKey, Peer, RecvAt, RecvLoop, RecvGoto, PacketInv,
        ClientInv, KeyInv
  <2>6. SettledInv'
    BY <1>5, <1>ends
    DEF IInv, TypeOK, AckConfirm, InvalidOriginalPasswd, SendPacket,
        SendSealed, SendKey, Peer, RecvAt, RecvLoop, RecvGoto, SettledInv,
        Stray, ServerRises, ClientInv
  <2> QED
    BY <1>5, <2>1, <2>2, <2>3, <2>4, <2>5, <2>6 DEF IInv
<1>6. CASE CreateReady
  BY <1>6, <1>ends
  DEF CreateReady, RecvAt, RecvGoto, IInv, TypeOK, ClientInv, Opened,
      ServerInv, ServerRises, KeyInv, RetryInv, Unpushed, PacketInv,
      SettledInv, Stray
<1>7. CASE CreateAck
  <2>1. ClientInv'
    BY <1>7, <1>ends
    DEF IInv, TypeOK, CreateAck, SendSealed, Peer, RecvAt, RecvLoop, RecvGoto,
        ClientInv, Opened
  <2>2. ServerInv'
    BY <1>7, <1>ends
    DEF IInv, TypeOK, CreateAck, SendSealed, Peer, RecvAt, RecvLoop, RecvGoto,
        ServerInv, ServerRises
  <2>3. KeyInv'
    BY <1>7, <1>ends
    DEF IInv, TypeOK, CreateAck, SendSealed, Peer, RecvAt, RecvLoop, RecvGoto,
        KeyInv
  <2>4. RetryInv'
    BY <1>7, <1>ends
    DEF IInv, TypeOK, CreateAck, SendSealed, Peer, RecvAt, RecvLoop, RecvGoto,
        RetryInv, Unpushed
  <2>5. PacketInv'
    BY <1>7, <1>ends
    DEF IInv, TypeOK, CreateAck, SendSealed, Peer, RecvAt, RecvLoop, RecvGoto,
        PacketInv, ServerInv, KeyInv
  <2>6. SettledInv'
    BY <1>7, <1>ends
    DEF IInv, TypeOK, CreateAck, SendSealed, Peer, RecvAt, RecvLoop, RecvGoto,
        SettledInv, Stray, ServerRises
  <2> QED
    BY <1>7, <2>1, <2>2, <2>3, <2>4, <2>5, <2>6 DEF IInv
<1>8. CASE PingEstablish
  BY <1>8, <1>ends
  DEF PingEstablish, RecvAt, RecvGoto, IInv, TypeOK, ClientInv, Opened,
      ServerInv, ServerRises, KeyInv, RetryInv, Unpushed, PacketInv,
      SettledInv, Stray
<1>9. CASE DataEstablish
  BY <1>9, <1>ends
  DEF DataEstablish, InvalidOriginalPasswd, OpensSession, RecvAt, RecvGoto,
      IInv, TypeOK, ClientInv, Opened, ServerInv, ServerRises, KeyInv,
      RetryInv, Unpushed, PacketInv, SettledInv, Stray
<1>10. CASE RecvEnds(e)
  BY <1>10, <1>ends
  DEF RecvEnds, RecvAt, RecvGoto, IInv, TypeOK, ClientInv, Opened, ServerInv,
      ServerRises, KeyInv, RetryInv, Unpushed, PacketInv, SettledInv, Stray
<1> QED
  BY <1>1, <1>2, <1>3, <1>4, <1>5, <1>6, <1>7, <1>8, <1>9, <1>10 DEF Handle

LEMMA ReceptionInv ==
  ASSUME IInv, TypeOK', NEW e \in Ends, NEW p \in network, Receive(e, p) PROVE IInv'
<1> USE DEF keyVars, pcVars, closeVars, wireVars, recvVars, history
<1>ends. "client" \in Ends /\ "server" \in Ends /\ "client" # "server"
  BY DEF Ends
<1>to. \A d : Takes(d, p) => p.to = d
  BY DeliverableTo DEF Takes
<1>1. CASE Drop(e, p)
  BY <1>1, <1>ends
  DEF Drop, Takes, RecvAt, RecvLoop, RecvGoto, IInv, TypeOK, ClientInv,
      Opened, ServerInv, ServerRises, KeyInv, RetryInv, Unpushed, PacketInv,
      SettledInv, Stray
<1>2. CASE RecvCreate(p)
  <2>1. ClientInv'
    BY <1>2, <1>ends
    DEF IInv, TypeOK, RecvCreate, CreateOpens, Receives, Takes, RecvAt,
        RecvGoto, ClientInv, Opened
  <2>2. ServerInv'
    BY <1>2, <1>ends, KeysAssumption
    DEF IInv, TypeOK, RecvCreate, CreateOpens, Receives, Takes, RecvAt,
        RecvGoto, ServerInv, ServerRises, PacketInv
  <2>3. KeyInv'
    BY <1>2, <1>ends, KeysAssumption
    DEF IInv, TypeOK, RecvCreate, CreateOpens, Receives, Takes, RecvAt,
        RecvGoto, KeyInv, PacketInv
  <2>4. RetryInv'
    BY <1>2, <1>ends
    DEF IInv, TypeOK, RecvCreate, CreateOpens, Receives, Takes, RecvAt,
        RecvGoto, RetryInv, Unpushed
  <2>5. PacketInv'
    BY <1>2, <1>ends
    DEF IInv, TypeOK, RecvCreate, CreateOpens, Receives, Takes, RecvAt,
        RecvGoto, PacketInv
  <2>6. SettledInv'
    BY <1>2, <1>ends, KeysAssumption
    DEF IInv, TypeOK, RecvCreate, CreateOpens, Receives, Takes, RecvAt,
        RecvGoto, SettledInv, Stray, ServerRises, KeyInv, PacketInv, Passes,
        Decrypts
  <2> QED
    BY <1>2, <2>1, <2>2, <2>3, <2>4, <2>5, <2>6 DEF IInv
<1>3. CASE RecvAck(p)
  <2>1. ClientInv'
    BY <1>3, <1>ends
    DEF IInv, TypeOK, RecvAck, Receives, Takes, RecvAt, RecvGoto, ClientInv,
        Opened, PacketInv
  <2>2. ServerInv'
    BY <1>3, <1>ends
    DEF IInv, TypeOK, RecvAck, Receives, Takes, RecvAt, RecvGoto, ServerInv,
        ServerRises
  <2>3. KeyInv'
    BY <1>3, <1>ends
    DEF IInv, TypeOK, RecvAck, Receives, Takes, RecvAt, RecvGoto, KeyInv
  <2>4. RetryInv'
    BY <1>3, <1>ends
    DEF IInv, TypeOK, RecvAck, Receives, Takes, RecvAt, RecvGoto, RetryInv,
        Unpushed
  <2>5. PacketInv'
    BY <1>3, <1>ends
    DEF IInv, TypeOK, RecvAck, Receives, Takes, RecvAt, RecvGoto, PacketInv
  <2>6. SettledInv'
    BY <1>3, <1>ends
    DEF IInv, TypeOK, RecvAck, Receives, Takes, RecvAt, RecvGoto, SettledInv,
        Stray, ServerRises
  <2> QED
    BY <1>3, <2>1, <2>2, <2>3, <2>4, <2>5, <2>6 DEF IInv
<1>4. CASE RecvPing(p)
  <2>1. ClientInv'
    BY <1>4, <1>ends
    DEF IInv, TypeOK, RecvPing, Receives, Takes, RecvAt, RecvGoto, ClientInv,
        Opened
  <2>2. ServerInv'
    BY <1>4, <1>ends, <1>to
    DEF IInv, TypeOK, RecvPing, Receives, Takes, RecvAt, RecvGoto, ServerInv,
        ServerRises, PacketInv
  <2>3. KeyInv'
    BY <1>4, <1>ends
    DEF IInv, TypeOK, RecvPing, Receives, Takes, RecvAt, RecvGoto, KeyInv
  <2>4. RetryInv'
    BY <1>4, <1>ends
    DEF IInv, TypeOK, RecvPing, Receives, Takes, RecvAt, RecvGoto, RetryInv,
        Unpushed
  <2>5. PacketInv'
    BY <1>4, <1>ends
    DEF IInv, TypeOK, RecvPing, Receives, Takes, RecvAt, RecvGoto, PacketInv
  <2>6. SettledInv'
    BY <1>4, <1>ends, <1>to
    DEF IInv, TypeOK, RecvPing, Receives, Takes, RecvAt, RecvGoto, SettledInv,
        Stray, ServerRises, PacketInv, KeyInv, Passes, Decrypts
  <2> QED
    BY <1>4, <2>1, <2>2, <2>3, <2>4, <2>5, <2>6 DEF IInv
<1>5. CASE RecvData(p)
  <2>1. ClientInv'
    BY <1>5, <1>ends
    DEF IInv, TypeOK, RecvData, OpensSession, Receives, Takes, RecvAt,
        RecvGoto, ClientInv, Opened
  <2>2. ServerInv'
    BY <1>5, <1>ends, <1>to
    DEF IInv, TypeOK, RecvData, OpensSession, Receives, Takes, RecvAt,
        RecvGoto, ServerInv, ServerRises, PacketInv
  <2>3. KeyInv'
    BY <1>5, <1>ends
    DEF IInv, TypeOK, RecvData, OpensSession, Receives, Takes, RecvAt,
        RecvGoto, KeyInv
  <2>4. RetryInv'
    BY <1>5, <1>ends
    DEF IInv, TypeOK, RecvData, OpensSession, Receives, Takes, RecvAt,
        RecvGoto, RetryInv, Unpushed
  <2>5. PacketInv'
    BY <1>5, <1>ends
    DEF IInv, TypeOK, RecvData, OpensSession, Receives, Takes, RecvAt,
        RecvGoto, PacketInv
  <2>6. SettledInv'
    BY <1>5, <1>ends, <1>to
    DEF IInv, TypeOK, RecvData, OpensSession, Receives, Takes, RecvAt,
        RecvGoto, SettledInv, Stray, ServerRises, PacketInv, KeyInv, Passes,
        Decrypts
  <2> QED
    BY <1>5, <2>1, <2>2, <2>3, <2>4, <2>5, <2>6 DEF IInv
<1>6. CASE RecvClose(e, p)
  BY <1>6, <1>ends
  DEF RecvClose, CloseWithoutSendMSG, Receives, Takes, RecvAt, RecvGoto, IInv,
      TypeOK, ClientInv, Opened, ServerInv, ServerRises, KeyInv, RetryInv,
      Unpushed, PacketInv, SettledInv, Stray
<1>7. CASE RecvIgnored(e, p)
  BY <1>7, <1>ends
  DEF RecvIgnored, Receives, Takes, RecvAt, RecvLoop, RecvGoto, IInv, TypeOK,
      ClientInv, Opened, ServerInv, ServerRises, KeyInv, RetryInv, Unpushed,
      PacketInv, SettledInv, Stray
<1> QED
  BY <1>1, <1>2, <1>3, <1>4, <1>5, <1>6, <1>7 DEF Receive

LEMMA NextInv == IInv /\ TypeOK' /\ [Next]_vars => IInv'
<1> SUFFICES ASSUME IInv, TypeOK', [Next]_vars PROVE IInv'
  OBVIOUS
<1> USE DEF keyVars, pcVars, closeVars, wireVars, recvVars, history
<1>ends. "client" \in Ends /\ "server" \in Ends /\ "client" # "server"
  BY DEF Ends
<1>1. ASSUME NEW k \in Keys, Connect(k) PROVE IInv'
  <2>1. ClientInv'
    BY <1>1, <1>ends
    DEF IInv, TypeOK, Connect, SendSealed, Peer, ClientInv, Opened
  <2>2. ServerInv'
    BY <1>1, <1>ends
    DEF IInv, TypeOK, Connect, SendSealed, Peer, ServerInv, ServerRises
  <2>3. KeyInv'
    BY <1>1, <1>ends, KeysAssumption
    DEF IInv, TypeOK, Connect, SendSealed, Peer, KeyInv, ClientInv
  <2>4. RetryInv'
    BY <1>1, <1>ends
    DEF IInv, TypeOK, Connect, SendSealed, Peer, RetryInv, Unpushed
  <2>5. PacketInv'
    BY <1>1, <1>ends
    DEF IInv, TypeOK, Connect, SendSealed, Peer, PacketInv, ClientInv
  <2>6. SettledInv'
    BY <1>1, <1>ends
    DEF IInv, TypeOK, Connect, SendSealed, Peer, SettledInv, Stray,
        ServerRises, ClientInv
  <2> QED
    BY <1>1, <2>1, <2>2, <2>3, <2>4, <2>5, <2>6 DEF IInv
<1>2. ASSUME NEW k \in Keys, TimerDraw(k) PROVE IInv'
  <2>1. ClientInv'
    BY <1>2, <1>ends
    DEF IInv, TypeOK, TimerDraw, ClientInv, Opened
  <2>2. ServerInv'
    BY <1>2, <1>ends
    DEF IInv, TypeOK, TimerDraw, ServerInv, ServerRises
  <2>3. KeyInv'
    BY <1>2, <1>ends, KeysAssumption
    DEF IInv, TypeOK, TimerDraw, KeyInv
  <2>4. RetryInv'
    BY <1>2, <1>ends
    DEF IInv, TypeOK, TimerDraw, RetryInv, Unpushed, KeyInv, PacketInv
  <2>5. PacketInv'
    BY <1>2, <1>ends
    DEF IInv, TypeOK, TimerDraw, PacketInv
  <2>6. SettledInv'
    BY <1>2, <1>ends
    DEF IInv, TypeOK, TimerDraw, SettledInv, Stray, ServerRises, KeyInv,
        PacketInv
  <2> QED
    BY <1>2, <2>1, <2>2, <2>3, <2>4, <2>5, <2>6 DEF IInv
<1>3. CASE TimerSetPassword
  <2>1. ClientInv'
    BY <1>3, <1>ends
    DEF IInv, TypeOK, TimerSetPassword, ClientInv, Opened
  <2>2. ServerInv'
    BY <1>3, <1>ends
    DEF IInv, TypeOK, TimerSetPassword, ServerInv, ServerRises
  <2>3. KeyInv'
    BY <1>3, <1>ends, KeysAssumption
    DEF IInv, TypeOK, TimerSetPassword, KeyInv, RetryInv
  <2>4. RetryInv'
    BY <1>3, <1>ends
    DEF IInv, TypeOK, TimerSetPassword, RetryInv, Unpushed
  <2>5. PacketInv'
    BY <1>3, <1>ends
    DEF IInv, TypeOK, TimerSetPassword, PacketInv
  <2>6. SettledInv'
    BY <1>3, <1>ends
    DEF IInv, TypeOK, TimerSetPassword, SettledInv, Stray, ServerRises
  <2> QED
    BY <1>3, <2>1, <2>2, <2>3, <2>4, <2>5, <2>6 DEF IInv
<1>4. CASE TimerResend
  <2>1. ClientInv'
    BY <1>4, <1>ends
    DEF IInv, TypeOK, TimerResend, SendSealed, Peer, ClientInv, Opened
  <2>2. ServerInv'
    BY <1>4, <1>ends
    DEF IInv, TypeOK, TimerResend, SendSealed, Peer, ServerInv, ServerRises
  <2>3. KeyInv'
    BY <1>4, <1>ends
    DEF IInv, TypeOK, TimerResend, SendSealed, Peer, KeyInv
  <2>4. RetryInv'
    BY <1>4, <1>ends
    DEF IInv, TypeOK, TimerResend, SendSealed, Peer, RetryInv, Unpushed
  <2>5. PacketInv'
    BY <1>4, <1>ends
    DEF IInv, TypeOK, TimerResend, SendSealed, Peer, PacketInv, RetryInv,
        KeyInv
  <2>6. SettledInv'
    BY <1>4, <1>ends
    DEF IInv, TypeOK, TimerResend, SendSealed, Peer, SettledInv, Stray,
        ServerRises, SendKey, ClientInv, RetryInv
  <2> QED
    BY <1>4, <2>1, <2>2, <2>3, <2>4, <2>5, <2>6 DEF IInv
<1>5. CASE RequestConnect
  BY <1>5, <1>ends
  DEF RequestConnect, IInv, TypeOK, ClientInv, Opened, ServerInv, ServerRises,
      KeyInv, RetryInv, Unpushed, PacketInv, SettledInv, Stray
<1>6. CASE RequestSend
  BY <1>6, <1>ends
  DEF RequestSend, SendPacket, SendSealed, Peer, IInv, TypeOK, ClientInv,
      Opened, ServerInv, ServerRises, KeyInv, RetryInv, Unpushed, PacketInv,
      SettledInv, Stray
<1>7. CASE ReaderStart
  BY <1>7, <1>ends
  DEF ReaderStart, IInv, TypeOK, ClientInv, Opened, ServerInv, ServerRises,
      KeyInv, RetryInv, Unpushed, PacketInv, SettledInv, Stray
<1>8. ASSUME NEW e \in Ends, SelectDone(e) PROVE IInv'
  BY <1>8, <1>ends
  DEF SelectDone, IInv, TypeOK, ClientInv, Opened, ServerInv, ServerRises,
      KeyInv, RetryInv, Unpushed, PacketInv, SettledInv, Stray
<1>9. ASSUME NEW e \in Ends, Ping(e) PROVE IInv'
  <2>1. ClientInv'
    BY <1>9, <1>ends
    DEF IInv, TypeOK, Ping, SendPacket, SendSealed, Peer, ClientInv, Opened
  <2>2. ServerInv'
    BY <1>9, <1>ends
    DEF IInv, TypeOK, Ping, SendPacket, SendSealed, Peer, ServerInv,
        ServerRises
  <2>3. KeyInv'
    BY <1>9, <1>ends
    DEF IInv, TypeOK, Ping, SendPacket, SendSealed, Peer, KeyInv
  <2>4. RetryInv'
    BY <1>9, <1>ends
    DEF IInv, TypeOK, Ping, SendPacket, SendSealed, Peer, RetryInv, Unpushed
  <2>5. PacketInv'
    BY <1>9, <1>ends, KeysAssumption
    DEF IInv, TypeOK, Ping, SendPacket, SendSealed, Peer, PacketInv, SendKey,
        Ends, ClientInv, KeyInv
  <2>6. SettledInv'
    BY <1>9, <1>ends
    DEF IInv, TypeOK, Ping, SendPacket, SendSealed, Peer, SettledInv, Stray,
        ServerRises, SendKey, Ends, ClientInv
  <2> QED
    BY <1>9, <2>1, <2>2, <2>3, <2>4, <2>5, <2>6 DEF IInv
<1>10. ASSUME NEW e \in Ends, Close(e) PROVE IInv'
  BY <1>10, <1>ends, ClosesSent
  DEF Close, IInv, TypeOK, ClientInv, Opened, ServerInv, ServerRises, KeyInv,
      RetryInv, Unpushed, PacketInv, SettledInv, Stray
<1>11. ASSUME NEW e \in Ends, CloseMark(e) PROVE IInv'
  BY <1>11, <1>ends
  DEF CloseMark, CloseWithoutSendMSG, IInv, TypeOK, ClientInv, Opened,
      ServerInv, ServerRises, KeyInv, RetryInv, Unpushed, PacketInv,
      SettledInv, Stray
<1>12. ASSUME NEW e \in Ends, CloseChannels(e) PROVE IInv'
  BY <1>12, <1>ends
  DEF CloseChannels, IInv, TypeOK, ClientInv, Opened, ServerInv, ServerRises,
      KeyInv, RetryInv, Unpushed, PacketInv, SettledInv, Stray
<1>13. ASSUME NEW e \in Ends, ReaderRead(e) PROVE IInv'
  BY <1>13, <1>ends
  DEF ReaderRead, IInv, TypeOK, ClientInv, Opened, ServerInv, ServerRises,
      KeyInv, RetryInv, Unpushed, PacketInv, SettledInv, Stray
<1>14. ASSUME NEW e \in Ends, ReaderSend(e) PROVE IInv'
  <2>1. ClientInv'
    BY <1>14, <1>ends
    DEF IInv, TypeOK, ReaderSend, SendPacket, SendSealed, Peer, ClientInv,
        Opened
  <2>2. ServerInv'
    BY <1>14, <1>ends
    DEF IInv, TypeOK, ReaderSend, SendPacket, SendSealed, Peer, ServerInv,
        ServerRises
  <2>3. KeyInv'
    BY <1>14, <1>ends
    DEF IInv, TypeOK, ReaderSend, SendPacket, SendSealed, Peer, KeyInv
  <2>4. RetryInv'
    BY <1>14, <1>ends
    DEF IInv, TypeOK, ReaderSend, SendPacket, SendSealed, Peer, RetryInv,
        Unpushed
  <2>5. PacketInv'
    BY <1>14, <1>ends, KeysAssumption
    DEF IInv, TypeOK, ReaderSend, SendPacket, SendSealed, Peer, PacketInv,
        SendKey, Ends, ClientInv, KeyInv
  <2>6. SettledInv'
    BY <1>14, <1>ends
    DEF IInv, TypeOK, ReaderSend, SendPacket, SendSealed, Peer, SettledInv,
        Stray, ServerRises, SendKey, Ends, ClientInv
  <2> QED
    BY <1>14, <2>1, <2>2, <2>3, <2>4, <2>5, <2>6 DEF IInv
<1>15. ASSUME NEW e \in Ends, NEW p \in network, DispatchPanics(e, p) PROVE IInv'
  BY <1>15, <1>ends
  DEF DispatchPanics, IInv, TypeOK, ClientInv, Opened, ServerInv, ServerRises,
      KeyInv, RetryInv, Unpushed, PacketInv, SettledInv, Stray
<1>16. CASE UNCHANGED vars
  BY <1>16, <1>ends
  DEF vars, IInv, TypeOK, ClientInv, Opened, ServerInv, ServerRises, KeyInv,
      RetryInv, Unpushed, PacketInv, SettledInv, Stray
<1> QED
  BY <1>1, <1>2, <1>3, <1>4, <1>5, <1>6, <1>7, <1>8, <1>9, <1>10, <1>11,
     <1>12, <1>13, <1>14, <1>15, <1>16, HandleInv, ReceptionInv DEF Next, Retry
LEMMA Inductive == Spec => []IInv
<1> QED
  BY InitInv, NextInv, TypeCorrect, PTL DEF Spec

(* Whatever the network does and whoever closes, an established client     *)
(* opened the acknowledgement of a key that the server adopted, or is about *)
(* to panic (recvPacketProc, MSG_CREATE_CONN_ACK).                          *)
THEOREM ClientIsJustified == Spec => []ClientJustified
<1>1. IInv => ClientJustified
  BY DEF IInv, ClientInv, ClientJustified, NilAckInHand
<1> QED
  BY <1>1, Inductive, PTL

(* Whatever the network does, an established server uses the key the       *)
(* client was established with, unless the client closed meanwhile          *)
(* (recvPacketProc, MSG_CREATE_CONN, MSG_PING and MSG_DATA).                *)
THEOREM ServerIsJustified == Spec => []ServerJustified
<1>1. IInv => ServerJustified
  BY DEF IInv, ServerInv, ServerRises, SettledInv, ServerJustified
<1> QED
  BY <1>1, Inductive, PTL

-----------------------------------------------------------------------------
(* Refinement.                                                              *)

LEMMA InitAgrees == Init => Agreement!Init
  BY DEF Init, Agreement!Init, Ends

\* A step that leaves the keys and both statuses' meaning alone.
LEMMA Stutters ==
  ASSUME UNCHANGED <<unused, newPasswd, adopted, inUse, connStat>>
  PROVE  UNCHANGED Agreement!vars
  BY DEF Agreement!vars

\* An end that closes, or is assigned a status by a handler, was up or not.
LEMMA MarkAgrees ==
  ASSUME TypeOK, NEW e \in Ends, CloseWithoutSendMSG(e),
         UNCHANGED <<unused, newPasswd, adopted, inUse>>
  PROVE  Agreement!Next \/ UNCHANGED Agreement!vars
<1>1. CASE e = "client"
  <2>1. connStat'["client"] = "CLOSED" /\ connStat'["server"] = connStat["server"]
    BY <1>1 DEF CloseWithoutSendMSG, TypeOK, Ends
  <2>2. CASE inUse # NoKey /\ connStat["client"] # "CLOSED"
    BY <2>1, <2>2 DEF Agreement!Lose, Agreement!Next
  <2>3. CASE ~(inUse # NoKey /\ connStat["client"] # "CLOSED")
    BY <2>1, <2>3 DEF Agreement!vars
  <2> QED
    BY <2>2, <2>3
<1>2. CASE e = "server"
  <2>1. connStat'["server"] = "CLOSED" /\ connStat'["client"] = connStat["client"]
    BY <1>2 DEF CloseWithoutSendMSG, TypeOK, Ends
  <2>2. CASE connStat["server"] = "ESTABLISHED"
    BY <2>1, <2>2 DEF Agreement!ServerDown, Agreement!Next
  <2>3. CASE connStat["server"] # "ESTABLISHED"
    BY <2>1, <2>3 DEF Agreement!vars
  <2> QED
    BY <2>2, <2>3
<1> QED
  BY <1>1, <1>2 DEF Ends

\* A step that establishes the server, if it was not.
LEMMA RiseAgrees ==
  ASSUME IInv, recvPc["server"] \in {"ping", "data"},
         connStat' = [connStat EXCEPT !["server"] = "ESTABLISHED"],
         UNCHANGED <<unused, newPasswd, adopted, inUse>>
  PROVE  Agreement!Next \/ UNCHANGED Agreement!vars
<1>1. connStat'["server"] = "ESTABLISHED" /\ connStat'["client"] = connStat["client"]
  BY DEF IInv, TypeOK, Ends
<1>2. /\ inUse # NoKey
      /\ newPasswd["server"] = inUse \/ connStat["client"] = "CLOSED"
  BY DEF IInv, ServerInv, SettledInv, ServerRises
<1>3. CASE connStat["server"] # "ESTABLISHED"
  BY <1>1, <1>2, <1>3 DEF Agreement!ServerEstablish, Agreement!Next
<1>4. CASE connStat["server"] = "ESTABLISHED"
  BY <1>1, <1>4 DEF Agreement!vars
<1> QED
  BY <1>3, <1>4

LEMMA HandleAgrees ==
  ASSUME IInv, IInv', NEW e \in Ends, Handle(e)
  PROVE  Agreement!Next \/ UNCHANGED Agreement!vars
<1> USE DEF keyVars, pcVars, closeVars, wireVars, recvVars, history
<1>1. CASE AckEstablish
  <2>1. /\ connStat'["client"] = "ESTABLISHED" /\ connStat'["server"] = connStat["server"]
        /\ recvPc["client"] = "establish"
    BY <1>1 DEF AckEstablish, RecvAt, IInv, TypeOK, Ends
  <2>2. /\ inUse = NoKey /\ adopted # {}
        /\ cryptNew["client"] \in Keys \ unused
    BY <2>1 DEF IInv, TypeOK, ClientInv, KeyInv, Ends
  <2>3. Agreement!ClientEstablish(cryptNew["client"])
    BY <1>1, <2>1, <2>2 DEF AckEstablish, Agreement!ClientEstablish
  <2> QED
    BY <2>2, <2>3 DEF Agreement!Next
<1>2. CASE CreateReady
  <2>1. connStat'["server"] = "READY" /\ connStat'["client"] = connStat["client"]
    BY <1>2 DEF CreateReady, IInv, TypeOK, Ends
  <2>2. CASE connStat["server"] = "ESTABLISHED"
    BY <1>2, <2>1, <2>2 DEF CreateReady, Agreement!ServerDown, Agreement!Next
  <2>3. CASE connStat["server"] # "ESTABLISHED"
    BY <1>2, <2>1, <2>3 DEF CreateReady, Agreement!vars
  <2> QED
    BY <2>2, <2>3
<1>3. CASE PingEstablish \/ DataEstablish
  BY <1>3, RiseAgrees DEF PingEstablish, DataEstablish, RecvAt
<1>4. CASE \/ AckUnpack \/ AckSignal \/ AckPanics \/ AckConfirm \/ CreateAck
           \/ RecvEnds(e)
  BY <1>4, Stutters
  DEF AckUnpack, AckSignal, AckPanics, AckConfirm, CreateAck, RecvEnds
<1> QED
  BY <1>1, <1>2, <1>3, <1>4 DEF Handle

LEMMA ReceptionAgrees ==
  ASSUME IInv, IInv', NEW e \in Ends, NEW p \in network, Receive(e, p)
  PROVE  Agreement!Next \/ UNCHANGED Agreement!vars
<1> USE DEF keyVars, pcVars, closeVars, wireVars, recvVars, history
<1>1. CASE RecvCreate(p)
  <2>1. p.new \in Keys \ unused
    BY <1>1 DEF RecvCreate, Receives, IInv, PacketInv
  <2>2. newPasswd'["server"] = p.new /\ UNCHANGED connStat
    BY <1>1 DEF RecvCreate, IInv, TypeOK, Ends
  <2>3. Agreement!Adopt(p.new)
    BY <1>1, <2>1, <2>2 DEF RecvCreate, CreateOpens, Agreement!Adopt
  <2> QED
    BY <2>1, <2>3 DEF Agreement!Next
<1>2. CASE RecvClose(e, p)
  <2>1. CASE CloseWithoutSendMSG(e)
    BY <1>2, <2>1, MarkAgrees DEF RecvClose, IInv
  <2>2. CASE UNCHANGED connStat
    BY <1>2, <2>2, Stutters DEF RecvClose
  <2> QED
    BY <1>2, <2>1, <2>2 DEF RecvClose
<1>3. CASE Drop(e, p) \/ RecvAck(p) \/ RecvPing(p) \/ RecvData(p) \/ RecvIgnored(e, p)
  BY <1>3, Stutters DEF Drop, RecvAck, RecvPing, RecvData, RecvIgnored
<1> QED
  BY <1>1, <1>2, <1>3 DEF Receive

LEMMA NextAgrees == IInv /\ IInv' /\ [Next]_vars => [Agreement!Next]_(Agreement!vars)
<1> SUFFICES ASSUME IInv, IInv', [Next]_vars
             PROVE  Agreement!Next \/ UNCHANGED Agreement!vars
  OBVIOUS
<1> USE DEF keyVars, pcVars, closeVars, wireVars, recvVars, history
<1>1. ASSUME NEW k \in Keys, Connect(k) PROVE Agreement!Offer(k)
  <2>1. inUse = NoKey /\ unused \subseteq Keys
    BY <1>1 DEF Connect, IInv, ClientInv, TypeOK
  <2>2. /\ newPasswd'["server"] = newPasswd["server"]
        /\ connStat'["server"] = connStat["server"]
        /\ Keys \ unused' = (Keys \ unused) \union {k}
    BY <1>1, <2>1 DEF Connect, IInv, TypeOK, Ends
  <2> QED
    BY <1>1, <2>1, <2>2 DEF Connect, Agreement!Offer
<1>2. ASSUME NEW k \in Keys, TimerDraw(k) PROVE Agreement!Offer(k)
  <2>1. /\ newPasswd'["server"] = newPasswd["server"]
        /\ Keys \ unused' = (Keys \ unused) \union {k}
    BY <1>2 DEF TimerDraw, IInv, TypeOK, Ends
  <2> QED
    BY <1>2, <2>1 DEF TimerDraw, Agreement!Offer
<1>3. CASE RequestConnect
  <2>1. /\ connStat'["client"] = connStat["client"]
        /\ connStat["server"] = "INIT" /\ connStat'["server"] = "WAIT_CONN"
    BY <1>3 DEF RequestConnect, IInv, TypeOK, Ends
  <2> QED
    BY <1>3, <2>1 DEF RequestConnect, Agreement!vars
<1>4. ASSUME NEW e \in Ends, CloseMark(e)
      PROVE  Agreement!Next \/ UNCHANGED Agreement!vars
  BY <1>4, MarkAgrees DEF CloseMark, IInv
<1>5. ASSUME \/ TimerSetPassword \/ TimerResend \/ RequestSend \/ ReaderStart
             \/ UNCHANGED vars
             \/ \E e \in Ends : \/ SelectDone(e) \/ Ping(e) \/ Close(e) \/ CloseChannels(e)
                                \/ ReaderRead(e) \/ ReaderSend(e)
                                \/ \E p \in network : DispatchPanics(e, p)
       PROVE  UNCHANGED Agreement!vars
  BY <1>5, Stutters
  DEF TimerSetPassword, TimerResend, RequestSend, ReaderStart, vars, SelectDone, Ping,
      Close, CloseChannels, ReaderRead, ReaderSend, DispatchPanics
<1> QED
  BY <1>1, <1>2, <1>3, <1>4, <1>5, HandleAgrees, ReceptionAgrees
  DEF Next, Retry, Agreement!Next

(* The handshake implements ConnAgreement: every step of the two           *)
(* connections is a step of the promise, or none (relay_connection.go).    *)
THEOREM HandshakeAgrees == Spec => AgreementSpec
<1> QED
  BY InitAgrees, NextAgrees, Inductive, PTL
  DEF Spec, AgreementSpec, Agreement!Spec

-----------------------------------------------------------------------------
(* A network that keeps the order, and fewer attempts than serial numbers,  *)
(* with those of two closes left over, the second of which panics: until it *)
(* opens an acknowledgement or is established without one, the client       *)
(* numbers nothing else.                                                    *)
Ordered ==
    /\ Network # "unordered"
    /\ IsFiniteSet(Keys)
    /\ Cardinality(Keys) + 2 * Copies < SNSpace

Pushes == {p \in network : p.type = "CREATE"}

\* Keys drawn but not pushed.
UnderWay == IF connectPc["client"] \in {"drawn", "set"} THEN 1 ELSE 0

\* The numbers that closes took.
Said == (IF closePc["client"] = "open" THEN 0 ELSE Copies)
          + (IF Alive("client") THEN 0 ELSE Copies)

Attempting == inUse = NoKey /\ ackedKey = NoKey

\* p is the newest of the attempts that the server took up.
Newest(p) == \A q \in Pushes : q.new \in adopted => q.sn <= p.sn

(* Until then the attempts are numbered in their order, the last one        *)
(* carries the client's key, and the server holds the key of the newest one *)
(* that it took up.                                                         *)
AttemptInv ==
    Attempting =>
        /\ sendPacketSN["client"] + Cardinality(unused) + UnderWay
             <= Cardinality(Keys) + Said
        /\ \A p \in Pushes : p.sn <= sendPacketSN["client"]
        /\ \A p, q \in Pushes : p.sn = q.sn <=> p.new = q.new
        /\ \A p \in Pushes : p.new = newPasswd["client"] => \A q \in Pushes : q.sn <= p.sn
        /\ \A k \in adopted : \E p \in Pushes : p.new = k
        /\ newPasswd["server"] = NoKey => adopted = {}
        /\ newPasswd["server"] # NoKey =>
             \E p \in Pushes : /\ p.new = newPasswd["server"]
                               /\ p.sn <= arrived["server"]
                               /\ Newest(p)

(* Once the client opened an acknowledgement the earlier keys are gone: the *)
(* network delivered whatever pushed them, and nobody draws them again.     *)
SharedInv ==
    ackedKey # NoKey =>
        /\ newPasswd["server"] \notin older \union {NoKey}
        /\ \A p \in Pushes : p.new \in older => p.sn <= arrived["server"]
        /\ newPasswd["client"] \notin older
        /\ older \cap unused = {}

OrderedInv == Ordered => AttemptInv /\ SharedInv

LEMMA InitOrdered == Init => OrderedInv
<1> SUFFICES ASSUME Init, Ordered PROVE AttemptInv /\ SharedInv
  BY DEF OrderedInv
<1>1. Cardinality(Keys) \in Nat
  BY FS_CardinalityType DEF Ordered
<1>2. Said = 0
  BY DEF Said, Init, Alive, Ends
<1> QED
  BY <1>1, <1>2 DEF Init, AttemptInv, SharedInv, UnderWay, Pushes, Ends

\* Serial numbers are compared as numbers.
LEMMA Numbers ==
    ASSUME TypeOK
    PROVE  /\ \A p \in network : p.sn \in Int
           /\ \A e \in Ends : arrived[e] \in Int /\ sendPacketSN[e] \in Nat
           /\ Keys \subseteq AnyKey /\ {"client", "server"} = Ends
BY SNSpaceAssumption DEF TypeOK, Packets, SerialNumbers, AnyKey, Ends

LEMMA CardsAreNat ==
    ASSUME TypeOK, Ordered
    PROVE  Cardinality(unused) \in Nat /\ Cardinality(Keys) \in Nat /\ UnderWay \in Nat
BY FS_Subset, FS_CardinalityType DEF TypeOK, Ordered, UnderWay

\* Two closes at most.
LEMMA SaidBounds == Said \in Nat /\ Said <= 2 * Copies
<1>1. Copies \in Nat
  BY ClosingAssumption
<1> QED
  BY <1>1 DEF Said

LEMMA SaidKept ==
    ASSUME closePc["client"] # "open" => closePc'["client"] # "open",
           ~Alive("client") => ~Alive("client")'
    PROVE  Said <= Said' /\ Said \in Nat /\ Said' \in Nat
<1>1. Copies \in Nat
  BY ClosingAssumption
<1> QED
  BY <1>1 DEF Said

(* A step that neither draws nor pushes nor adopts a key.                   *)
LEMMA OrderedKept ==
    ASSUME IInv, IInv', OrderedInv,
           UNCHANGED <<unused, newPasswd, adopted, ackedKey, older>>, Pushes' = Pushes,
           Network # "unordered" => arrived["server"] <= arrived'["server"],
           Attempting' =>
               /\ Attempting
               /\ Ordered => sendPacketSN["client"] <= sendPacketSN'["client"]
               /\ Ordered => sendPacketSN'["client"] + UnderWay' + Said
                               <= sendPacketSN["client"] + UnderWay + Said'
    PROVE  OrderedInv'
<1> SUFFICES ASSUME Ordered PROVE AttemptInv' /\ SharedInv'
  BY DEF OrderedInv, Ordered
<1>1. AttemptInv /\ SharedInv /\ TypeOK /\ TypeOK'
  BY DEF OrderedInv, IInv
<1>2. /\ \A p \in Pushes : p.sn \in Int
      /\ arrived["server"] \in Int /\ arrived'["server"] \in Int
      /\ arrived["server"] <= arrived'["server"]
      /\ sendPacketSN["client"] \in Nat /\ sendPacketSN'["client"] \in Nat
  <2>1. \A sn \in SerialNumbers : sn \in Nat
    BY SNSpaceAssumption DEF SerialNumbers
  <2>2. /\ arrived["server"] \in Int /\ arrived'["server"] \in Int
        /\ sendPacketSN["client"] \in Nat /\ sendPacketSN'["client"] \in Nat
    BY <1>1, <2>1 DEF TypeOK, Ends
  <2>3. \A p \in Pushes : p.sn \in Int
    BY <1>1, Numbers DEF Pushes
  <2> QED
    BY <2>2, <2>3 DEF Ordered
<1>3. AttemptInv'
  <2> SUFFICES ASSUME Attempting' PROVE AttemptInv'
    BY DEF AttemptInv
  <2>1. \A p \in Pushes : Newest(p) => Newest(p)'
    BY DEF Newest
  <2>2. \A p \in Pushes : p.sn <= arrived["server"] => p.sn <= arrived'["server"]
    BY <1>2
  <2>3. \A p \in Pushes : p.sn <= sendPacketSN["client"] => p.sn <= sendPacketSN'["client"]
    BY <1>2
  <2>4. sendPacketSN'["client"] + Cardinality(unused) + UnderWay' <= Cardinality(Keys) + Said'
    <3>1. sendPacketSN["client"] + Cardinality(unused) + UnderWay <= Cardinality(Keys) + Said
      BY <1>1 DEF AttemptInv
    <3>2. /\ Cardinality(unused) \in Nat /\ Cardinality(Keys) \in Nat
          /\ UnderWay \in Nat /\ UnderWay' \in Nat /\ Said \in Nat /\ Said' \in Nat
      <4>1. UnderWay' \in Nat
        BY DEF UnderWay
      <4>2. Said' \in Nat
        BY ClosingAssumption DEF Said
      <4> QED
        BY <1>1, <4>1, <4>2, CardsAreNat, SaidBounds
    <3>3. sendPacketSN'["client"] + UnderWay' + Said
            <= sendPacketSN["client"] + UnderWay + Said'
      OBVIOUS
    <3> QED
      BY <1>2, <3>1, <3>2, <3>3
  <2> QED
    BY <1>1, <2>1, <2>2, <2>3, <2>4 DEF AttemptInv
<1>4. SharedInv'
  <2> SUFFICES ASSUME ackedKey # NoKey PROVE SharedInv'
    BY DEF SharedInv
  <2>1. \A p \in Pushes : p.sn <= arrived["server"] => p.sn <= arrived'["server"]
    BY <1>2
  <2> QED
    BY <1>1, <2>1 DEF SharedInv
<1> QED
  BY <1>3, <1>4

\* A step of which the client's counter and its timer know nothing.
LEMMA OrderedStays ==
    ASSUME IInv, IInv', OrderedInv,
           UNCHANGED <<unused, newPasswd, adopted, ackedKey, older>>, Pushes' = Pushes,
           Network # "unordered" => arrived["server"] <= arrived'["server"],
           closePc["client"] # "open" => closePc'["client"] # "open",
           ~Alive("client") => ~Alive("client")',
           \/ ~Attempting'
           \/ /\ Attempting
              /\ sendPacketSN'["client"] = sendPacketSN["client"]
              /\ UnderWay' = UnderWay
    PROVE  OrderedInv'
<1>1. Said <= Said' /\ Said \in Nat /\ Said' \in Nat
  BY SaidKept
<1>2. sendPacketSN["client"] \in Nat /\ UnderWay \in Nat
  BY Numbers DEF IInv, UnderWay
<1>3. ASSUME Attempting'
      PROVE  /\ Attempting
             /\ sendPacketSN["client"] <= sendPacketSN'["client"]
             /\ sendPacketSN'["client"] + UnderWay' + Said
                  <= sendPacketSN["client"] + UnderWay + Said'
  BY <1>1, <1>2, <1>3
<1> QED
  BY <1>3, OrderedKept

\* A packet that is not a CREATE pushes nothing.
LEMMA SendsNoPush ==
    ASSUME NEW e, NEW type, type # "CREATE", NEW key, NEW seal, NEW new,
           SendSealed(e, type, key, seal, new)
    PROVE  Pushes' = Pushes
BY DEF SendSealed, Pushes

LEMMA ClosePushes == ASSUME NEW e \in Ends, SendCloses(e) PROVE Pushes' = Pushes
BY DEF SendCloses, Pushes

LEMMA SendsOwn ==
    ASSUME NEW e, e # "client", NEW type, NEW key, NEW seal, NEW new,
           SendSealed(e, type, key, seal, new)
    PROVE  sendPacketSN'["client"] = sendPacketSN["client"]
BY DEF SendSealed

\* The attempts are numbered in their order: no counter wraps.
LEMMA PushNumber ==
    ASSUME TypeOK, Ordered, NEW n \in Nat, n > 0,
           sendPacketSN["client"] + n <= Cardinality(Keys) + Said
    PROVE  /\ NextSN(sendPacketSN["client"]) = sendPacketSN["client"] + 1
           /\ sendPacketSN["client"] \in Nat
<1>1. /\ sendPacketSN["client"] \in Nat /\ Cardinality(Keys) \in Nat /\ SNSpace \in Nat
      /\ Said \in Nat /\ Said <= 2 * Copies /\ Copies \in Nat
  BY Numbers, CardsAreNat, SNSpaceAssumption, SaidBounds, ClosingAssumption
<1>2. Cardinality(Keys) + 2 * Copies < SNSpace
  BY DEF Ordered
<1>3. sendPacketSN["client"] + 1 < SNSpace
  BY <1>1, <1>2
<1> QED
  BY <1>1, <1>3, SMT DEF NextSN

\* The new push of the client's key.
LEMMA PushSent ==
    ASSUME NEW key, NEW seal, NEW new, SendSealed("client", "CREATE", key, seal, new)
    PROVE  \E r : /\ r.new = new /\ r.key = key /\ r.sn = NextSN(sendPacketSN["client"])
                  /\ Pushes' = Pushes \union {r}
<1> DEFINE r == [to |-> Peer("client"), type |-> "CREATE", key |-> key,
                 sn |-> NextSN(sendPacketSN["client"]), seal |-> seal, new |-> new]
<1>1. Pushes' = Pushes \union {r}
  BY DEF SendSealed, Pushes
<1> QED
  BY <1>1

LEMMA SendCounts ==
    ASSUME TypeOK, NEW type, NEW key, NEW seal, NEW new,
           SendSealed("client", type, key, seal, new)
    PROVE  sendPacketSN'["client"] = NextSN(sendPacketSN["client"])
BY DEF SendSealed, TypeOK, Ends

LEMMA DrawnLess ==
    ASSUME TypeOK, Ordered, NEW k \in unused, unused' = unused \ {k}
    PROVE  /\ Cardinality(unused) = Cardinality(unused') + 1
           /\ Cardinality(unused') \in Nat
<1>1. IsFiniteSet(unused)
  BY FS_Subset DEF TypeOK, Ordered
<1>2. IsFiniteSet(unused') /\ Cardinality(unused') = Cardinality(unused) - 1
  BY <1>1, FS_RemoveElement
<1> QED
  BY <1>1, <1>2, FS_CardinalityType

LEMMA ConnectOrdered ==
    ASSUME IInv, IInv', OrderedInv, NEW k \in Keys, Connect(k) PROVE OrderedInv'
<1> SUFFICES ASSUME Ordered PROVE AttemptInv' /\ SharedInv'
  BY DEF OrderedInv, Ordered
<1>1. /\ AttemptInv /\ TypeOK /\ connectPc["client"] = "start"
      /\ inUse = NoKey /\ ackedKey = NoKey
  BY DEF OrderedInv, IInv, Connect, ClientInv
<1>2. /\ Cardinality(unused) = Cardinality(unused') + 1 /\ Cardinality(unused') \in Nat
      /\ Cardinality(Keys) \in Nat
  BY <1>1, DrawnLess, CardsAreNat DEF Connect
<1>3. UnderWay = 0 /\ UnderWay' = 0 /\ Said' = Said /\ Said \in Nat
  BY <1>1, SaidBounds DEF UnderWay, Connect, TypeOK, Ends, Said, Alive, closeVars
<1>4. sendPacketSN["client"] + Cardinality(unused) <= Cardinality(Keys) + Said
      /\ sendPacketSN["client"] \in Nat
  BY <1>1, <1>2, <1>3, Numbers DEF AttemptInv, Attempting
<1>5. NextSN(sendPacketSN["client"]) = sendPacketSN["client"] + 1
  BY <1>1, <1>2, <1>4, PushNumber
<1>6. PICK r : /\ r.new = k /\ r.sn = sendPacketSN["client"] + 1
               /\ Pushes' = Pushes \union {r}
               /\ sendPacketSN'["client"] = sendPacketSN["client"] + 1
  BY <1>1, <1>5, PushSent, SendCounts DEF Connect
<1>7. \A p \in Pushes : p.new # k /\ p.sn \in Int
  BY Numbers DEF IInv, PacketInv, Pushes, Connect
<1>8. newPasswd'["client"] = k /\ newPasswd'["server"] = newPasswd["server"]
      /\ UNCHANGED <<adopted, ackedKey, arrived>> /\ k \notin adopted
  BY <1>1 DEF Connect, TypeOK, Ends, history, recvVars, IInv, KeyInv
<1>9. \A p \in Pushes : Newest(p) => Newest(p)'
  BY <1>6, <1>8 DEF Newest
<1>10. AttemptInv'
  <2>1. sendPacketSN'["client"] + Cardinality(unused') + UnderWay'
          <= Cardinality(Keys) + Said'
    BY <1>2, <1>3, <1>4, <1>6
  <2>2. \A p \in Pushes' : p.sn <= sendPacketSN'["client"]
    BY <1>1, <1>4, <1>6, <1>7 DEF AttemptInv, Attempting
  <2>3. \A p, q \in Pushes' : p.sn = q.sn <=> p.new = q.new
    <3>1. \A p \in Pushes : p.sn # r.sn /\ p.new # r.new
      BY <1>1, <1>4, <1>6, <1>7 DEF AttemptInv, Attempting
    <3> QED
      BY <1>1, <1>6, <3>1 DEF AttemptInv, Attempting
  <2>4. \A p \in Pushes' : p.new = newPasswd'["client"] =>
          \A q \in Pushes' : q.sn <= p.sn
    <3>1. \A p \in Pushes' : p.new = k => p.sn = sendPacketSN'["client"]
      BY <1>6, <1>7
    <3> QED
      BY <1>8, <2>2, <3>1
  <2> QED
    BY <1>1, <1>6, <1>8, <1>9, <2>1, <2>2, <2>3, <2>4 DEF AttemptInv, Attempting
<1>11. SharedInv'
  BY <1>1, <1>8 DEF SharedInv
<1> QED
  BY <1>10, <1>11

LEMMA DrawOrdered ==
    ASSUME IInv, IInv', OrderedInv, NEW k \in Keys, TimerDraw(k) PROVE OrderedInv'
<1> SUFFICES ASSUME Ordered PROVE AttemptInv' /\ SharedInv'
  BY DEF OrderedInv, Ordered
<1>1. AttemptInv /\ SharedInv /\ TypeOK
  BY DEF OrderedInv, IInv
<1>2. /\ Cardinality(unused) = Cardinality(unused') + 1 /\ Cardinality(unused') \in Nat
      /\ Cardinality(Keys) \in Nat /\ sendPacketSN["client"] \in Nat
  BY <1>1, DrawnLess, CardsAreNat, Numbers DEF TimerDraw
<1>3. UnderWay = 0 /\ UnderWay' = 1 /\ Said' = Said /\ Said \in Nat
  BY <1>1, SaidBounds DEF UnderWay, TimerDraw, TypeOK, Ends, Said, Alive, closeVars
<1>4. /\ UNCHANGED <<sendPacketSN, adopted, ackedKey, older, inUse, arrived>>
      /\ Pushes' = Pushes
      /\ newPasswd'["client"] = k /\ newPasswd'["server"] = newPasswd["server"]
      /\ k \in unused /\ unused' \subseteq unused
  BY <1>1 DEF TimerDraw, TypeOK, Ends, history, recvVars, wireVars, Pushes
<1>5. \A p \in Pushes : p.new # k
  BY DEF IInv, PacketInv, Pushes, TimerDraw
<1>6. \A p \in Pushes : Newest(p) => Newest(p)'
  BY <1>4 DEF Newest
<1>7. AttemptInv'
  <2> SUFFICES ASSUME Attempting PROVE AttemptInv'
    BY <1>4 DEF AttemptInv, Attempting
  <2>1. sendPacketSN["client"] + Cardinality(unused') + UnderWay' <= Cardinality(Keys) + Said'
    BY <1>1, <1>2, <1>3 DEF AttemptInv
  <2> QED
    BY <1>1, <1>4, <1>5, <1>6, <2>1 DEF AttemptInv
<1>8. SharedInv'
  BY <1>1, <1>4 DEF SharedInv
<1> QED
  BY <1>7, <1>8

LEMMA ResendOrdered ==
    ASSUME IInv, IInv', OrderedInv, TimerResend PROVE OrderedInv'
<1> SUFFICES ASSUME Ordered PROVE AttemptInv' /\ SharedInv'
  BY DEF OrderedInv, Ordered
<1> DEFINE k == newPasswd["client"]
<1>1. /\ AttemptInv /\ SharedInv /\ TypeOK /\ connectPc["client"] = "set"
      /\ k \notin adopted
      /\ \A p \in Pushes : p.new # k /\ p.sn \in Int
  BY Numbers DEF OrderedInv, IInv, TimerResend, RetryInv, Unpushed, Pushes
<1>2. UNCHANGED <<unused, newPasswd, adopted, ackedKey, older, inUse, arrived>>
  BY DEF TimerResend, keyVars, history, recvVars
<1>3. AttemptInv'
  <2> SUFFICES ASSUME Attempting PROVE AttemptInv'
    BY <1>2 DEF AttemptInv, Attempting
  <2>1. UnderWay = 1 /\ UnderWay' = 0 /\ Said' = Said /\ Said \in Nat
    BY <1>1, SaidBounds DEF UnderWay, TimerResend, TypeOK, Ends, Said, Alive, closeVars
  <2>2. /\ Cardinality(unused) \in Nat /\ Cardinality(Keys) \in Nat
        /\ sendPacketSN["client"] \in Nat
    BY <1>1, CardsAreNat, Numbers
  <2>3. NextSN(sendPacketSN["client"]) = sendPacketSN["client"] + 1
    <3>1. /\ Cardinality(unused) + 1 \in Nat /\ Cardinality(unused) + 1 > 0
          /\ sendPacketSN["client"] + (Cardinality(unused) + 1) <= Cardinality(Keys) + Said
      BY <1>1, <2>1, <2>2 DEF AttemptInv
    <3> QED
      BY <1>1, <3>1, PushNumber
  <2>4. PICK r : /\ r.new = k /\ r.sn = sendPacketSN["client"] + 1
                 /\ Pushes' = Pushes \union {r}
                 /\ sendPacketSN'["client"] = sendPacketSN["client"] + 1
    BY <1>1, <2>3, PushSent, SendCounts DEF TimerResend
  <2> HIDE DEF k
  <2>5. sendPacketSN'["client"] + Cardinality(unused') + UnderWay'
          <= Cardinality(Keys) + Said'
    BY <1>1, <1>2, <2>1, <2>2, <2>4 DEF AttemptInv
  <2>6. \A p \in Pushes' : p.sn <= sendPacketSN'["client"]
    BY <1>1, <2>2, <2>4 DEF AttemptInv
  <2>7. \A p, q \in Pushes' : p.sn = q.sn <=> p.new = q.new
    <3>1. \A p \in Pushes : p.sn # r.sn /\ p.new # r.new
      BY <1>1, <2>2, <2>4 DEF AttemptInv
    <3> QED
      BY <1>1, <2>4, <3>1 DEF AttemptInv
  <2>8. \A p \in Pushes' : p.new = newPasswd'["client"] => \A q \in Pushes' : q.sn <= p.sn
    <3>1. \A p \in Pushes' : p.new = k => p.sn = sendPacketSN'["client"]
      BY <1>1, <2>4
    <3> QED
      BY <1>2, <2>6, <3>1 DEF k
  <2>9. \A p \in Pushes : Newest(p) => Newest(p)'
    BY <1>1, <1>2, <2>4 DEF Newest
  <2> QED
    BY <1>1, <1>2, <2>4, <2>5, <2>6, <2>7, <2>8, <2>9 DEF AttemptInv, Attempting
<1>4. SharedInv'
  <2> SUFFICES ASSUME ackedKey # NoKey PROVE SharedInv'
    BY <1>2 DEF SharedInv
  <2>1. PICK r : Pushes' = Pushes \union {r} /\ r.new = k
    BY PushSent DEF TimerResend
  <2> QED
    BY <1>1, <1>2, <2>1 DEF SharedInv
<1> QED
  BY <1>3, <1>4

\* The client opens an acknowledgement: the key it holds is the last it pushed,
\* the server took it up, so the network delivered all it ever pushed.
LEMMA SettleOrdered ==
    ASSUME IInv, IInv', OrderedInv, AckUnpack, inHand = newPasswd["client"]
    PROVE  OrderedInv'
<1> SUFFICES ASSUME Ordered PROVE AttemptInv' /\ SharedInv'
  BY DEF OrderedInv, Ordered
<1>0. "client" \in Ends /\ "server" \in Ends
  BY DEF Ends
<1>1. /\ AttemptInv /\ TypeOK /\ Attempting
      /\ newPasswd["client"] \in adopted /\ newPasswd["server"] \in adopted \union {NoKey}
      /\ NoKey \notin adopted /\ newPasswd["client"] \notin unused
  BY DEF OrderedInv, IInv, AckUnpack, RecvAt, ClientInv, KeyInv, Attempting
<1>2. /\ UNCHANGED <<newPasswd, adopted, arrived, network, unused>>
      /\ ackedKey' = newPasswd["client"]
      /\ older' = Keys \ (unused \union {newPasswd["client"]})
      /\ Pushes' = Pushes
  BY <1>1 DEF AckUnpack, keyVars, recvVars, wireVars, Pushes, IInv, ClientInv, RecvAt
<1>3. /\ \A p \in Pushes : p.sn \in Int
      /\ arrived["server"] \in Int
  BY <1>1, Numbers DEF Pushes
<1>4. PICK s \in Pushes : /\ s.new = newPasswd["server"] /\ s.sn <= arrived["server"]
                          /\ Newest(s)
  BY <1>1 DEF AttemptInv
<1>5. PICK c \in Pushes : c.new = newPasswd["client"] /\ \A q \in Pushes : q.sn <= c.sn
  BY <1>1 DEF AttemptInv
<1>6. c.sn <= s.sn /\ s.sn <= c.sn
  BY <1>1, <1>4, <1>5 DEF Newest
<1>7. newPasswd["server"] = newPasswd["client"]
  BY <1>1, <1>3, <1>4, <1>5, <1>6 DEF AttemptInv
<1>8. \A p \in Pushes : p.sn <= arrived["server"]
  BY <1>3, <1>4, <1>5, <1>6
<1>9. ~Attempting'
  BY <1>1, <1>2 DEF Attempting
<1> QED
  BY <1>1, <1>2, <1>7, <1>8, <1>9 DEF AttemptInv, SharedInv

\* The server takes up an attempt: a newer one than it had before, and none
\* that was older when the client opened an acknowledgement.
LEMMA TakenUpOrdered ==
    ASSUME IInv, IInv', OrderedInv, NEW p \in network, RecvCreate(p) PROVE OrderedInv'
<1> SUFFICES ASSUME Ordered PROVE AttemptInv' /\ SharedInv'
  BY DEF OrderedInv, Ordered
<1>1. /\ AttemptInv /\ SharedInv /\ TypeOK /\ p \in Pushes
      /\ p.new \in Keys /\ NoKey \notin Keys
  BY KeysAssumption DEF OrderedInv, IInv, RecvCreate, Receives, Pushes, PacketInv
<1>2. /\ arrived["server"] < p.sn /\ arrived'["server"] = p.sn
      /\ \A q \in Pushes : q.sn \in Int
      /\ arrived["server"] \in Int
  <2>1. p \in Pending("server") /\ arrived' = [arrived EXCEPT !["server"] = p.sn]
    BY NetworkAssumption
    DEF RecvCreate, Receives, Takes, Deliverable, Arrive, Ordered
  <2>2. arrived'["server"] = p.sn
    BY <1>1, <2>1 DEF TypeOK, Ends
  <2> QED
    BY <1>1, <2>1, <2>2, Numbers DEF Pending, Pushes
<1>3. /\ Pushes' = Pushes /\ sendPacketSN' = sendPacketSN
      /\ UNCHANGED <<unused, connectPc, ackedKey, older, inUse>> /\ Said' = Said
  BY DEF RecvCreate, wireVars, pcVars, closeVars, Pushes, Said, Alive
<1>4. /\ newPasswd'["server"] = p.new /\ newPasswd'["client"] = newPasswd["client"]
      /\ adopted' = adopted \union {p.new}
  BY <1>1 DEF RecvCreate, TypeOK, Ends
<1>5. AttemptInv'
  <2> SUFFICES ASSUME Attempting PROVE AttemptInv'
    BY <1>3 DEF AttemptInv, Attempting
  <2>1. \A q \in Pushes : q.new \in adopted => q.sn <= p.sn
    BY <1>1, <1>2 DEF AttemptInv, Newest
  <2>2. Newest(p)'
    <3>1. \A q \in Pushes : q.new = p.new => q.sn = p.sn
      BY <1>1 DEF AttemptInv
    <3>2. \A q \in Pushes : q.new \in adopted \union {p.new} => q.sn <= p.sn
      BY <1>2, <1>1, <2>1, <3>1
    <3> QED
      BY <1>3, <1>4, <3>2 DEF Newest
  <2>3. p.sn <= arrived'["server"]
    BY <1>1, <1>2
  <2>4. \A k \in adopted' : \E q \in Pushes' : q.new = k
    BY <1>1, <1>3, <1>4 DEF AttemptInv
  <2>5. UnderWay' = UnderWay
    BY <1>3 DEF UnderWay
  <2> QED
    BY <1>1, <1>3, <1>4, <2>2, <2>3, <2>4, <2>5 DEF AttemptInv
<1>6. SharedInv'
  <2> SUFFICES ASSUME ackedKey # NoKey PROVE SharedInv'
    BY <1>3 DEF SharedInv
  <2>1. p.new \notin older
    BY <1>1, <1>2 DEF SharedInv
  <2>2. \A q \in Pushes : q.sn <= arrived["server"] => q.sn <= arrived'["server"]
    BY <1>1, <1>2
  <2> QED
    BY <1>1, <1>3, <1>4, <2>1, <2>2 DEF SharedInv
<1> QED
  BY <1>5, <1>6

\* A delivery moves arrived forward.
LEMMA ArrivesLater ==
    ASSUME TypeOK, NEW e \in Ends, NEW p \in network,
           Deliverable(e, p), Arrive(e, p), Network # "unordered"
    PROVE  arrived["server"] <= arrived'["server"]
<1>1. p \in Pending(e) /\ arrived' = [arrived EXCEPT ![e] = p.sn]
  BY NetworkAssumption DEF Deliverable, Arrive
<1>2. p.sn \in Int /\ arrived["server"] \in Int
  BY Numbers
<1> QED
  BY <1>1, <1>2, Numbers DEF Pending, TypeOK

LEMMA ReceptionOrdered ==
    ASSUME IInv, IInv', OrderedInv, NEW e \in Ends, NEW p \in network, Receive(e, p)
    PROVE  OrderedInv'
<1> USE DEF keyVars, pcVars, closeVars, wireVars, recvVars, history
<1>0. TypeOK
  BY DEF IInv
<1>1. CASE RecvCreate(p)
  BY <1>1, TakenUpOrdered
<1>2. ASSUME \/ Drop(e, p) \/ RecvAck(p) \/ RecvPing(p) \/ RecvData(p)
             \/ RecvClose(e, p) \/ RecvIgnored(e, p)
      PROVE  OrderedInv'
  <2>1. Network # "unordered" => arrived["server"] <= arrived'["server"]
    BY <1>0, <1>2, ArrivesLater
    DEF Drop, RecvAck, RecvPing, RecvData, RecvClose, RecvIgnored, Receives, Takes, Ends
  <2>2. /\ UNCHANGED <<unused, newPasswd, adopted, ackedKey, older, inUse, wireVars, connectPc>>
    BY <1>2 DEF Drop, RecvAck, RecvPing, RecvData, RecvClose, RecvIgnored
  <2>3. /\ closePc["client"] # "open" => closePc'["client"] # "open"
        /\ ~Alive("client") => ~Alive("client")'
    <3>1. CASE RecvClose(e, p)
      <4>1. closePc["client"] # "open" => closePc'["client"] # "open"
        BY <1>0, <3>1 DEF RecvClose, CloseWithoutSendMSG, TypeOK, Ends
      <4>2. ~Alive("client") => ~Alive("client")'
        BY <1>0, <3>1 DEF RecvClose, CloseWithoutSendMSG, TypeOK, Ends, Alive
      <4> QED
        BY <4>1, <4>2
    <3>2. CASE ~RecvClose(e, p)
      BY <1>2, <3>2 DEF Drop, RecvAck, RecvPing, RecvData, RecvIgnored, Alive
    <3> QED
      BY <3>1, <3>2
  <2>4. Pushes' = Pushes /\ UnderWay' = UnderWay
    BY <2>2 DEF Pushes, UnderWay
  <2> QED
    BY <2>1, <2>2, <2>3, <2>4, OrderedStays DEF Attempting
<1> QED
  BY <1>1, <1>2 DEF Receive

LEMMA HandleOrdered ==
    ASSUME IInv, IInv', OrderedInv, NEW e \in Ends, Handle(e) PROVE OrderedInv'
<1> USE DEF keyVars, pcVars, closeVars, wireVars, recvVars, history
<1>0. TypeOK /\ arrived["server"] \in Int /\ arrived["server"] <= arrived["server"]
  BY Numbers DEF IInv
<1>1. ASSUME UNCHANGED <<unused, newPasswd, adopted, ackedKey, older, arrived, closePc, connectPc>>,
             Pushes' = Pushes, ~Alive("client") => ~Alive("client")',
             \/ inUse # NoKey /\ inUse' # NoKey
             \/ inUse' # NoKey
             \/ inUse' = inUse /\ sendPacketSN'["client"] = sendPacketSN["client"]
      PROVE  OrderedInv'
  <2>1. UnderWay' = UnderWay
    BY <1>1 DEF UnderWay
  <2> QED
    BY <1>0, <1>1, <2>1, OrderedStays DEF Attempting
<1>2. CASE AckUnpack
  <2>1. CASE inHand = newPasswd["client"]
    BY <1>2, <2>1, SettleOrdered
  <2>2. CASE inHand # newPasswd["client"]
    BY <1>1, <1>2, <2>2 DEF AckUnpack, Alive, Pushes
  <2> QED
    BY <2>1, <2>2
<1>3. CASE AckEstablish
  <2>1. inUse' # NoKey
    BY <1>3 DEF AckEstablish, RecvGoto, RecvAt, IInv, ClientInv, TypeOK, Ends
  <2> QED
    BY <1>1, <1>3, <2>1 DEF AckEstablish, Alive, Pushes
<1>4. CASE AckPanics
  <2>1. ~Alive("client") => ~Alive("client")'
    BY <1>0, <1>4 DEF AckPanics, RecvAt, Alive
  <2> QED
    BY <1>1, <1>4, <2>1 DEF AckPanics, Pushes
<1>5. CASE AckConfirm
  <2>1. Pushes' = Pushes
    BY <1>5, SendsNoPush DEF AckConfirm, SendPacket
  <2>2. inUse # NoKey
    BY <1>5 DEF AckConfirm, RecvAt, IInv, ClientInv
  <2> QED
    BY <1>1, <1>5, <2>1, <2>2 DEF AckConfirm, Alive
<1>6. CASE CreateAck
  <2>1. Pushes' = Pushes /\ sendPacketSN'["client"] = sendPacketSN["client"]
    BY <1>6, SendsNoPush, SendsOwn DEF CreateAck, Pushes
  <2> QED
    BY <1>1, <1>6, <2>1 DEF CreateAck, Alive
<1>7. CASE AckSignal \/ CreateReady \/ PingEstablish \/ DataEstablish \/ RecvEnds(e)
  BY <1>1, <1>7
  DEF AckSignal, CreateReady, PingEstablish, DataEstablish, RecvEnds, Alive, Pushes
<1> QED
  BY <1>2, <1>3, <1>4, <1>5, <1>6, <1>7 DEF Handle

LEMMA CloseOrdered ==
    ASSUME IInv, IInv', OrderedInv, NEW e \in Ends, Close(e) PROVE OrderedInv'
<1> USE DEF keyVars, pcVars, closeVars, wireVars, recvVars, history
<1>0. TypeOK /\ arrived["server"] \in Int /\ arrived["server"] <= arrived["server"]
  BY Numbers DEF IInv
<1>1. /\ Pushes' = Pushes /\ UnderWay' = UnderWay
      /\ UNCHANGED <<unused, newPasswd, adopted, ackedKey, older, inUse, arrived>>
  BY ClosePushes DEF Close, UnderWay
<1>2. CASE e = "server"
  <2>1. sendPacketSN'["client"] = sendPacketSN["client"]
    BY <1>0, <1>2 DEF Close, SendCloses, TypeOK, Ends
  <2>2. /\ closePc["client"] # "open" => closePc'["client"] # "open"
        /\ ~Alive("client") => ~Alive("client")'
    BY <1>0, <1>2 DEF Close, Alive, TypeOK, Ends
  <2> QED
    BY <1>0, <1>1, <2>1, <2>2, OrderedStays DEF Attempting
<1>3. CASE e = "client"
  <2>1. ASSUME Ordered, Attempting
        PROVE  /\ sendPacketSN'["client"] = sendPacketSN["client"] + Copies
               /\ Said' = Said + Copies
    <3>1. sendPacketSN["client"] \in Nat /\ Copies \in Nat /\ SNSpace \in Nat
      BY <1>0, Numbers, ClosingAssumption, SNSpaceAssumption
    <3>2. Said' = Said + Copies /\ Said + Copies <= 2 * Copies /\ Said \in Nat
      <4>1. Alive("client") /\ closePc["client"] \in {"open", "closed"}
        BY <1>3 DEF Close
      <4>2. CASE closePc["client"] = "open"
        <5>1. closePc'["client"] # "open" /\ Alive("client")'
          BY <1>0, <1>3, <4>1, <4>2 DEF Close, Alive, TypeOK, Ends
        <5> QED
          BY <3>1, <4>1, <4>2, <5>1 DEF Said
      <4>3. CASE closePc["client"] = "closed"
        <5>1. closePc'["client"] # "open" /\ ~Alive("client")'
          BY <1>0, <1>3, <4>1, <4>3 DEF Close, Alive, TypeOK, Ends
        <5> QED
          BY <3>1, <4>1, <4>3, <5>1 DEF Said
      <4> QED
        BY <4>1, <4>2, <4>3
    <3>3. sendPacketSN["client"] <= Cardinality(Keys) + Said
      <4>1. sendPacketSN["client"] + Cardinality(unused) + UnderWay
              <= Cardinality(Keys) + Said
        BY <2>1 DEF OrderedInv, AttemptInv
      <4> QED
        BY <1>0, <2>1, <3>1, <3>2, <4>1, CardsAreNat
    <3>4. sendPacketSN["client"] + Copies < SNSpace
      <4>1. Cardinality(Keys) + 2 * Copies < SNSpace /\ Cardinality(Keys) \in Nat
        BY <1>0, <2>1, CardsAreNat DEF Ordered
      <4> QED
        BY <3>1, <3>2, <3>3, <4>1
    <3>5. sendPacketSN'["client"] = (sendPacketSN["client"] + Copies) % SNSpace
      BY <1>0, <1>3 DEF Close, SendCloses, TypeOK
    <3>6. (sendPacketSN["client"] + Copies) % SNSpace = sendPacketSN["client"] + Copies
      BY <3>1, <3>4, SMT
    <3> QED
      BY <3>2, <3>5, <3>6
  <2>2. ASSUME Attempting'
        PROVE  /\ Attempting
               /\ Ordered => sendPacketSN["client"] <= sendPacketSN'["client"]
               /\ Ordered => sendPacketSN'["client"] + UnderWay' + Said
                               <= sendPacketSN["client"] + UnderWay + Said'
    <3>1. Attempting
      BY <1>1, <2>2 DEF Attempting
    <3>2. /\ sendPacketSN["client"] \in Nat /\ Copies \in Nat /\ UnderWay \in Nat
          /\ Said \in Nat
      BY <1>0, Numbers, ClosingAssumption, SaidBounds DEF UnderWay
    <3> QED
      BY <1>1, <2>1, <3>1, <3>2
  <2> QED
    BY <1>0, <1>1, <2>2, OrderedKept
<1> QED
  BY <1>2, <1>3 DEF Ends

LEMMA NextOrdered == IInv /\ IInv' /\ OrderedInv /\ [Next]_vars => OrderedInv'
<1> SUFFICES ASSUME IInv, IInv', OrderedInv, [Next]_vars PROVE OrderedInv'
  OBVIOUS
<1> USE DEF keyVars, pcVars, closeVars, wireVars, recvVars, history
<1>0. TypeOK /\ arrived["server"] \in Int /\ arrived["server"] <= arrived["server"]
  BY Numbers DEF IInv
<1>1. ASSUME UNCHANGED <<unused, newPasswd, adopted, ackedKey, older, inUse, arrived>>,
             Pushes' = Pushes, UnderWay' = UnderWay, UNCHANGED fault,
             closePc["client"] # "open" => closePc'["client"] # "open",
             inUse # NoKey \/ sendPacketSN'["client"] = sendPacketSN["client"]
      PROVE  OrderedInv'
  BY <1>0, <1>1, OrderedStays DEF Attempting, Alive
<1>2. CASE TimerSetPassword
  <2>1. UnderWay' = UnderWay
    BY <1>0, <1>2 DEF TimerSetPassword, UnderWay, TypeOK, Ends
  <2> QED
    BY <1>1, <1>2, <2>1 DEF TimerSetPassword, Pushes
<1>3. ASSUME RequestConnect \/ (\E e \in Ends : SelectDone(e)) PROVE OrderedInv'
  <2>1. UnderWay' = UnderWay
    BY <1>0, <1>3 DEF RequestConnect, SelectDone, UnderWay, TypeOK, Ends
  <2> QED
    BY <1>1, <1>3, <2>1 DEF RequestConnect, SelectDone, Pushes
<1>4. CASE RequestSend
  <2>1. Pushes' = Pushes /\ sendPacketSN'["client"] = sendPacketSN["client"]
    BY <1>4, SendsNoPush, SendsOwn DEF RequestSend, SendPacket
  <2>2. UnderWay' = UnderWay
    BY <1>0, <1>4 DEF RequestSend, UnderWay, TypeOK, Ends
  <2> QED
    BY <1>1, <1>4, <2>1, <2>2 DEF RequestSend
<1>5. CASE ReaderStart \/ (\E e \in Ends : ReaderRead(e)) \/ UNCHANGED vars
  BY <1>1, <1>5 DEF ReaderStart, ReaderRead, vars, UnderWay, Pushes
<1>6. ASSUME NEW e \in Ends, Ping(e) \/ ReaderSend(e) PROVE OrderedInv'
  <2>1. PICK type \in {"PING", "DATA"} : SendPacket(e, type)
    BY <1>6 DEF Ping, ReaderSend
  <2>2. Pushes' = Pushes
    BY <2>1, SendsNoPush DEF SendPacket
  <2>3. /\ UNCHANGED <<unused, newPasswd, adopted, ackedKey, older, inUse, arrived,
                       connectPc, closePc, fault>>
        /\ UnderWay' = UnderWay
    BY <1>6 DEF Ping, ReaderSend, UnderWay
  <2>4. CASE e = "client"
    <3>1. inUse # NoKey
      BY <1>6, <2>4 DEF Ping, ReaderSend, IInv, ClientInv
    <3> QED
      BY <1>1, <2>2, <2>3, <3>1
  <2>5. CASE e = "server"
    <3>1. sendPacketSN'["client"] = sendPacketSN["client"]
      BY <2>1, <2>5, SendsOwn DEF SendPacket
    <3> QED
      BY <1>1, <2>2, <2>3, <3>1
  <2> QED
    BY <2>4, <2>5 DEF Ends
<1>7. ASSUME NEW e \in Ends, CloseMark(e) \/ CloseChannels(e) PROVE OrderedInv'
  <2>1. closePc["client"] # "open" => closePc'["client"] # "open"
    BY <1>0, <1>7 DEF CloseMark, CloseChannels, CloseWithoutSendMSG, TypeOK, Ends
  <2> QED
    BY <1>1, <1>7, <2>1 DEF CloseMark, CloseChannels, UnderWay, Pushes
<1>8. ASSUME NEW e \in Ends, NEW p \in network, DispatchPanics(e, p) PROVE OrderedInv'
  <2>1. Network # "unordered" => arrived["server"] <= arrived'["server"]
    BY <1>0, <1>8, ArrivesLater DEF DispatchPanics
  <2>2. ~Alive("client") => ~Alive("client")'
    BY <1>0, <1>8 DEF DispatchPanics, Alive, TypeOK, Ends
  <2>3. UnderWay' = UnderWay /\ Pushes' = Pushes
    BY <1>8 DEF DispatchPanics, UnderWay, Pushes
  <2> QED
    BY <1>8, <2>1, <2>2, <2>3, OrderedStays DEF DispatchPanics, Attempting
<1> QED
  BY ConnectOrdered, DrawOrdered, ResendOrdered, ReceptionOrdered, HandleOrdered,
     CloseOrdered, <1>2, <1>3, <1>4, <1>5, <1>6, <1>7, <1>8 DEF Next, Retry

(* On a network that keeps the order, lossy or not, the server never holds  *)
(* a key older than the one whose acknowledgement the client opened, if the *)
(* client makes fewer attempts than there are serial numbers                *)
(* (tryConnectProc's retries against recvPacketProc's MSG_CREATE_CONN).     *)
THEOREM KeyIsShared == Spec => [](Ordered => SettledKeyShared)
<1>1. OrderedInv => (Ordered => SettledKeyShared)
  BY DEF OrderedInv, SharedInv, SettledKeyShared
<1> QED
  BY <1>1, InitOrdered, NextOrdered, Inductive, PTL DEF Spec
=============================================================================

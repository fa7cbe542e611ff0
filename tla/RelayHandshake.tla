--------------------------- MODULE RelayHandshake ---------------------------
(***************************************************************************)
(* One client and one server AdvancedRelayConn agreeing on a session key   *)
(* (udprelay/relay_connection.go), with AES_GCM packets.                   *)
(*                                                                         *)
(* The client draws a key, pushes it in MSG_CREATE_CONN and draws another  *)
(* one at every retry. The server adopts the key it receives last and      *)
(* answers MSG_CREATE_CONN_ACK; the client's first ping or datagram tells  *)
(* the server that the acknowledgement arrived. Each connection has four   *)
(* goroutines here: tryConnectProc or requestConnectProc (connectPc), the  *)
(* packet handler recvPacketProc (recvPc), the goroutine that forwards     *)
(* user datagrams (readerPc) and whoever closes it (closePc). Nothing      *)
(* guards connStat, so a handler's test of it and its assignment are apart *)
(* wherever another goroutine may come in between.                         *)
(***************************************************************************)
EXTENDS SerialNumber, FiniteSets

CONSTANTS
    Keys,        \* the session keys the client may draw: one per attempt
    Orig,        \* the key made from the configured password
    NoKey,       \* a key the other end does not have, or no password at all
    Network,     \* "unordered", "lossy" or "reliable"
    Closers,     \* the ends whose manager or timeout may close the connection
    Copies,      \* how often a close says MSG_CLOSE_CONN: 3 in the code
    MaxTraffic,  \* bound: REQ, PING and DATA leave no more packets than this
    MaxAcks      \* bound: no CREATE is handled after this many packets

ASSUME KeysAssumption ==
    Orig \notin Keys /\ NoKey \notin Keys /\ Orig # NoKey
ASSUME NetworkAssumption == Network \in {"unordered", "lossy", "reliable"}
ASSUME BoundsAssumption == MaxTraffic \in Nat /\ MaxAcks \in Nat
ASSUME ClosingAssumption == Closers \subseteq {"client", "server"} /\ Copies \in Nat

Ends == {"client", "server"}
Peer(e) == IF e = "client" THEN "server" ELSE "client"

Stats == {"INIT", "WAIT_CONN", "WAIT_ACK", "READY", "ESTABLISHED", "CLOSED"}
Types == {"REQ", "CREATE", "ACK", "CLOSE", "DATA", "PING"}

\* Where recvPacketProc is: at the receive, past the loop's test of connStat;
\* ended; or in the handler of an ACK, a CREATE, a PING or a DATA.
RecvLabels == {"wait", "done", "unpack", "establish", "signal", "confirm",
               "ready", "sendAck", "ping", "data"}

AnyKey == Keys \union {Orig, NoKey}

\* key encrypts the packet; a CREATE or an ACK carries a part sealed a second
\* time, and the sealed part of a CREATE is the new key.
Packets == [to : Ends, type : Types, key : AnyKey, sn : SerialNumbers,
            seal : AnyKey, new : Keys \union {NoKey}]

VARIABLES
    connStat,       \* [Ends -> Stats]
    password,       \* Orig, or NoKey once invalidOriginalPasswd cleared it
    newPasswd,      \* the key being negotiated
    cryptNew,       \* the key inside cryptInstanceNewPasswd
    cryptInstance,  \* the key inside cryptInstance
    sendPacketSN,
    recvPacketSn,
    signalled,      \* commonChan holds a signal or is closed
    connectPc,      \* tryConnectProc / requestConnectProc
    recvPc,         \* recvPacketProc
    readerPc,       \* the goroutine forwarding user datagrams
    closePc,        \* how far a close got; "closed": both channels are closed
    queued,         \* what recvChan may still hold when nothing more comes in
    inHand,         \* the seal of the ACK being handled; NoKey: ackInfo is nil
    fault,          \* what made the process of an end panic
    network,        \* every packet ever sent
    arrived,        \* the last packet the network delivered, when it is a FIFO
    unused,         \* keys not drawn yet
    adopted,        \* history: the keys the server adopted
    ackedKey,       \* history: the key whose ACK the client opened
    older,          \* history: the keys drawn before that one
    inUse           \* history: the client's key when it became ESTABLISHED

keyVars   == <<password, newPasswd, cryptNew, cryptInstance, unused>>
pcVars    == <<connectPc, recvPc, readerPc, signalled>>
closeVars == <<closePc, queued>>
wireVars  == <<sendPacketSN, network>>
recvVars  == <<recvPacketSn, arrived>>
history   == <<adopted, ackedKey, older, inUse>>
vars == <<connStat, keyVars, pcVars, closeVars, inHand, wireVars, recvVars, fault,
          history>>

TypeOK ==
    /\ connStat \in [Ends -> Stats]
    /\ password \in [Ends -> {Orig, NoKey}]
    /\ newPasswd \in [Ends -> Keys \union {NoKey}]
    /\ cryptNew \in [Ends -> Keys \union {NoKey}]
    /\ cryptInstance \in [Ends -> {Orig, NoKey}]
    /\ sendPacketSN \in [Ends -> SerialNumbers]
    /\ recvPacketSn \in [Ends -> SerialNumbers]
    /\ signalled \in [Ends -> BOOLEAN]
    /\ connectPc \in [Ends -> {"start", "send", "select", "drawn", "set", "done"}]
    /\ recvPc \in [Ends -> RecvLabels]
    /\ readerPc \in [Ends -> {"off", "read", "got"}]
    /\ closePc \in [Ends -> {"open", "said", "marked", "closed"}]
    /\ queued \in [Ends -> SUBSET Packets]
    /\ inHand \in AnyKey
    /\ fault \in [Ends -> {"none", "nilAckInfo", "sendOnClosedChan"}]
    /\ network \subseteq Packets
    /\ arrived \in [Ends -> SerialNumbers]
    /\ unused \subseteq Keys
    /\ adopted \subseteq Keys \union {NoKey}
    /\ {ackedKey, inUse} \subseteq Keys \union {NoKey}
    /\ older \subseteq Keys

Init ==
    /\ connStat = [e \in Ends |-> "INIT"]
    /\ password = [e \in Ends |-> Orig]
    /\ newPasswd = [e \in Ends |-> NoKey]
    /\ cryptNew = [e \in Ends |-> NoKey]
    /\ cryptInstance = [e \in Ends |-> Orig]
    /\ sendPacketSN = [e \in Ends |-> 0]
    /\ recvPacketSn = [e \in Ends |-> 0]
    /\ signalled = [e \in Ends |-> FALSE]
    /\ connectPc = [e \in Ends |-> "start"]
    /\ recvPc = [e \in Ends |-> "wait"]
    /\ readerPc = [e \in Ends |-> "off"]
    /\ closePc = [e \in Ends |-> "open"]
    /\ queued = [e \in Ends |-> {}]
    /\ inHand = NoKey
    /\ fault = [e \in Ends |-> "none"]
    /\ network = {}
    /\ arrived = [e \in Ends |-> 0]
    /\ unused = Keys
    /\ adopted = {}
    /\ ackedKey = NoKey
    /\ older = {}
    /\ inUse = NoKey

\* A panic takes the whole process of an end with it.
Alive(e) == fault[e] = "none"

\* The end e goes on in recvPacketProc at a label.
RecvAt(e, label) == Alive(e) /\ recvPc[e] = label
RecvGoto(e, label) == recvPc' = [recvPc EXCEPT ![e] = label]

\* The loop of recvPacketProc: the test that ends it.
RecvLoop(e) == RecvGoto(e, IF connStat'[e] = "CLOSED" THEN "done" ELSE "wait")

-----------------------------------------------------------------------------
\* sendPacket: the status at the time of the call chooses the key.
SendKey(e) ==
    IF connStat[e] \in {"ESTABLISHED", "READY"} THEN cryptNew[e] ELSE cryptInstance[e]

SendSealed(e, type, key, seal, new) ==
    /\ sendPacketSN' = [sendPacketSN EXCEPT ![e] = NextSN(@)]
    /\ network' = network \union
         {[to |-> Peer(e), type |-> type, key |-> key,
           sn |-> NextSN(sendPacketSN[e]), seal |-> seal, new |-> new]}

SendPacket(e, type) == SendSealed(e, type, SendKey(e), NoKey, NoKey)

MaySend(e) == sendPacketSN[e] < MaxTraffic

-----------------------------------------------------------------------------
(* The client's tryConnectProc.                                             *)

\* Its test of INIT may have been before a close that came before the
\* assignment.
Connect(k) ==
    /\ Alive("client")
    /\ connectPc["client"] = "start"
    /\ connStat["client"] \in {"INIT", "CLOSED"}
    /\ k \in unused
    /\ unused' = unused \ {k}
    /\ connStat' = [connStat EXCEPT !["client"] = "WAIT_ACK"]
    /\ newPasswd' = [newPasswd EXCEPT !["client"] = k]
    /\ cryptNew' = [cryptNew EXCEPT !["client"] = k]
    /\ SendSealed("client", "CREATE", cryptInstance["client"], password["client"], k)
    /\ connectPc' = [connectPc EXCEPT !["client"] = "select"]
    /\ UNCHANGED <<password, cryptInstance, recvPc, readerPc, signalled, closeVars,
                   inHand, recvVars, fault, history>>

\* The retry timer fired. createConnInfo.NewPasswd and this.newPasswd are one
\* slice: rand.Read changes both. select may take the timer although
\* commonChan is ready too.
TimerDraw(k) ==
    /\ Alive("client")
    /\ connectPc["client"] = "select"
    /\ k \in unused
    /\ unused' = unused \ {k}
    /\ newPasswd' = [newPasswd EXCEPT !["client"] = k]
    /\ connectPc' = [connectPc EXCEPT !["client"] = "drawn"]
    /\ UNCHANGED <<connStat, password, cryptNew, cryptInstance, recvPc, readerPc,
                   signalled, closeVars, inHand, wireVars, recvVars, fault, history>>

\* Mutant: SetPassword is given the wrong field.
TimerSetOldPassword ==
    /\ Alive("client")
    /\ connectPc["client"] = "drawn"
    /\ cryptNew' = [cryptNew EXCEPT !["client"] = password["client"]]
    /\ connectPc' = [connectPc EXCEPT !["client"] = "set"]
    /\ UNCHANGED <<connStat, password, newPasswd, cryptInstance, unused, recvPc,
                   readerPc, signalled, closeVars, inHand, wireVars, recvVars, fault,
                   history>>

TimerSetPassword ==
    /\ Alive("client")
    /\ connectPc["client"] = "drawn"
    /\ cryptNew' = [cryptNew EXCEPT !["client"] = newPasswd["client"]]
    /\ connectPc' = [connectPc EXCEPT !["client"] = "set"]
    /\ UNCHANGED <<connStat, password, newPasswd, cryptInstance, unused, recvPc,
                   readerPc, signalled, closeVars, inHand, wireVars, recvVars, fault,
                   history>>

TimerResend ==
    /\ Alive("client")
    /\ connectPc["client"] = "set"
    /\ SendSealed("client", "CREATE", SendKey("client"), password["client"],
                  newPasswd["client"])
    /\ connectPc' = [connectPc EXCEPT !["client"] =
                       IF connStat["client"] = "WAIT_ACK" THEN "select" ELSE "done"]
    /\ UNCHANGED <<connStat, keyVars, recvPc, readerPc, signalled, closeVars, inHand,
                   recvVars, fault, history>>

\* commonChan was ready: both connecting goroutines return.
SelectDone(e) ==
    /\ Alive(e)
    /\ connectPc[e] = "select"
    /\ signalled[e]
    /\ connectPc' = [connectPc EXCEPT ![e] = "done"]
    /\ UNCHANGED <<connStat, keyVars, recvPc, readerPc, signalled, closeVars, inHand,
                   wireVars, recvVars, fault, history>>

-----------------------------------------------------------------------------
(* The server's RequestConnect and requestConnectProc.                      *)

\* ReqClientConn calls it with the manager's lock held, before any packet is
\* dispatched to the connection.
RequestConnect ==
    /\ Alive("server")
    /\ connectPc["server"] = "start"
    /\ connStat["server"] = "INIT"
    /\ connStat' = [connStat EXCEPT !["server"] = "WAIT_CONN"]
    /\ connectPc' = [connectPc EXCEPT !["server"] = "send"]
    /\ UNCHANGED <<keyVars, recvPc, readerPc, signalled, closeVars, inHand, wireVars,
                   recvVars, fault, history>>

\* The first request, and one at every timer.
RequestSend ==
    /\ Alive("server")
    /\ connectPc["server"] \in {"send", "select"}
    /\ MaySend("server")
    /\ SendPacket("server", "REQ")
    /\ connectPc' = [connectPc EXCEPT !["server"] =
                       IF connStat["server"] = "WAIT_CONN" THEN "select" ELSE "done"]
    /\ UNCHANGED <<connStat, keyVars, recvPc, readerPc, signalled, closeVars, inHand,
                   recvVars, fault, history>>

-----------------------------------------------------------------------------
(* The network. "unordered": loss, duplication and any order. "lossy": a    *)
(* FIFO that loses packets. "reliable": a FIFO that loses none and delivers *)
(* a CREATE before its time stamp expires.                                  *)

Pending(e) == {p \in network : p.to = e /\ p.sn > arrived[e]}

Deliverable(e, p) ==
    CASE Network = "unordered" -> p \in network /\ p.to = e
      [] Network = "lossy"     -> p \in Pending(e)
      [] Network = "reliable"  -> p \in Pending(e) /\ \A q \in Pending(e) : p.sn <= q.sn

Arrive(e, p) ==
    arrived' = IF Network = "unordered" THEN arrived ELSE [arrived EXCEPT ![e] = p.sn]

\* recv_udp_proc lets a packet through to recvChan while the connection is not
\* closed; what was let through before can still be received afterwards.
LetThrough(e) == connStat[e] # "CLOSED" /\ closePc[e] # "closed"

(* recvPacketProc receives the next packet. The connection may have been    *)
(* closed since the loop's test: what recvChan held is handled all the      *)
(* same.                                                                    *)
Takes(e, p) ==
    /\ RecvAt(e, "wait")
    /\ LetThrough(e) \/ p \in queued[e]
    /\ Deliverable(e, p)
    /\ Arrive(e, p)

\* recvChan is closed and empty.
RecvEnds(e) ==
    /\ RecvAt(e, "wait")
    /\ closePc[e] = "closed"
    /\ RecvGoto(e, "done")
    /\ UNCHANGED <<connStat, keyVars, connectPc, readerPc, signalled, closeVars,
                   inHand, wireVars, recvVars, fault, history>>

\* A handler brought a closed connection back to life: IsClosed is false, and
\* recv_udp_proc sends the next packet on the closed recvChan.
DispatchPanics(e, p) ==
    /\ Alive(e)
    /\ closePc[e] = "closed"
    /\ connStat[e] # "CLOSED"
    /\ Deliverable(e, p)
    /\ Arrive(e, p)
    /\ fault' = [fault EXCEPT ![e] = "sendOnClosedChan"]
    /\ UNCHANGED <<connStat, keyVars, pcVars, closeVars, inHand, wireVars,
                   recvPacketSn, history>>

\* Mutant: the error of DecryptPacket is not looked at.
DecryptsAll(e, p) == TRUE

\* The new key is tried, then the original one.
Decrypts(e, p) == p.key # NoKey /\ p.key \in {cryptNew[e], cryptInstance[e]}

Passes(e, p) == Decrypts(e, p) /\ ~Replayed(recvPacketSn[e], p.sn)

Receives(e, p, type) ==
    /\ Takes(e, p)
    /\ p.type = type
    /\ Passes(e, p)
    /\ recvPacketSn' = [recvPacketSn EXCEPT ![e] = p.sn]

Drop(e, p) ==
    /\ Takes(e, p)
    /\ ~Passes(e, p)
    /\ UNCHANGED <<connStat, keyVars, connectPc, readerPc, signalled, closeVars,
                   inHand, wireVars, recvPacketSn, fault, history>>
    /\ RecvLoop(e)

-----------------------------------------------------------------------------
(* recvPacketProc of the server: CREATE.                                    *)

\* Mutant: the test for an established connection is missing.
CreateOpensAlways(p) == p.seal = password["server"]

\* What CREATE needs to be taken up. Its time stamp may have expired.
CreateOpens(p) ==
    /\ connStat["server"] # "ESTABLISHED"
    /\ p.seal = password["server"]

RecvCreate(p) ==
    /\ Receives("server", p, "CREATE")
    /\ CreateOpens(p)
    /\ sendPacketSN["server"] < MaxAcks
    /\ newPasswd' = [newPasswd EXCEPT !["server"] = p.new]
    /\ cryptNew' = [cryptNew EXCEPT !["server"] = p.new]
    /\ adopted' = adopted \union {p.new}
    /\ RecvGoto("server", "ready")
    /\ UNCHANGED <<connStat, password, cryptInstance, unused, connectPc, readerPc,
                   signalled, closeVars, inHand, wireVars, fault, ackedKey, older,
                   inUse>>

\* The status is assigned without a look at it.
CreateReady ==
    /\ RecvAt("server", "ready")
    /\ connStat' = [connStat EXCEPT !["server"] = "READY"]
    /\ RecvGoto("server", "sendAck")
    /\ UNCHANGED <<keyVars, connectPc, readerPc, signalled, closeVars, inHand,
                   wireVars, recvVars, fault, history>>

\* sendAck sends nothing for a closed connection; one closed since its test
\* goes out under the key of a closed connection.
CreateAck ==
    /\ RecvAt("server", "sendAck")
    /\ \/ SendSealed("server", "ACK", SendKey("server"), newPasswd["server"], NoKey)
       \/ connStat["server"] = "CLOSED" /\ UNCHANGED wireVars
    /\ UNCHANGED <<connStat, keyVars, connectPc, readerPc, signalled, closeVars,
                   inHand, recvVars, fault, history>>
    /\ RecvLoop("server")

-----------------------------------------------------------------------------
(* recvPacketProc of the client: ACK. Its statements are apart, for          *)
(* tryConnectProc may draw, set and push another key before each of them,   *)
(* and the connection may be closed.                                        *)

RecvAck(p) ==
    /\ Receives("client", p, "ACK")
    /\ connStat["client"] = "WAIT_ACK"
    /\ inHand' = p.seal
    /\ RecvGoto("client", "unpack")
    /\ UNCHANGED <<connStat, keyVars, connectPc, readerPc, signalled, closeVars,
                   wireVars, fault, history>>

\* Mutant: the key that sealed the acknowledgement is not compared.
AckUnpackAnyKey ==
    /\ RecvAt("client", "unpack")
    /\ ackedKey' = newPasswd["client"]
    /\ older' = Keys \ (unused \union {newPasswd["client"]})
    /\ RecvGoto("client", "establish")
    /\ UNCHANGED <<connStat, keyVars, connectPc, readerPc, signalled, closeVars,
                   inHand, wireVars, recvVars, fault, adopted, inUse>>

\* UnpackAckInfo with the key that is new by now. Its error is logged only.
AckUnpack ==
    /\ RecvAt("client", "unpack")
    /\ \/ /\ inHand = newPasswd["client"]
          /\ ackedKey' = inHand
          /\ older' = Keys \ (unused \union {inHand})
          /\ UNCHANGED inHand
       \/ /\ inHand # newPasswd["client"]
          /\ inHand' = NoKey
          /\ UNCHANGED <<ackedKey, older>>
    /\ RecvGoto("client", "establish")
    /\ UNCHANGED <<connStat, keyVars, connectPc, readerPc, signalled, closeVars,
                   wireVars, recvVars, fault, adopted, inUse>>

\* The status is assigned without a look at it.
AckEstablish ==
    /\ RecvAt("client", "establish")
    /\ connStat' = [connStat EXCEPT !["client"] = "ESTABLISHED"]
    /\ inUse' = cryptNew["client"]
    /\ RecvGoto("client", "signal")
    /\ UNCHANGED <<keyVars, connectPc, readerPc, signalled, closeVars, inHand,
                   wireVars, recvVars, fault, adopted, ackedKey, older>>

\* commonChan <- commonSignRecvAck
AckSignal ==
    /\ RecvAt("client", "signal")
    /\ closePc["client"] # "closed"
    /\ signalled' = [signalled EXCEPT !["client"] = TRUE]
    /\ RecvGoto("client", "confirm")
    /\ UNCHANGED <<connStat, keyVars, connectPc, readerPc, closeVars, inHand,
                   wireVars, recvVars, fault, history>>

\* commonChan was closed meanwhile, or ackInfo is nil.
AckPanics ==
    /\ \/ /\ RecvAt("client", "signal")
          /\ closePc["client"] = "closed"
          /\ fault' = [fault EXCEPT !["client"] = "sendOnClosedChan"]
       \/ /\ RecvAt("client", "confirm")
          /\ inHand = NoKey
          /\ fault' = [fault EXCEPT !["client"] = "nilAckInfo"]
    /\ UNCHANGED <<connStat, keyVars, pcVars, closeVars, inHand, wireVars, recvVars,
                   history>>

InvalidOriginalPasswd(e) ==
    /\ password' = [password EXCEPT ![e] = NoKey]
    /\ cryptInstance' = [cryptInstance EXCEPT ![e] = NoKey]

\* Mutant: the client waits for user data instead of pinging at once.
AckConfirmSilently ==
    /\ RecvAt("client", "confirm")
    /\ inHand # NoKey
    /\ InvalidOriginalPasswd("client")
    /\ UNCHANGED <<connStat, newPasswd, cryptNew, unused, connectPc, readerPc,
                   signalled, closeVars, inHand, wireVars, recvVars, fault, history>>
    /\ RecvLoop("client")

AckConfirm ==
    /\ RecvAt("client", "confirm")
    /\ inHand # NoKey
    /\ SendPacket("client", "PING")
    /\ InvalidOriginalPasswd("client")
    /\ UNCHANGED <<connStat, newPasswd, cryptNew, unused, connectPc, readerPc,
                   signalled, closeVars, inHand, recvVars, fault, history>>
    /\ RecvLoop("client")

-----------------------------------------------------------------------------
(* recvPacketProc of the server: PING and DATA.                             *)

RecvPing(p) ==
    /\ Receives("server", p, "PING")
    /\ connStat["server"] = "READY"
    /\ RecvGoto("server", "ping")
    /\ UNCHANGED <<connStat, keyVars, connectPc, readerPc, signalled, closeVars,
                   inHand, wireVars, fault, history>>

\* A ping establishes the server's connection and keeps the original password.
PingEstablish ==
    /\ RecvAt("server", "ping")
    /\ connStat' = [connStat EXCEPT !["server"] = "ESTABLISHED"]
    /\ RecvGoto("server", "wait")
    /\ UNCHANGED <<keyVars, connectPc, readerPc, signalled, closeVars, inHand,
                   wireVars, recvVars, fault, history>>

\* A datagram may open a session, whose reader forwards the target's answers.
OpensSession ==
    \/ UNCHANGED readerPc
    \/ /\ readerPc["server"] = "off"
       /\ MaySend("server")
       /\ readerPc' = [readerPc EXCEPT !["server"] = "read"]

RecvData(p) ==
    /\ Receives("server", p, "DATA")
    /\ \/ /\ connStat["server"] = "READY"
          /\ RecvGoto("server", "data")
          /\ UNCHANGED readerPc
       \/ /\ connStat["server"] = "ESTABLISHED"
          /\ RecvGoto("server", "wait")
          /\ OpensSession
    /\ UNCHANGED <<connStat, keyVars, connectPc, signalled, closeVars, inHand,
                   wireVars, fault, history>>

\* The first datagram drops the original password and establishes.
DataEstablish ==
    /\ RecvAt("server", "data")
    /\ InvalidOriginalPasswd("server")
    /\ connStat' = [connStat EXCEPT !["server"] = "ESTABLISHED"]
    /\ OpensSession
    /\ RecvGoto("server", "wait")
    /\ UNCHANGED <<newPasswd, cryptNew, unused, connectPc, signalled, closeVars,
                   inHand, wireVars, recvVars, fault, history>>

-----------------------------------------------------------------------------
(* Closing. Two closers at once are ConnLifecycle's.                        *)

\* The status and the signal of closeWithoutSendMSG. What recvChan may hold is
\* what was sent to this end so far.
CloseWithoutSendMSG(e) ==
    /\ connStat' = [connStat EXCEPT ![e] = "CLOSED"]
    /\ signalled' = [signalled EXCEPT ![e] = TRUE]
    /\ closePc' = [closePc EXCEPT ![e] = "marked"]
    /\ queued' = [queued EXCEPT ![e] = {p \in network : p.to = e}]

\* The handler closes and returns. A connection that came back to life is
\* closed for the second time: its commonChan is closed.
RecvClose(e, p) ==
    /\ Receives(e, p, "CLOSE")
    /\ connStat[e] = "ESTABLISHED"
    /\ \/ /\ closePc[e] \in {"open", "said"}
          /\ CloseWithoutSendMSG(e)
          /\ RecvGoto(e, "done")
          /\ UNCHANGED fault
       \/ /\ closePc[e] \in {"marked", "closed"}
          /\ fault' = [fault EXCEPT ![e] = "sendOnClosedChan"]
          /\ UNCHANGED <<connStat, signalled, closeVars, recvPc>>
    /\ UNCHANGED <<keyVars, connectPc, readerPc, inHand, wireVars, history>>

\* MSG_CLOSE_CONN, a few times.
SendCloses(e) ==
    LET sn(i) == (sendPacketSN[e] + i) % SNSpace
    IN /\ sendPacketSN' = [sendPacketSN EXCEPT ![e] = sn(Copies)]
       /\ network' = network \union
            {[to |-> Peer(e), type |-> "CLOSE", key |-> SendKey(e), sn |-> sn(i),
              seal |-> NoKey, new |-> NoKey] : i \in 1 .. Copies}

\* A timeout of checkSessionProc or a call of the manager. For a connection
\* that came back to life it is the second one.
Close(e) ==
    /\ e \in Closers
    /\ Alive(e)
    /\ connStat[e] # "CLOSED"
    /\ SendCloses(e)
    /\ \/ /\ closePc[e] = "open"
          /\ closePc' = [closePc EXCEPT ![e] = "said"]
          /\ UNCHANGED fault
       \/ /\ closePc[e] = "closed"
          /\ fault' = [fault EXCEPT ![e] = "sendOnClosedChan"]
          /\ UNCHANGED closePc
    /\ UNCHANGED <<connStat, keyVars, pcVars, queued, inHand, recvVars, history>>

CloseMark(e) ==
    /\ Alive(e)
    /\ closePc[e] = "said"
    /\ CloseWithoutSendMSG(e)
    /\ UNCHANGED <<keyVars, connectPc, recvPc, readerPc, inHand, wireVars, recvVars,
                   fault, history>>

\* close(recvChan), close(commonChan); the server's sessions close, and a
\* reader blocked on one returns.
CloseChannels(e) ==
    /\ Alive(e)
    /\ closePc[e] = "marked"
    /\ closePc' = [closePc EXCEPT ![e] = "closed"]
    /\ queued' = IF connStat[e] = "CLOSED" THEN queued
                   ELSE [queued EXCEPT ![e] = {p \in network : p.to = e}]
    /\ readerPc' = IF e = "server" /\ readerPc[e] = "read"
                     THEN [readerPc EXCEPT ![e] = "off"] ELSE readerPc
    /\ UNCHANGED <<connStat, keyVars, connectPc, recvPc, signalled, inHand, wireVars,
                   recvVars, fault, history>>

-----------------------------------------------------------------------------
\* Whatever else passes the filters only moves recvPacketSn.
Ignores(e, p) ==
    \/ p.type = "REQ"
    \/ p.type = "CREATE" /\ (~CreateOpens(p) \/ Network # "reliable")
    \/ p.type = "ACK" /\ connStat[e] # "WAIT_ACK"
    \/ p.type = "CLOSE" /\ connStat[e] # "ESTABLISHED"
    \/ p.type = "PING" /\ connStat[e] # "READY"
    \/ p.type = "DATA" /\ (e = "client" \/ connStat[e] \notin {"READY", "ESTABLISHED"})

RecvIgnored(e, p) ==
    /\ Receives(e, p, p.type)
    /\ Ignores(e, p)
    /\ UNCHANGED <<connStat, keyVars, connectPc, readerPc, signalled, closeVars,
                   inHand, wireVars, fault, history>>
    /\ RecvLoop(e)

Receive(e, p) ==
    \/ Drop(e, p)
    \/ RecvCreate(p)
    \/ RecvAck(p)
    \/ RecvPing(p)
    \/ RecvData(p)
    \/ RecvClose(e, p)
    \/ RecvIgnored(e, p)

\* What recvPacketProc does between two packets.
Handle(e) ==
    \/ e = "client" /\ \/ AckUnpack \/ AckEstablish \/ AckSignal
                       \/ AckPanics \/ AckConfirm
    \/ e = "server" /\ (CreateReady \/ CreateAck \/ PingEstablish \/ DataEstablish)
    \/ RecvEnds(e)

-----------------------------------------------------------------------------
(* checkSessionProc's pings and the forwarding goroutines.                  *)

Ping(e) ==
    /\ Alive(e)
    /\ connStat[e] = "ESTABLISHED"
    /\ MaySend(e)
    /\ SendPacket(e, "PING")
    /\ UNCHANGED <<connStat, keyVars, pcVars, closeVars, inHand, recvVars, fault,
                   history>>

\* The client's manager starts RecvUserClientDataProc.
ReaderStart ==
    /\ Alive("client")
    /\ readerPc["client"] = "off"
    /\ connStat["client"] = "ESTABLISHED"
    /\ MaySend("client")
    /\ readerPc' = [readerPc EXCEPT !["client"] = "read"]
    /\ UNCHANGED <<connStat, keyVars, connectPc, recvPc, signalled, closeVars, inHand,
                   wireVars, recvVars, fault, history>>

\* A user datagram came in, perhaps long after the loop's test. A reader whose
\* socket failed is one that reads nothing any more.
ReaderRead(e) ==
    /\ Alive(e)
    /\ readerPc[e] = "read"
    /\ MaySend(e)
    /\ readerPc' = [readerPc EXCEPT ![e] = "got"]
    /\ UNCHANGED <<connStat, keyVars, connectPc, recvPc, signalled, closeVars, inHand,
                   wireVars, recvVars, fault, history>>

ReaderSend(e) ==
    /\ Alive(e)
    /\ readerPc[e] = "got"
    /\ MaySend(e)
    /\ SendPacket(e, "DATA")
    /\ readerPc' = [readerPc EXCEPT ![e] =
                      IF connStat[e] = "ESTABLISHED" THEN "read" ELSE "off"]
    /\ UNCHANGED <<connStat, keyVars, connectPc, recvPc, signalled, closeVars, inHand,
                   recvVars, fault, history>>

-----------------------------------------------------------------------------
Retry == (\E k \in Keys : TimerDraw(k)) \/ TimerSetPassword \/ TimerResend

Next ==
    \/ \E k \in Keys : Connect(k)
    \/ Retry
    \/ RequestConnect \/ RequestSend
    \/ ReaderStart
    \/ \E e \in Ends :
         \/ SelectDone(e)
         \/ Handle(e)
         \/ Ping(e)
         \/ Close(e) \/ CloseMark(e) \/ CloseChannels(e)
         \/ ReaderRead(e)
         \/ ReaderSend(e)
         \/ \E p \in network : Receive(e, p) \/ DispatchPanics(e, p)

Spec == Init /\ [][Next]_vars

\* The goroutines run, and the network delivers. No timer need fire, nobody
\* need ping or send data, and nobody need begin to close.
Fairness ==
    /\ \A e \in Ends :
         /\ WF_vars(\E p \in network : Receive(e, p) \/ DispatchPanics(e, p))
         /\ WF_vars(Handle(e))
         /\ WF_vars(CloseMark(e) \/ CloseChannels(e))
    /\ WF_vars(TimerSetPassword)
    /\ WF_vars(TimerResend)

FairSpec == Spec /\ Fairness
-----------------------------------------------------------------------------
(* Safety on any network.                                                   *)

\* The client's handler goes on with a nil ackInfo, over which it will panic.
NilAckInHand ==
    recvPc["client"] \in {"establish", "signal", "confirm"} /\ inHand = NoKey

(* A client that counts its connection as established opened the            *)
(* acknowledgement of a key that the server adopted, however the retry      *)
(* timer and the handler interleave, unless the handler is about to panic   *)
(* over an acknowledgement that it could not open (MSG_CREATE_CONN_ACK).    *)
ClientJustified ==
    connStat["client"] = "ESTABLISHED" => ackedKey \in adopted \/ NilAckInHand

(* A server that counts its connection as established got there after the   *)
(* client did and uses the key the client became established with, unless   *)
(* the client closed since: no retry, delayed CREATE, replayed packet or    *)
(* close under way gets it there (MSG_PING, MSG_DATA).                      *)
ServerJustified ==
    connStat["server"] = "ESTABLISHED" =>
        /\ inUse # NoKey
        /\ newPasswd["server"] = inUse \/ connStat["client"] = "CLOSED"

(* The handshake keeps the promise of ConnAgreement.                        *)
Agreement == INSTANCE ConnAgreement WITH
    offered <- Keys \ unused,
    held <- newPasswd["server"],
    serverUp <- connStat["server"] = "ESTABLISHED",
    lost <- inUse # NoKey /\ connStat["client"] = "CLOSED"

AgreementSpec == Agreement!Spec

(* Safety on a FIFO, lossy or not.                                          *)

(* Once the client opened an acknowledgement the server holds its key or a  *)
(* later one: it does not go back to the key of an earlier attempt,         *)
(* whatever is closed or brought back to life (tryConnectProc's retries     *)
(* against recvPacketProc's MSG_CREATE_CONN).                               *)
SettledKeyShared == ackedKey # NoKey => newPasswd["server"] \notin older \union {NoKey}

(* Progress on a network that delivers: an attempt to connect ends with     *)
(* both ends established on one key, or an end has closed or panicked, or   *)
(* the client's retry timer replaced the key after its acknowledgement.     *)
Connected ==
    /\ \A e \in Ends : connStat[e] = "ESTABLISHED"
    /\ newPasswd["client"] = newPasswd["server"]

HandshakeEnds ==
    connStat["client"] = "WAIT_ACK" ~>
        \/ Connected
        \/ \E e \in Ends : connStat[e] = "CLOSED" \/ fault[e] # "none"
        \/ ackedKey \notin {NoKey, newPasswd["client"]}

-----------------------------------------------------------------------------
(* What the documents and comments say and the code does not do.            *)

(* README.md:23: "a new key is used after the connection succeeded". The    *)
(* key of an established client is the one it became established with.      *)
EstablishedKeyStays ==
    connStat["client"] = "ESTABLISHED" /\ ackedKey # NoKey =>
        newPasswd["client"] = inUse

(* relay_connection.go:519 reports an invalid acknowledgement: the client   *)
(* survives it.                                                             *)
InvalidAckSurvived == fault["client"] # "nilAckInfo"

(* advanced_relay_server.go:235: a packet of a closed connection releases   *)
(* it. The handlers that assign connStat without a look at it, as           *)
(* CreateReady, bring it back, and the packet ends the process.             *)
ClosedConnSurvived == \A e \in Ends : fault[e] # "sendOnClosedChan"
=============================================================================

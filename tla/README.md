# A verification of SimpleUDPReverseProxy

SimpleUDPReverseProxy lets a UDP service behind a NAT be reached without a
relay in between. A **server** instance runs next to the service and a
**client** instance next to the user; they find each other through a
**tracker**, a websocket service of its own, and talk over one encrypted
UDP connection that carries the datagrams of every user as numbered sessions.
The program is managed from a web page it serves itself. This directory holds
TLA+ specifications of the Go program and of the page's JavaScript, the TLC
configurations that check them on small instances, and proofs of what they
promise for every instance.

The modules are translated from the sources at `src/`: `relay.go` and so on
below mean files in `src/udprelay/`, `index.js` and so on files in
`src/static/js/`. `PROJECT.json` maps each definition to its lines.

    tlc -config MCClient.cfg RelayClient.tla      a run: PROJECT.json names the module of each
    tlapm RelayClientProofs.tla                   the proofs of a component

## Inventory

| Component | Code | State | Operations |
|---|---|---|---|
| Connection (`AdvancedRelayConn`) | `relay_connection.go` | `connStat`, original and new password, two cipher instances, `sendPacketSN`, `recvPacketSn`, `recvChan`, `commonChan` | `Connect`/`tryConnectProc`, `RequestConnect`/`requestConnectProc`, `recvPacketProc` with six messages, `sendPacket`, `checkSessionProc`, `Close`, `closeWithoutSendMSG` |
| Sessions of a connection | `relay_connection.go`, `session.go`, `income_udp_session.go` | the client's `clientAddrMap`, `clientSessionIDMap`, `session`, `clientSessionID`; the server's socket per id | `RecvUserClientDataProc`, `RecvUserServerDataProc`, `MSG_DATA`, time-outs |
| Client manager (`AdvancedRelayClient`) | `acvanced_relay_client.go` | `stat`, `serverConn`, `serverAddrList`, two sockets | `StartConnect`, `GetAddrListFromTrackerAndConnect`, `RestartConnection`, `recv_udp_proc`, `check_session_proc`, `Close` |
| Server manager (`AdvancedRelayServer`) | `advanced_relay_server.go` | `clientConn`, STUN sessions, `localPublicAddr`, `tracker` | `recv_udp_proc`, `ReqClientConn`, `trackerProc`, `check_session_proc`, `SetTrackerConfig`, `Close` |
| Tracker link (`ServerTracker`) | `tracker.go` | `stat`, websocket, `messageChan` | `connectProc`, `SendAddrList`, `Close` |
| Client's tracker requests (`TrackerConfig`) | `tracker.go` | none | `GetServerAddrList`, `ReqServerConnect` |
| STUN sessions | `stun_session.go`, `src/stun/` | bind state, `ClosedTime` | bind request, answer, time-out, `Close` |
| Packets and ciphers | `packet.go`, `src/crypts/` | none | pack, unpack, seal, open |
| Simple relay (`UDPRelay`) | `relay.go` | a session table | forward, time out, `Close` |
| Registry and handlers | `src/controller.go`, `src/utils.go`, `src/url.go`, `src/main.go` | three maps of instances, by id | create, list, query, change, delete |
| Configuration file | `src/config.go` | the file | `saveConfig`, `loadConfig` |
| TCP session | `tcp_session.go` | - | never constructed |
| Page | `index.js`, `src/static/index.html` | `serverlist`, `clientlist`, `server_instance_id`, `client_instance_id`, `connlist`, the fields of its forms, the window that is open | a function per button, and a success and an error function per request |
| Base64 codec | `base64.js` | none | `encode`, `encodeURI`, `decode`, polyfills of `btoa` and `atob` |
| Template engine | `jsrender.js` | its one top view | parse, compile, render |
| Other libraries | jQuery, materialize, `src/bindata.go` | - | - |

How they interact: every HTTP handler runs in its own goroutine and calls the
managers directly; nothing guards the maps it finds them in. The page sends a
request per click and does not wait: its success functions run in the order of
the answers, over what the page holds by then. It draws its lists with the
template engine, and packs the settings of an instance into a quick
configuration link with the codec, which another user's page reads. A manager's `recv_udp_proc` reads the socket and hands each
packet to the connection of its address through that connection's `recvChan`,
under the manager's lock. A connection has three goroutines of its own, the
connecting one, `recvPacketProc` and `checkSessionProc`, and goroutines that
read the users' sockets. They share its fields without a lock and signal each
other through `commonChan`. The tracker link has `connectProc` and the server's
`trackerProc` at the two ends of `messageChan`; three goroutines report the
public address over one websocket.

What is hard, and what correctness means there:

* **Handshake.** Packets are lost, repeated and reordered; the client draws a
  new key at every retry, in a goroutine beside the one that handles the
  acknowledgement. Neither end may count itself established without the other
  having taken part, and both must end with one key.
* **Replay filter.** It has to tell old packets from late ones, with a 32-bit
  counter.
* **Take-down.** Several goroutines may close one connection while packets are
  dispatched to it. It must come to rest, and let go of the manager's lock.
* **Client manager.** Handlers, packets and the check change one table and one
  status. A client that settled has one connection, with a reader, and replaces
  it when it dies.
* **Sessions.** Three maps must stay inverse to each other while ids are freed
  and reused, and a datagram must not reach another user.
* **Tracker link.** A tracker that shows the server as online must know its
  address; a link that was replaced, and `trackerProc` of a closed server, must
  end.
* **Registry.** Creations and deletions of one id overlap, since an instance
  opens its sockets before it is in the map and `Close` of a server sleeps for a
  second. Whatever runs must be found by its id, and the other way round.
* **Configuration file.** A save reads the maps while they change, truncates the
  file and writes it; the program may die in between. What a save reported as
  saved must be there at the next start.
* **Page.** Answers overtake each other, and an answer may be of an instance
  that is no longer open. The lists must settle on what there is, and a link must
  be of one instance.
* **Codec and templates.** The page runs on polyfills where the browser has no
  function of its own, and templates are rendered in one of two ways. Which one
  must not show.

## Modules

| Module | Models | Proofs |
|---|---|---|
| `SerialNumber` | the counter of `sendPacket` and the comparison of `recvPacketProc`, with uint32 wrap-around at `SNSpace` | |
| `SerialChannel` | one direction of a connection over a network that loses, repeats and reorders | `SerialChannelProofs` |
| `RelayHandshake` | a client's and a server's connection: keys, status, every message, retries, pings, data, closes (EXTENDS `SerialNumber`) | `RelayHandshakeProofs` |
| `ConnAgreement` | what the handshake promises, without packets; `RelayHandshake` implements it | |
| `ConnLifecycle` | the goroutines of one connection, its channels and the manager's lock, statement by statement | `ConnLifecycleProofs` |
| `RelayClient` | the client manager | `RelayClientProofs` |
| `SessionMux` | sessions of both ends and the datagrams between them | `SessionMuxProofs` |
| `TrackerLink` | the link of a server to its tracker, from STUN's answer to the tracker's record | `TrackerLinkProofs` |
| `Registry` | the maps of instances, the handlers, saving, dying and starting again | with `WebConsole` |
| `WebConsole` | the page over the handlers (EXTENDS `Registry`) | `WebConsoleProofs` |
| `Base64` | the codec, by bytes and UTF-16 units | with `LinkCodec` |
| `LinkCodec` | the codec on strings and texts of any length (EXTENDS `Base64`) | `LinkCodecProofs` |
| `JsrTemplate` | the template engine, and what a template means without one | |
| `PageAlgorithms` | `LinkCodec` and the engine on every input of a bounded length | |
| `MCRelayHandshake`, `MCConnLifecycle`, `MCWebConsole`, `MCPageAlgorithms` | symmetry and the sets the configurations use | |

`RelayHandshake` has the two ends of a connection, each with one closer;
`ConnLifecycle` takes one end apart, statement by statement and with every closer,
and forgets keys; `SessionMux` starts where the handshake has ended; `RelayClient`
sees of each connection its status only.

### RelayHandshake

State is indexed by the end, `"client"` or `"server"`. `cryptNew` and
`cryptInstance` are the keys inside the two cipher instances, which is why
`newPasswd`, the field, is apart from them: a retry changes the field in one
step (`TimerDraw`), the cipher in the next (`TimerSetPassword`) and sends in a
third (`TimerResend`), as l.249-263 do. A packet records which key seals it and
which key it carries. `NoKey` is the absence of one.

`Receive` is the head of `recvPacketProc`'s loop: choice of the key by status,
the replay filter, and the switch over the message with the test of the status
that it begins with. What a handler does after that test is in steps of its own,
at the labels of `recvPc`, because nothing guards `connStat`: the retry timer may
fire and the connection may be closed before each of them. `RecvAck` is followed
by `AckUnpack` (l.517), `AckEstablish` (l.522), `AckSignal` (l.523) and
`AckConfirm` (from l.524), `RecvCreate` by `CreateReady` (l.506) and `CreateAck`,
`RecvPing` and `RecvData` by `PingEstablish` and `DataEstablish`. Each assigns
`connStat` without a look at it, so that a connection closed meanwhile comes back
to life. It is then open for `recv_udp_proc`, which sends on its closed `recvChan`
(`DispatchPanics`), and closing it again panics as well.

The loop tests `connStat` (l.373) before it blocks in the receive (l.374): `Takes`
does not ask whether the connection is still open but whether the packet may be in
`recvChan`. `queued` is what may be there once nothing is let in any more: any of
the packets sent to this end before the close.
A close is `Close` (it says `MSG_CLOSE_CONN`), `CloseMark` (the status and the
signal) and `CloseChannels`; `closePc` is how far it got. `Closers` are the ends
whose manager or time-out may close, `Copies` how often a close says so.

`adopted`, `ackedKey`, `older` and `inUse` are history, which no action looks at: the keys
the server took up, the key whose acknowledgement the client could open, those
drawn before it, and the key the client had when it became established.
`ConnAgreement` is over these. It says that a client which was lost stays away for
good; a server may go and come back.

`Network` chooses what may arrive: `"unordered"` any packet ever sent, any
number of times, in any order; `"lossy"` packets in their order with gaps;
`"reliable"` all of them in their order.

### ConnLifecycle

`pc` says where each goroutine is. The test of `connStat` at the head of a
handler and its assignment are separate steps, and so are the statements of
`closeWithoutSendMSG`, because nothing guards `connStat`. Sending on or closing
a closed channel sets `panic`, which ends the process. A `situation` is the
connection looked at: whose it is, its status, which packets may arrive and who
may close it.

### RelayClient

`todo` is what a handler still has to do, as a list of stages: a stage is one
critical section of `serverConnLock`, or one test or assignment of `stat`
outside it. `readers` counts the goroutines that read the users' socket for a
connection in the table, `stale` those whose connection has left it. A reader
ends when its read returns an error (`ReaderFails`, l.563-565) although the socket
is open, as Windows reports a datagram that is too long or a port that nobody
listens on; nothing starts another. `failed` notes the connections which that
happened to since the client last settled.

### SessionMux

A datagram carries the user it belongs to, which the program does not know;
`NoCrossTalk` compares that with the session it arrives at. The locked parts of
`RecvUserClientDataProc` and `checkSessionProc` are one step each, except the
search for a free id, a loop that keeps the lock.

### TrackerLink

`connection[l]` is what has become of the websocket of a link, `record` the
address the tracker has, `reportPc` and `addrList` the three goroutines that run
`SendAddrtoTracker`, which reads the address (l.195) before it sends it (l.196).
`SetTrackerConfig` starts `connectProc` of the new link (`NewServerTracker`,
`tracker.go` l.143) and assigns `this.tracker` later (`AssignTracker`,
`advanced_relay_server.go` l.151): the link may connect, and its success be
reported to the old link or to none, before. Three variables note what happened:
`announced` (the link whose success `trackerProc` is reporting), `missed` (links
whose success was reported elsewhere) and `overtaken` (the address that the
tracker took last was old by then). Before STUN has answered the address
is the empty string, and that is what is reported.
The tracker is external: from how the code uses it, it keeps one websocket for
an id and closes the old one when another arrives. All links of the server have
one id.

### Registry and WebConsole

`calls` holds the requests under way. A request is sent by a click of
`WebConsole`, goes through the stages of its handler in `Registry`, and its
answer is taken by an action of `WebConsole` again, so that handlers and
answers interleave in any order. A handler has as many steps as there are places
where another one may make a difference: `Make` (sockets open) and `Register`
(in the map) of a creation; `Find`, `Close` and `Remove` of a deletion, the last
two the other way round for a client; `ReadClients`, `ReadServers`, `Truncate`
and `Write` of a save. A save may also fail to open the file (`OpenFails`) or to
write it once it is empty (`WriteFails`). A client whose second socket cannot be
had is refused with its first one open (`MakeHalf`,
`acvanced_relay_client.go` l.97-113): it stays in `halfMade` until the program
ends. (Go may close a socket that nothing refers to when it collects garbage; when, if
at all, is not the program's to say, and the model keeps it open.) `Crash` and
`Start` are the process.

An instance is a number, given when it is made. Servers and clients have a map
and an id space each, and handlers that differ in nothing else are one action
with the kind as a parameter. A tracker configuration is an id and the scheme of
its URL, which is all that the link and the refusal of a configuration depend
on.

Some variables are notes on what happened and nothing reads them but
properties: `contended` (two requests worked on one id at once), `overlapped` (a save began
while another was under way), `torn` (a save has opened the file since one ended
well: it is under way, its write failed or the program died in it), `kept` (what was there during the whole
of the last successful save), `stale`, with `late` and `earlier` of a request (a
list may be old), and `mixed` (the instance or the list changed, or the program
died, while the answer for a link was under way: an answer that was lost with the
program could be taken for that of a request after the start). A property that has such an excuse is stated without
it as well, and refuted, below.

A `situation` says which file was loaded, which buttons are pressed and how
often, and how often the program may die. `SituationsAssumption` asks of the
files that they name each instance once, number the instances from one, and keep
to the ids and configurations there are; `UrlsAssumption` that a configuration is
an id and a scheme and that changing the scheme gives one again. The first request is the page's own,
the list of clients.

### Base64, LinkCodec, JsrTemplate and PageAlgorithms

Strings are sequences of numbers: bytes, UTF-16 units, or the indices of base64
characters. `Browsers` is every combination of what a browser may offer.
Reference definitions are `NativeBtoa` and `NativeAtob`, bit by bit, and
`TextEncode` and `TextDecode`, by code point. A state of `LinkCodec` is an input,
and a step types one symbol more, so that what always holds of `Typing` holds of
every string over the symbols; `PageAlgorithms` has the same states and steps,
and more kinds of input. `Without` is what `_mkUriSafe` and `_tidyB64` take out of a
string. What walks through a string is a recursive function over its positions,
where a step may look at any later position.

Markup is a sequence of tokens, one for each match of `rTag` and each text
between two. `ParseTag` is the parser with its stack; `WellNested` says which
markup is one without a stack. `Render` follows the engine in either of its two
ways, in the one top view of the library (`fast`) or with a view for every block
and row; `TemplateMeaning` says what a template shows without views and without
state.

## Runs

| Run | What it shows | Bounds and why they are enough |
|---|---|---|
| `replay_filter` | **violated**: a packet that was sent before the last accepted one is dropped | 14 numbers, 16 packets: the filter's whole window and the wrap of the counter |
| `handshake_safety` | on any network, with a server that may be closed at any point: an established client opened the acknowledgement of a key that the server adopted, or is about to panic; an established server uses the key the client became established with; the handshake implements `ConnAgreement` although closed connections come back to life | two keys are an attempt and a retry, which is where two keys can be confused; two packets of traffic beside them let a ping and a datagram arrive late or twice; two acknowledgements, one for each key; a close says so once, for the network repeats it. 720 thousand states |
| `handshake_live` | on a reliable path, with a client that may be closed: the server does not go back to a key older than the one whose acknowledgement the client opened, and every attempt ends: established on one key, closed, panicked, or with a key the retry timer changed | two keys; a ping or a datagram; twenty acknowledgements, more than are ever sent; three copies of a close, as in the code |
| `lifecycle` | a closed connection comes to rest and the manager's lock is let go, unless the process panicked; an established connection that only its manager closes never panics | a queue of one and three packets: a packet handled, one queued, one that blocks its sender with the lock held |
| `client` | a client that settled has one connection and, until a read fails, a reader for it; when that connection dies the client settles again | two servers (the one settled on and another candidate), two handlers (the one that created the client and one that got a command) beside the check, one death |
| `sessions` | the maps are inverse; no user gets another's datagrams until an id is given out twice; the search for an id ends | three ids handed out four times: the counter wraps and an id is reused while its datagrams are under way; two readers compete for the lock |
| `tracker` | a tracker that counts the server online has its newest address, but after a success reported to another link or a report that was overtaken; no nil tracker is called; a changed address reaches the tracker; a closed link's goroutine ends; so does `trackerProc` | one link, closed by a configuration that takes it away or with the server; an address that changes from none to one; a rival with the same id, any number of times. Any number of links is proved for the safety properties |
| `console` | no instance is lost, but for half-made clients, or listed without running; the file holds what the last save reported, until a later one opens it; the page settles on what there is; a link is of one instance and names a URL a client can ask | two requests under way, which is where two handlers or two answers meet; two ids and four instances, so that an id is freed and used again; up to four clicks, one crash and a start; seven situations |
| `page_algorithms` | polyfills agree with the browser, a link made in any browser is read in any other; the parser takes what is well nested and keeps it; both ways of rendering agree and render what is meant; an aborted rendering does no harm | bytes and characters at the ends of every range the code tells apart, five of them (a group and the beginning of the next), text of three units (a pair and a neighbour); five tokens of markup, six of a template: a block with an else in a block |
| `handshake_key_change` | **violated**: the key of an established client is the acknowledged one | |
| `lifecycle_send_closed` | **violated**: a packet for a closed connection is survived | |
| `client_zombie` | **violated**: a closed client stays closed | |

Every bound is a constant: `MaxSend`, `MaxTraffic`, `MaxAcks` (packets), `Copies`,
`MaxPackets`, `MaxCommands`, `MaxDeaths`, `MaxUses`, `MaxFlight`, `MaxId`,
`MaxBorn`, `Cap`, and `clicks` and `crashes` of a situation. Runs may stop when a
bound is reached or everything has been closed, hence `CHECK_DEADLOCK FALSE` in
all of them. Symmetry (of keys, of the slots of requests) is used in
safety runs only.

### Fairness

* `RelayHandshake`: each step of a goroutine that can go on is taken (the Go
  scheduler), and in `handshake_live` the network delivers. The retry timer need
  not fire, nobody need ping, send or begin to close. A retry and a close that
  have begun go on.
* `ConnLifecycle`: goroutines run; the time-out of `checkSessionProc` comes,
  for no packets arrive after the last. No packet need arrive and the manager
  need not close.
* `RelayClient`: strong fairness for the procedures, for a Go mutex does not
  starve whoever waits for it; an address that is asked answers (`Establish`),
  which is the network's part of `Reconnects`. No command and no death need
  come.
* `SessionMux`: whoever holds the lock goes on.
* `TrackerLink`: goroutines run and a dial returns. Strong fairness for
  `connectProc`, because of its delivery to `messageChan`: `trackerProc` receives
  again and again and Go serves waiting senders in turn. The periodic report comes
  while the server is not closed. The tracker need not send anything, the
  rival need not come, and nothing is asked of `recv_udp_proc`, which may have
  ended with its socket.

`WebConsole` has no fairness: nothing is promised about when an answer comes,
and its properties are about what holds once none is missing.

### Statements the models refute

Four are runs (`findings` in `PROJECT.json`):

* `SmallerDropped`: `README.md` l.22 promises that a packet with a smaller number is
  dropped, and the comment at `relay_connection.go` l.392 that this is what the
  test is for. The test (l.393) drops what is at least five smaller; a packet up to
  four older, or the last one again, is handled once more, and `recvPacketSn` steps
  back to it. What the filter does is `FilterWindow`, a theorem.
* `EstablishedKeyStays`: the retry timer wins the `select` of `tryConnectProc`
  while `recvPacketProc` handles the acknowledgement; it draws and sets a key
  (`relay_connection.go` l.252-254) that the server does not have. Both ends are
  established and deaf to each other.
* `ClosedConnReleased`: `recv_udp_proc` of the server tests `IsClosed` and sends
  to `recvChan` (`advanced_relay_server.go` l.257-258) while `recvPacketProc`
  closes that channel: the process panics.
* `StaysClosed`: `stat` is assigned by procedures that tested it before `Close`
  did its part (`acvanced_relay_client.go` l.207, 193, 130, 412).

The others are kept as definitions; TLC finds each violated when it is added to
the configuration in the table.

| Definition | To see it | What happens |
|---|---|---|
| `NewerNeverDropped` | `MCSerialChannel.cfg` | `SN+5` wraps before the counter does (l.393): the newest packets compare as old, and after the wrap everything does |
| `InvalidAckSurvived` | `MCHandshakeKeyChange.cfg` | a retry between the opening of an acknowledgement (l.379) and its sealed part (l.517): the error is logged and the nil result used (l.524) |
| `ClosedConnSurvived` | `MCHandshakeKeyChange.cfg` | the connection is closed between a handler's test of `connStat` and its assignment, and is taken for an open one: the next packet is sent on its closed `recvChan` |
| `SessionsClosed` | `MCLifecycle.cfg` | `MSG_DATA` past its test opens a session after `closeWithoutSendMSG` went through the map; nobody times it out |
| `ClosedReplaced` | `MCClient.cfg` | a connection that closes while the client is CONNECTING stays in the table, and `connectToServer` returns early for its address |
| `OneReader` | `MCClient.cfg` | `GetAddrListFromTrackerAndConnect` tests `stat` at l.185 and assigns it at l.193; the check has settled in between and settles again |
| `AlwaysRead` | `MCClient.cfg` | a read of the users' socket returns an error: the reader of an established connection ends, and nothing starts another until that connection dies |
| `TrafficForwarded` | `MCClient.cfg` | the reader of a dead connection is still blocked in `ReadFromUDP` and takes the next datagram |
| `SearchEnds` | `MCSessions.cfg` with more users than ids | the search never ends and keeps the lock, without which no id can be freed |
| `NoInstanceLost` | `MCWebConsole.cfg` | two creations choose the same id (`utils.go` l.58-79): the map keeps the later one, and the sockets of the other stay open with nobody to close them; or the second socket of a client cannot be had and its first one stays open |
| `SavedSurvives` | `MCWebConsole.cfg` | the program dies, or another save is at work, between the truncation and the write (`config.go` l.157), or the write fails: the file that a save had reported is gone |
| `LinkNeverMixed` | `MCWebConsole.cfg` | another instance is opened while the answer of the tracker is under way: the link has the settings of one and the tracker id of the other |
| `DetailIsOfRow` | `MCWebConsole.cfg` | sessions are listed below connections: a row of connections shows the details of a session, for both lists are kept in `connlist` |
| `OwnTrackerIds` | `MCWebConsole.cfg` with `LinkingServers` only | the tracker's fields of one server are still in the form when another is opened and saved: two servers have one id and throw each other out of the tracker |
| `SuccessReported` | `MCTracker.cfg` | `trackerProc` takes the success of a new link before `this.tracker` names it (`advanced_relay_server.go` l.151): nobody tells that link the address until the periodic report |
| `NewestReported` | `MCTracker.cfg` | a report that read the old address is sent after that of the new one, and stays until the periodic report |

`SettledKeyShared` holds on paths that keep the order only (it is checked on the
reliable one and proved for lossy ones too): on an unordered one
a delayed `MSG_CREATE_CONN` of the first attempt can pass the replay filter's
slack after the second was acknowledged, and the server goes back to its key.
A key newer than the acknowledged one it may take up: the timer may fire between
l.517 and l.522.
`Reconnects` excepts a handler between its test and its assignment of `stat`,
and a user who took away every address.

## Proofs

TLAPS checks these for all values of the constants, under the named assumptions
of the modules only.

| Theorem | Says |
|---|---|
| `SerialChannelProofs`: `TypeCorrect`, `WindowIsExact` | the counters stay serial numbers, for any width; until the sum can wrap the filter drops exactly what is five or more older than the last accepted packet, for any number of packets |
| `RelayHandshakeProofs`: `TypeCorrect`, `ClientIsJustified`, `ServerIsJustified`, `HandshakeAgrees` | what `handshake_safety` checks, for any set of keys, any of the networks, any closers and bounds; the refinement of `ConnAgreement` included |
| `RelayHandshakeProofs`: `KeyIsShared` | what `handshake_live` checks of the server's key: on any path that keeps the order, lossy ones too, if the attempts (keys) and the messages of two closes are fewer than the serial numbers |
| `ConnLifecycleProofs`: `TypeCorrect`, `SpecNoPanic` | for any situations, any capacity of the two channels and any number of packets |
| `RelayClientProofs`: `TypeCorrect`, `SettledOnOne`, `SettledIsRead` | for any servers, handlers and commands |
| `SessionMuxProofs`: `TypeCorrect`, `MapsAlwaysAgree`, `UsersKeptApart` | for any users, readers and ids |
| `TrackerLinkProofs`: `TypeCorrect`, `OnlineIsReported` | for any links, addresses and rivals |
| `WebConsoleProofs`: `SpecRegistryMatchesRunning`, `SpecFileHoldsSaved`, `SpecListSettles`, `SpecTypeOK`, `SpecLinkOfOneInstance` | what `console` checks of the registry, the file, the lists, the types and the link, for any number of requests under way, ids, instances, clicks, crashes and starts, from any file that names no instance twice |
| `LinkCodecProofs`: `TypingPolyfillsAgree`, `TypingLinkReadsBack` | what `page_algorithms` checks of the codec, for strings and texts of any length over any symbols |
| `LinkCodecProofs`: `BtoaAgrees`, `AtobAgrees`, `TextReadsBack`, `BytesReadBack` | the same of each layer: any units for `btoa`, any characters for `atob`, well formed or not, any text as UTF-8, any bytes as base64 |
| `LinkCodecProofs`: `GroupReadsBack`, `UnitReadsBack`, `PairReadsBack` | for every three bytes, every UTF-16 unit and every surrogate pair: what is written for it is read back as it was |

How they go: each component with state has an inductive invariant `IInv`, a lemma
or a step for each action, and a temporal step at the end. The codec has none: an
action types a symbol, and what is to show is about the operators.

* **Serial numbers.** Before the wrap the number of a packet is its ordinal and
  the receiver remembers the ordinal of the last one it accepted. Without that
  nothing relates a comparison of numbers to the age of a packet, and `FilterWindow`
  is about the age.
* **Handshake.** `ServerJustified` is not inductive: the packet that will
  establish the server is in the network long before. `ClientInv` and `ServerInv`
  say what holds at each label of the handlers: what the handler that will
  assign `ESTABLISHED` has in hand, and that the client becomes established once.
  `PacketInv` says what packets testify: a ping or a datagram for the server was
  sent by a client that had been established. `KeyInv` orders the life of a key
  (unused, pushed, adopted, acknowledged), `RetryInv` says that a key being drawn
  is new to everyone, and `SettledInv` that every key the client uses after it was
  established, until it closes, is the one it was established with or a *stray*
  one, which no packet can ever bring to the server because it only travels
  sealed under itself.
* **The shared key.** `SettledKeyShared` fails where packets overtake each other,
  so its proof needs the replay filter and the order of the network. Until it
  settles the client numbers nothing but its attempts and the messages of its
  closes (`Said`), hence `AttemptInv`: a later attempt has a greater number, the
  last one carries the client's key, and the server holds the key of the newest
  one it took up. `SharedInv` says that once the client opened an acknowledgement
  every attempt with an older key (`older`) is one that the server has already
  read past. With as many attempts as serial numbers two attempts would have one
  number, and "newer" would mean nothing.
* **Take-down.** `LockInv` says who has the manager's lock at which statement.
  `AloneInv` ties the status and the two channels to how far the manager, then
  the only closer, got in its close: each channel is closed once, and only while
  `recv_udp_proc`, which would send on it, is without the lock.
* **Client manager.** `NoCandidate`, that a client that settled has no
  connection still waiting for its answer, makes "the connection settled on has
  a reader, or a read failed" inductive: a connection can become established only from a candidate.
* **Sessions.** `MapsAgree` needs `LockInv` (whoever searches holds a datagram of
  a user without an id), `NoCrossTalk` needs `OneOwner`: everything that carries
  an id, in a map, a socket or a datagram, belongs to one user, and ids not
  handed out yet are carried by nothing.
* **Tracker link.** `OneOpen` (the tracker keeps one websocket),
  `ConnectedWhere` (where `connectProc` may be while it says CONNECTED),
  `Reporting` (when `trackerProc` reports a success), `Started` and `Pending` (the
  link that `SetTrackerConfig` has started and not yet assigned: its success, once
  reported, went elsewhere) and `Told`, which extends the property to the time in
  which a message is handed on or a report is under way.
* **Registry.** `RegistryMatchesRunning` compares two sets, so a step that
  removes an instance from one must know that it names it once and that no other
  request has it in hand. Hence `Injective` (a map names an instance once),
  `Numbered` (instances are numbered in the order they are made, so that a new one
  is unknown to everybody), `MadeInv` (a made instance is known to its creation
  only, and so is its id unless it is contended), `ServerInv` and `ClientInv`
  (what a deletion found is still in the map until it removes it, and it is the
  only one at work on it), `HalfInv` (a half-made client is in no map and in no
  handler's hand) and `FileInv` (a file, written or about to be, names no
  instance twice, without which a start would break `Injective`). The page is one
  lemma: whatever it does to the requests leaves those at work alone.
* **Configuration file.** `SavedInv` says that one save writes at a time unless
  saves overlapped (`OneWrites`), that it writes into an empty file (`Emptied`),
  that what was there when it began does not come back once it is gone
  (`BeforeInv`, by the numbers), and that what is still there has been read
  (`ReadInv`). With these a write that ends well puts everything kept into the
  file, and what a failed one leaves is `torn`.
* **Lists.** `ListInv` says why a page that is not excused settles. While the
  page shows an old list (`Drawn`) some request has changed the map and will make
  the page ask again (`Changes`), or a list is under way that is, or will be, what
  there is (`Lists`). The same holds of every old answer still on its way
  (`Answers`), and then the newer list has it among its `earlier` ones, so that
  taking the newer one makes the old one late; `Order` keeps these relations
  straight. Lists of a program that died do not count (`DownStale`).
* **Types.** That no server is a client is not inductive: an instance may be
  in a map, run, be in a handler's hand, in the file or about to be written to
  it. `Apart` says that none of these places of one kind shares an instance with
  any of the other.
* **Link.** While the tracker's fields of a kind are asked for without excuse,
  nothing creates or deletes an instance of that kind and the list on the page is
  the map (`Steady`), so the request's id means to the handler what it means to
  the page, and it is that of the open instance (`OfOpen`). It rests on the
  three invariants before it.
* **Codec.** Base64 position by position: character `j` of `btoa` is character
  `(j-1) % 4` of group `(j-1) \div 4` in the polyfill and six bits from bit
  `6(j-1)` in the browser, and both are the same digits of three bytes
  (`SextetsOfGroup`, `OctetsOfGroup` for the way back). `AtobAgrees` shows besides
  that `b64re` takes exactly what the browser takes (`TakenByBoth`).
  UTF-8 by induction over positions, from the last to the first: what `Utob`
  writes for one unit or pair is matched by `re_btou` as a whole whatever follows
  (`MatchFront`), and matching does not depend on what came before (`BtouShift`), so
  that `Btou` of a joined text is the two parts joined (`BtouJoin`). For a
  text without a lone surrogate `re_utob`'s `F` does not matter, which
  `PairOfText` states.
  The library's induction theorems cannot be used here, so `FromTheEnd` is the
  principle of the least number, out of `WFMin`, with sets in the place of
  predicates; and that a recursive function is defined at all,
  `FromTheEndDefined`, is proved in the same way, by growing a function from
  the last position to the first. `AlphabetAssumption` asks that the
  symbols typed are numbers for `btoa`, characters for `atob` and UTF-16 units for
  a text.

Only model-checked: the liveness properties (`HandshakeEnds`, `ClosedRests`,
`LockReleased`, `Reconnects`, `SearchEnds`, `AddressGetsThere`,
`ClosedLinkEnds`, `TrackerProcEnds`), which need fairness and are out of the
prover's reach, and what `page_algorithms` checks of templates (`ParserAgrees`,
`FastMatchesViews`, `RenderedAsMeant`, `AbortedRenderHarmless`), whose trees are
of any depth and whose operators are RECURSIVE. Every other property of a passing
run is a theorem.

## Abstractions

* Ciphers are AES_GCM and perfect: what is sealed under a key opens under that
  key only. The `NONE` methods, which check a sum or nothing, are not modelled.
* Compression, target addresses, names, byte counters and messages for the user
  are left out. So is what is only shown, such as the server's `trackerConfig`.
* Time is order: a timer may fire, and does where fairness says so. Seconds
  (10, 60, 120) are not modelled.
* A section under a manager's lock is one step; `ConnLifecycle` covers what
  happens when such a section blocks. `StartConnect` is two, for `Close` assigns
  `stat` without that lock.
* `TrackerLink` merges the test and the write of `SendAddrList`, and the
  websocket library has no state but open, lost and closed.
* The races between word-sized reads and writes are interleavings of whole
  values. That Go may abort on two simultaneous accesses to a map is not
  modelled.
* Settings of an instance that only travel through the registry, the file and the
  page are part of the instance. Simple relays, which the program neither saves
  nor loads, are not in `Registry`; `Register` of a client has
  `createAdvancedRelayClient` l.37-53 in one step, what the client does then being
  `RelayClient`'s.
* What a file that was written over the text of another save holds is either the
  new text or nothing that can be read.
* In a URL only the scheme is told apart; `index.js` l.551-556 replaces the
  first "ws" of the whole URL.
* Templates have the tags of the page's templates, `#index` and `#getIndex()`.
  Data-bound tags, helpers, converters, named parameters and expressions are left
  out. Two oddities of the library are in both the model and the meaning, or
  excepted: two elses without an argument over an empty array both render, and
  `#index` outside every block shows what an aborted rendering left.

## Not modelled

STUN sessions and packets, the byte layout of packets, the simple relay with its
handlers, the table of a server's connections, and time (the components above
that `PROJECT.json` gives as partly or not modelled). TCP sessions are dead code.
Of `jsrender.js`, what the page does not use: registration of tags, helpers,
converters and settings, data-bound tags, expressions and debugging. jQuery and
materialize are external: `$.ajax` is a request with an answer or an error, a
modal window is open or not.

## Plan

The order is by how much of the program rests on a part.

1. `ServerConns`: the server's table of connections, `ReqClientConn` against
   `Close`, the clean-up of `check_session_proc`.
   Theorem: no packet is sent on a closed channel while only the manager closes,
   `SpecNoPanic` for the whole table.
2. `UDPRelay`: the session table of the simple relay, `Close` against a session
   being made; composes with the same kind of abstract session table as
   `SessionMux`. Theorem: each session belongs to one address.
3. `StunSession`: request, answer, time-out and deletion, feeding `NewAddr` of
   `TrackerLink`.
4. `KeepAlive`: pings, `lastRecv` and time-outs with a clock; two idle ends that
   ping each other stay up.
5. `Codec`: lengths in `MSG_CREATE_CONN` and its acknowledgement, as uint8 sums.
6. Theorems: each later module's types and main invariant, and the refutations'
   counterparts, what holds of `InvalidAckSurvived` and `ClosedConnSurvived` under a
   named exception.

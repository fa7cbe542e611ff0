----------------------------- MODULE RelayClient -----------------------------
(***************************************************************************)
(* The client manager, AdvancedRelayClient                                 *)
(* (udprelay/acvanced_relay_client.go): its candidates and its table of    *)
(* connections, the goroutine that picks the one that answered and         *)
(* replaces it when it closes, the HTTP handlers that run beside it and    *)
(* the readers of the user's port.                                         *)
(*                                                                         *)
(* A connection is its address and its connStat. One that leaves the table *)
(* has been closed before, so its readers are just stale.                  *)
(* serverConnLock makes a critical section one step; only StartConnect,    *)
(* which tests stat and then assigns it, is two, for Close assigns stat    *)
(* without the lock.                                                       *)
(***************************************************************************)
EXTENDS Naturals, Sequences

CONSTANTS
    Servers,      \* the addresses of servers
    Tracked,      \* the addresses the tracker knows
    Handlers,     \* goroutines of the HTTP server
    Commands,     \* what the user may ask for
    MaxCommands,  \* bound: commands of the user
    MaxDeaths     \* bound: established connections that close by themselves

ASSUME TrackedAssumption == Tracked \subseteq Servers
ASSUME CommandsAssumption ==
    Commands \subseteq {"restart", "tracker", "addresses", "close"}
ASSUME BoundAssumption == MaxCommands \in Nat /\ MaxDeaths \in Nat
ASSUME HandlersAssumption == "check" \notin Handlers

Procs == Handlers \union {"check"}
ConnStats == {"WAIT_ACK", "ESTABLISHED", "CLOSED"}
ClientStats == {"INIT", "CONNECTING", "CONNECTED", "CLOSED"}

VARIABLES
    stat,
    serverConn,     \* [Servers -> ConnStats \union {"none"}]
    serverAddrList,
    readers,        \* [Servers -> Nat], RecvUserClientDataProc of a connection
    failed,         \* history: read errors ended a reader of these connections
    stale,          \* [Servers -> Nat], those that outlived their connection
    todo,           \* [Procs -> Seq(stages)], what is left of a procedure
    lock,           \* serverConnLock, when held between two steps
    sock,           \* the client's two sockets
    commands, deaths

vars == <<stat, serverConn, serverAddrList, readers, failed, stale, todo, lock,
          sock, commands, deaths>>

Stages == {"restart", "start", "started", "fetch", "look", "join", "choose",
           "watch", "shutdown", "done"}

TypeOK ==
    /\ stat \in ClientStats
    /\ serverConn \in [Servers -> ConnStats \union {"none"}]
    /\ serverAddrList \subseteq Servers
    /\ readers \in [Servers -> Nat]
    /\ failed \subseteq Servers
    /\ stale \in [Servers -> Nat]
    /\ todo \in [Procs -> Seq(Stages)]
    /\ lock \in Procs \union {"free"}
    /\ sock \in {"open", "closed"}
    /\ commands \in 0 .. MaxCommands
    /\ deaths \in 0 .. MaxDeaths

(* GetAddrListFromTrackerAndConnect and RestartConnection, as stages.       *)
FromTracker == <<"fetch", "look", "join">>
Restarting == <<"restart", "start">> \o FromTracker

\* NewAdvancedRelayClient: the handler that creates it goes on to connect.
Init ==
    /\ stat = "INIT"
    /\ serverConn = [s \in Servers |-> "none"]
    /\ serverAddrList = Servers
    /\ readers = [s \in Servers |-> 0]
    /\ failed = {}
    /\ stale = [s \in Servers |-> 0]
    /\ \E creator \in Handlers :
           todo = [p \in Procs |-> IF p = creator THEN <<"start">> \o FromTracker
                                                  ELSE <<>>]
    /\ lock = "free"
    /\ sock = "open"
    /\ commands = 0
    /\ deaths = 0

Live == {s \in Servers : serverConn[s] = "ESTABLISHED"}
InTable == {s \in Servers : serverConn[s] # "none"}

At(p, stage) == todo[p] # <<>> /\ Head(todo[p]) = stage
Done(p) == todo' = [todo EXCEPT ![p] = Tail(@)]
Return(p) == todo' = [todo EXCEPT ![p] = <<>>]

-----------------------------------------------------------------------------
(* connectToServer for the addresses A: those not in the table.             *)
Connected(A) ==
    [s \in Servers |-> IF s \in A /\ serverConn[s] = "none"
                         THEN "WAIT_ACK" ELSE serverConn[s]]

(* The connections in D, which were closed, leave the table.                *)
Drop(D) ==
    /\ serverConn' = [s \in Servers |-> IF s \in D THEN "none" ELSE serverConn[s]]
    /\ readers' = [s \in Servers |-> IF s \in D THEN 0 ELSE readers[s]]
    /\ failed' = failed \ D
    /\ stale' = [s \in Servers |-> IF s \in D THEN stale[s] + readers[s]
                                              ELSE stale[s]]

-----------------------------------------------------------------------------
(* check_session_proc.                                                      *)

\* The head of its loop: stat decides which half runs.
CheckLoop ==
    /\ todo["check"] = <<>>
    /\ \/ stat = "CLOSED" /\ todo' = [todo EXCEPT !["check"] = <<"done">>]
       \/ stat = "CONNECTING" /\ todo' = [todo EXCEPT !["check"] = <<"choose">>]
       \/ stat = "CONNECTED" /\ todo' = [todo EXCEPT !["check"] = <<"watch">>]
    /\ UNCHANGED <<stat, serverConn, serverAddrList, readers, failed, stale, lock,
                   sock, commands, deaths>>

\* Every established connection gets a reader, the last one seen stays and the
\* others are closed and deleted. Once a minute the tracker is asked as well.
Choose ==
    /\ At("check", "choose")
    /\ lock = "free"
    /\ IF Live = {}
         THEN UNCHANGED <<stat, serverConn, readers, failed, stale>>
         ELSE \E chosen \in Live :
                /\ stat' = "CONNECTED"
                /\ serverConn' = [s \in Servers |-> IF s = chosen THEN "ESTABLISHED"
                                                                 ELSE "none"]
                /\ readers' = [s \in Servers |-> IF s = chosen THEN readers[s] + 1
                                                              ELSE 0]
                /\ failed' = {}
                /\ stale' = [s \in Servers |->
                      IF s = chosen THEN stale[s]
                      ELSE stale[s] + readers[s] + (IF s \in Live THEN 1 ELSE 0)]
    /\ \/ Return("check")
       \/ todo' = [todo EXCEPT !["check"] = FromTracker]
    /\ UNCHANGED <<serverAddrList, lock, sock, commands, deaths>>

\* A closed connection leaves the table; without a Close it is replaced.
Watch ==
    /\ At("check", "watch")
    /\ lock = "free"
    /\ \/ /\ \A s \in Servers : serverConn[s] # "CLOSED"
          /\ Return("check")
          /\ UNCHANGED <<serverConn, readers, failed, stale>>
       \/ \E s \in Servers :
            /\ serverConn[s] = "CLOSED"
            /\ Drop({s})
            /\ todo' = [todo EXCEPT !["check"] =
                           IF stat = "CLOSED" THEN <<>> ELSE Restarting]
    /\ UNCHANGED <<stat, serverAddrList, lock, sock, commands, deaths>>

-----------------------------------------------------------------------------
(* The procedures that the check and the handlers share.                    *)

\* Mutant: the status is left as it was.
RestartKeepsStat(p) ==
    /\ At(p, "restart")
    /\ lock = "free"
    /\ Drop(Servers)
    /\ Done(p)
    /\ UNCHANGED <<stat, serverAddrList, lock, sock, commands, deaths>>

\* RestartConnection: the table is closed and emptied, whatever stat was.
Restart(p) ==
    /\ At(p, "restart")
    /\ lock = "free"
    /\ Drop(Servers)
    /\ stat' = "CONNECTING"
    /\ Done(p)
    /\ UNCHANGED <<serverAddrList, lock, sock, commands, deaths>>

\* StartConnect, up to its assignment of stat.
Start(p) ==
    /\ At(p, "start")
    /\ lock = "free"
    /\ IF stat \in {"CONNECTED", "CLOSED"}
         THEN Done(p) /\ UNCHANGED <<serverConn, lock>>
         ELSE /\ serverConn' = Connected(serverAddrList)
              /\ lock' = p
              /\ todo' = [todo EXCEPT ![p] = <<"started">> \o Tail(@)]
    /\ UNCHANGED <<stat, serverAddrList, readers, failed, stale, sock,
                   commands, deaths>>

\* Mutant: the code of a connection, not of a client.
StartedConnCode(p) ==
    /\ At(p, "started")
    /\ stat' = "WAIT_ACK"
    /\ lock' = "free"
    /\ Done(p)
    /\ UNCHANGED <<serverConn, serverAddrList, readers, failed, stale, sock,
                   commands, deaths>>

Started(p) ==
    /\ At(p, "started")
    /\ stat' = "CONNECTING"
    /\ lock' = "free"
    /\ Done(p)
    /\ UNCHANGED <<serverConn, serverAddrList, readers, failed, stale, sock,
                   commands, deaths>>

\* GetAddrListFromTrackerAndConnect: the tracker answers, or there is none.
Fetch(p) ==
    /\ At(p, "fetch")
    /\ Done(p) \/ Return(p)
    /\ UNCHANGED <<stat, serverConn, serverAddrList, readers, failed, stale, lock,
                   sock, commands, deaths>>

\* It tests stat before it takes the lock.
Look(p) ==
    /\ At(p, "look")
    /\ IF stat \in {"CONNECTED", "CLOSED"} THEN Return(p) ELSE Done(p)
    /\ UNCHANGED <<stat, serverConn, serverAddrList, readers, failed, stale, lock,
                   sock, commands, deaths>>

Join(p) ==
    /\ At(p, "join")
    /\ lock = "free"
    /\ serverConn' = Connected(Tracked)
    /\ stat' = "CONNECTING"
    /\ Done(p)
    /\ UNCHANGED <<serverAddrList, readers, failed, stale, lock, sock,
                   commands, deaths>>

\* The rest of Close, under the lock: connections, then sockets.
Shutdown(p) ==
    /\ At(p, "shutdown")
    /\ lock = "free"
    /\ serverConn' = [s \in Servers |-> IF serverConn[s] = "none" THEN "none"
                                                               ELSE "CLOSED"]
    /\ readers' = [s \in Servers |-> 0]
    /\ failed' = {}
    /\ stale' = [s \in Servers |-> 0]
    /\ sock' = "closed"
    /\ Done(p)
    /\ UNCHANGED <<stat, serverAddrList, lock, commands, deaths>>

-----------------------------------------------------------------------------
(* The handlers of the HTTP server, and what they call.                     *)

Ready(h) ==
    /\ todo[h] = <<>>
    /\ sock = "open"
    /\ stat # "INIT"
    /\ commands < MaxCommands
    /\ commands' = commands + 1
    /\ UNCHANGED <<serverConn, readers, failed, stale, lock, sock, deaths>>

RestartClientConnection(h) ==
    /\ "restart" \in Commands
    /\ Ready(h)
    /\ todo' = [todo EXCEPT ![h] = Restarting]
    /\ UNCHANGED <<stat, serverAddrList>>

SetClientTracker(h) ==
    /\ "tracker" \in Commands
    /\ Ready(h)
    /\ todo' = [todo EXCEPT ![h] = FromTracker]
    /\ UNCHANGED <<stat, serverAddrList>>

UpdateClientServerAddr(h) ==
    /\ "addresses" \in Commands
    /\ Ready(h)
    /\ serverAddrList' \in SUBSET Servers
    /\ UNCHANGED <<todo, stat>>

\* Close, up to the lock.
DeleteClient(h) ==
    /\ "close" \in Commands
    /\ Ready(h)
    /\ stat' = "CLOSED"
    /\ todo' = [todo EXCEPT ![h] = <<"shutdown">>]
    /\ UNCHANGED serverAddrList

Command(h) ==
    \/ RestartClientConnection(h) \/ SetClientTracker(h)
    \/ UpdateClientServerAddr(h) \/ DeleteClient(h)

-----------------------------------------------------------------------------

\* Mutant: a client that is connected accepts, too.
AcceptRequestAlways(s) ==
    /\ sock = "open"
    /\ lock = "free"
    /\ serverConn[s] = "none"
    /\ serverConn' = Connected({s})
    /\ UNCHANGED <<stat, serverAddrList, readers, failed, stale, todo, lock, sock,
                   commands, deaths>>

(* recv_udp_proc: MSG_REQ_CREATE_CONN of a server that is not in the table. *)
AcceptRequest(s) ==
    /\ sock = "open"
    /\ lock = "free"
    /\ serverConn[s] = "none"
    /\ stat # "CONNECTED"
    /\ serverConn' = Connected({s})
    /\ UNCHANGED <<stat, serverAddrList, readers, failed, stale, todo, lock, sock,
                   commands, deaths>>

(* The connections by themselves: RelayHandshake and ConnLifecycle.         *)
Establish(s) ==
    /\ sock = "open"
    /\ serverConn[s] = "WAIT_ACK"
    /\ serverConn' = [serverConn EXCEPT ![s] = "ESTABLISHED"]
    /\ UNCHANGED <<stat, serverAddrList, readers, failed, stale, todo, lock, sock,
                   commands, deaths>>

Die(s) ==
    /\ serverConn[s] = "ESTABLISHED"
    /\ deaths < MaxDeaths
    /\ deaths' = deaths + 1
    /\ serverConn' = [serverConn EXCEPT ![s] = "CLOSED"]
    /\ UNCHANGED <<stat, serverAddrList, readers, failed, stale, todo, lock,
                   sock, commands>>

\* Mutant: the reader returns after its first datagram.
ReaderTakesOne(s) ==
    /\ sock = "open"
    /\ readers[s] > 0
    /\ readers' = [readers EXCEPT ![s] = @ - 1]
    /\ UNCHANGED <<stat, serverConn, serverAddrList, failed, stale, todo, lock,
                   sock, commands, deaths>>

(* RecvUserClientDataProc: one of the readers blocked on the user's port    *)
(* takes the datagram, sends it over its connection and only then looks     *)
(* whether that connection is established.                                  *)
ReaderTakes(s) ==
    /\ sock = "open"
    /\ readers[s] > 0
    /\ readers' = IF serverConn[s] = "ESTABLISHED" THEN readers
                  ELSE [readers EXCEPT ![s] = @ - 1]
    /\ UNCHANGED <<stat, serverConn, serverAddrList, failed, stale, todo, lock,
                   sock, commands, deaths>>

(* The socket is open and the read returns an error: the reader returns,    *)
(* whatever its connection's status, and nothing starts another.            *)
ReaderFails(s) ==
    /\ sock = "open"
    /\ readers[s] > 0
    /\ readers' = [readers EXCEPT ![s] = @ - 1]
    /\ failed' = failed \union {s}
    /\ UNCHANGED <<stat, serverConn, serverAddrList, stale, todo, lock, sock,
                   commands, deaths>>

\* A stale reader ends whether its read brings a datagram or an error.
StaleReaderTakes(s) ==
    /\ sock = "open"
    /\ stale[s] > 0
    /\ stale' = [stale EXCEPT ![s] = @ - 1]
    /\ UNCHANGED <<stat, serverConn, serverAddrList, readers, failed, todo, lock,
                   sock, commands, deaths>>

-----------------------------------------------------------------------------
Procedures(p) ==
    \/ Restart(p) \/ Start(p) \/ Started(p) \/ Fetch(p) \/ Look(p) \/ Join(p)
    \/ Shutdown(p)

Next ==
    \/ CheckLoop \/ Choose \/ Watch
    \/ \E p \in Procs : Procedures(p)
    \/ \E h \in Handlers : Command(h)
    \/ \E s \in Servers :
          AcceptRequest(s) \/ Establish(s) \/ Die(s) \/ ReaderTakes(s)
            \/ ReaderFails(s) \/ StaleReaderTakes(s)

Spec == Init /\ [][Next]_vars

\* Goroutines run, and get serverConnLock when it is free again and again; a
\* server that is asked answers.
Fairness ==
    /\ SF_vars(CheckLoop \/ Choose \/ Watch)
    /\ \A p \in Procs : SF_vars(Procedures(p))
    /\ \A s \in Servers : WF_vars(Establish(s))

FairSpec == Spec /\ Fairness

-----------------------------------------------------------------------------
(* A client that settled on a server has no other in its table: a late      *)
(* candidate, a request or a second handler cannot add one without the      *)
(* status going back to CONNECTING (recv_udp_proc, StartConnect,            *)
(* check_session_proc).                                                     *)
OneServerWhenConnected ==
    stat = "CONNECTED" =>
        \A s, t \in InTable : s = t

(* The connection that a CONNECTED client settled on is read for: a user's  *)
(* datagram finds a goroutine that carries it, unless a read error ended a  *)
(* reader after the client last settled on it (check_session_proc,          *)
(* RestartConnection, RecvUserClientDataProc). An error of an earlier       *)
(* connection to the same server, or of another candidate, is no excuse.    *)
ChosenHasReader ==
    stat = "CONNECTED" => \A s \in Live : readers[s] > 0 \/ s \in failed

(* The death of the connection a client settled on is noticed and repaired: *)
(* the client settles again unless it is closed or the user took away its   *)
(* addresses, provided no handler is between its test of stat and its       *)
(* assignment (check_session_proc, RestartConnection).                      *)
Reconnects ==
    (/\ stat = "CONNECTED" /\ Live = {} /\ sock = "open"
     /\ \A h \in Handlers : ~At(h, "join"))
        ~> \/ stat = "CONNECTED" /\ Live # {}
           \/ stat = "CLOSED" \/ sock = "closed" \/ serverAddrList = {}

-----------------------------------------------------------------------------
(* acvanced_relay_client.go:454: "the connection to the server timed out:   *)
(* break it and start connecting again". No closed connection stays.        *)
ClosedReplaced ==
    \A s \in Servers :
        serverConn[s] = "CLOSED" ~> serverConn[s] # "CLOSED" \/ sock = "closed"

(* acvanced_relay_client.go:476, of Close: "stop the service". A client     *)
(* that was closed does not start again.                                    *)
StaysClosed == [][stat = "CLOSED" => stat' = "CLOSED"]_vars

(* relay_connection.go:557, of RecvUserClientDataProc: "only one such       *)
(* goroutine for each instance".                                            *)
OneReader == \A s \in Servers : readers[s] <= 1

(* relay_connection.go:557 as well: the one that is started is there for    *)
(* good. A read error breaks it: the connection stays established and is    *)
(* read by nobody until it dies or the user restarts it.                    *)
AlwaysRead == stat = "CONNECTED" => \A s \in Live : readers[s] > 0

(* README.md:5: the client listens for traffic and forwards it to the       *)
(* server. While a connection is established no datagram of the user goes   *)
(* to a reader of another one, which loses it.                              *)
TrafficForwarded ==
    [][(stat = "CONNECTED" /\ Live # {} /\ sock' = "open") =>
          \A s \in Servers : stale'[s] >= stale[s]]_vars
=============================================================================

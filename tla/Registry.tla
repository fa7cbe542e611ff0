------------------------------- MODULE Registry -------------------------------
(***************************************************************************)
(* The instances of the program and the HTTP handlers that work on them:   *)
(* advancedRelayServerMap and advancedRelayClientMap of controller.go, the *)
(* creation of instances in utils.go, and the configuration file of        *)
(* config.go. net/http runs each request in a goroutine of its own and the *)
(* maps have no lock, so a handler is taken apart where another one may    *)
(* come between: a new instance opens its sockets before it is entered in  *)
(* the map, Close of a server sleeps for a second, a file is truncated     *)
(* before it is written.                                                   *)
(***************************************************************************)
EXTENDS Naturals, FiniteSets

CONSTANTS
    MaxId,      \* instance ids are 1..MaxId
    MaxBorn,    \* how many instances are made
    Slots,      \* places for requests under way
    Configs,    \* tracker configurations
    NoConfig,   \* the nil configuration
    Invalid     \* one that SetTrackerConfig refuses: its ids are no UUIDs

ASSUME BoundsAssumption == MaxId \in Nat /\ MaxBorn \in Nat
ASSUME ConfigsAssumption == NoConfig \notin Configs /\ Invalid \notin Configs

Kinds == {"server", "client"}
Ids == 1..MaxId
Instances == 1..MaxBorn
NoInstance == 0

VARIABLES
    up,             \* the program runs
    relayMap,       \* [Kinds -> the map of the instances, by id]
    running,        \* [Kinds -> instances that have a socket open]
    halfMade,       \* clients whose creation failed when they had one socket
    trackerConfig,  \* [Instances -> this.trackerConfig]
    born,           \* number of instances made
    file,           \* [Kinds -> what loadConfig finds for each id]
    calls,          \* [Slots -> the request, and how far its handler is]
    contended,      \* [Kinds -> two creations chose, or two deletions found, one id]
    overlapped,     \* a save began while another one was under way
    torn,           \* no save has ended well since one opened the file
    kept            \* [Kinds -> entries present during the whole last successful save]

instances == <<relayMap, running, halfMade, trackerConfig, born>>
saving == <<file, overlapped, torn, kept>>
registryVars == <<up, instances, saving, calls, contended>>

\* An unreadable file and one without instances are loaded alike.
Unreadable == [k \in Kinds |-> <<>>]

\* A request of the page. "late" is a note of the page: a later request of its
\* kind has been answered before.
Request(op, k, id, data, earlier) ==
    [op |-> op, kind |-> k, id |-> id, data |-> data, stage |-> "sent",
     inst |-> NoInstance, got |-> <<>>, earlier |-> earlier, late |-> FALSE]
Nothing == [Request("none", "server", 0, NoConfig, {}) EXCEPT !.stage = "none"]

At(s, op, stage) == up /\ calls[s].op = op /\ calls[s].stage = stage

\* The handler goes on to its next statement, or answers.
Goto(s, stage) == calls' = [calls EXCEPT ![s].stage = stage]
Answer(s, got) == calls' = [calls EXCEPT ![s].stage = "ok", ![s].got = got]
Fail(s) == Goto(s, "failed")
Answered == {"ok", "failed"}

Entry(k, id) == [inst |-> relayMap[k][id], config |-> trackerConfig[relayMap[k][id]]]
Entries(k) == [id \in DOMAIN relayMap[k] |-> Entry(k, id)]
With(map, id, inst) == [i \in DOMAIN map \union {id} |-> IF i = id THEN inst ELSE map[i]]
Without(map, id) == [i \in DOMAIN map \ {id} |-> map[i]]

HalfMade(k) == IF k = "client" THEN halfMade ELSE {}

\* Id 0 asks for the first free one.
FreeId(k, id) ==
    /\ id \in Ids \ DOMAIN relayMap[k]
    /\ \A i \in 1..(id - 1) : i \in DOMAIN relayMap[k]

-----------------------------------------------------------------------------
(* createAdvancedRelayServer and createAdvancedRelayClient.                 *)

\* The id is taken, the settings are refused, or the first socket cannot be had.
CreateRefused(s) ==
    /\ At(s, "create", "sent")
    /\ Fail(s)
    /\ UNCHANGED <<up, instances, saving, contended>>

\* NewAdvancedRelayClient has its first socket and cannot have the second: it
\* returns, and nobody is left who could close the first one.
MakeHalf(s) ==
    LET inst == born + 1
    IN /\ At(s, "create", "sent") /\ calls[s].kind = "client"
       /\ calls[s].id \notin DOMAIN relayMap["client"]
       /\ inst \in Instances
       /\ born' = inst
       /\ running' = [running EXCEPT !["client"] = @ \union {inst}]
       /\ halfMade' = halfMade \union {inst}
       /\ Fail(s)
       /\ UNCHANGED <<up, relayMap, trackerConfig, saving, contended>>

\* The other requests that are creating an instance with an id.
Creating(k, id) ==
    {s \in Slots : /\ calls[s].op = "create" /\ calls[s].stage = "made"
                   /\ calls[s].kind = k /\ calls[s].id = id}

Make(s, id) ==
    LET k == calls[s].kind
        inst == born + 1
    IN /\ At(s, "create", "sent")
       /\ IF calls[s].id = 0 THEN FreeId(k, id)
          ELSE id = calls[s].id /\ id \notin DOMAIN relayMap[k]
       /\ inst \in Instances
       /\ born' = inst
       /\ running' = [running EXCEPT ![k] = @ \union {inst}]
       /\ calls' = [calls EXCEPT ![s].stage = "made", ![s].id = id, ![s].inst = inst]
       /\ contended' = [contended EXCEPT ![k] = @ \/ Creating(k, id) # {}]
       /\ UNCHANGED <<up, relayMap, halfMade, trackerConfig, saving>>

\* Mutant: the tracker configuration is looked at first.
RegisterAccepted(s) ==
    LET call == calls[s]
        refused == call.kind = "server" /\ call.data = Invalid
    IN /\ At(s, "create", "made")
       /\ IF refused
          THEN Fail(s) /\ UNCHANGED <<relayMap, trackerConfig>>
          ELSE /\ relayMap' = [relayMap EXCEPT ![call.kind] = With(@, call.id, call.inst)]
               /\ trackerConfig' = [trackerConfig EXCEPT ![call.inst] = call.data]
               /\ Answer(s, <<>>)
       /\ UNCHANGED <<up, running, halfMade, born, saving, contended>>

\* The instance is in the map before the tracker configuration is looked at,
\* and stays there when a server refuses it.
Register(s) ==
    LET call == calls[s]
        refused == call.kind = "server" /\ call.data = Invalid
    IN /\ At(s, "create", "made")
       /\ relayMap' = [relayMap EXCEPT ![call.kind] = With(@, call.id, call.inst)]
       /\ IF refused
          THEN Fail(s) /\ UNCHANGED trackerConfig
          ELSE /\ trackerConfig' = [trackerConfig EXCEPT ![call.inst] = call.data]
               /\ Answer(s, <<>>)
       /\ UNCHANGED <<up, running, halfMade, born, saving, contended>>

-----------------------------------------------------------------------------
(* The delete handlers: a server is closed and then taken out of the map, a *)
(* client the other way round.                                              *)

Deleting(k, inst) ==
    {s \in Slots : /\ calls[s].op = "delete" /\ calls[s].stage = "found"
                   /\ calls[s].kind = k /\ calls[s].inst = inst}

\* Mutant: the second result of the map is not looked at.
FindUnchecked(s) ==
    LET k == calls[s].kind
        id == calls[s].id
        inst == IF id \in DOMAIN relayMap[k] THEN relayMap[k][id] ELSE NoInstance
    IN /\ At(s, "delete", "sent")
       /\ calls' = [calls EXCEPT ![s].stage = "found", ![s].inst = inst]
       /\ contended' = [contended EXCEPT ![k] = @ \/ Deleting(k, inst) # {}]
       /\ UNCHANGED <<up, instances, saving>>

Find(s) ==
    LET k == calls[s].kind
        id == calls[s].id
    IN /\ At(s, "delete", "sent")
       /\ IF id \in DOMAIN relayMap[k]
          THEN /\ calls' = [calls EXCEPT ![s].stage = "found", ![s].inst = relayMap[k][id]]
               /\ contended' = [contended EXCEPT
                      ![k] = @ \/ Deleting(k, relayMap[k][id]) # {}]
          ELSE Fail(s) /\ UNCHANGED contended
       /\ UNCHANGED <<up, instances, saving>>

\* A second Close of a server closes messageChan again: the panic is caught by
\* gin, which answers with an error.
Close(s, stage) ==
    LET k == calls[s].kind
        inst == calls[s].inst
    IN /\ At(s, "delete", stage)
       /\ running' = [running EXCEPT ![k] = @ \ {inst}]
       /\ IF k = "client" THEN Answer(s, <<>>)
          ELSE IF inst \in running[k] THEN Goto(s, "closed") ELSE Fail(s)
       /\ UNCHANGED <<up, relayMap, halfMade, trackerConfig, born, saving, contended>>

Remove(s, stage) ==
    LET k == calls[s].kind
    IN /\ At(s, "delete", stage)
       /\ relayMap' = [relayMap EXCEPT ![k] = Without(@, calls[s].id)]
       /\ IF k = "server" THEN Answer(s, <<>>) ELSE Goto(s, "removed")
       /\ UNCHANGED <<up, running, halfMade, trackerConfig, born, saving, contended>>

DeleteServer(s) ==
    /\ calls[s].kind = "server"
    /\ Find(s) \/ Close(s, "found") \/ Remove(s, "closed")
DeleteClient(s) ==
    /\ calls[s].kind = "client"
    /\ Find(s) \/ Remove(s, "found") \/ Close(s, "removed")

-----------------------------------------------------------------------------
(* The handlers that look an instance up and ask or change it.              *)

List(s) ==
    /\ At(s, "list", "sent")
    /\ Answer(s, relayMap[calls[s].kind])
    /\ UNCHANGED <<up, instances, saving, contended>>

\* A connection asked for may have an address that cannot be resolved.
Queries == {"connection", "session", "tracker", "connect", "restart", "serveraddr"}

Query(s, op) ==
    LET k == calls[s].kind
        id == calls[s].id
    IN /\ At(s, op, "sent") /\ op \in Queries
       /\ \/ id \in DOMAIN relayMap[k] /\ Answer(s, Entry(k, id))
          \/ (id \notin DOMAIN relayMap[k] \/ op = "connect") /\ Fail(s)
       /\ UNCHANGED <<up, instances, saving, contended>>

SetTracker(s) ==
    LET call == calls[s]
        k == call.kind
        found == call.id \in DOMAIN relayMap[k]
    IN /\ At(s, "tracker/set", "sent")
       /\ IF ~found \/ (k = "server" /\ call.data = Invalid)
          THEN Fail(s) /\ UNCHANGED trackerConfig
          ELSE /\ trackerConfig' = [trackerConfig EXCEPT ![relayMap[k][call.id]] = call.data]
               /\ Answer(s, <<>>)
       /\ UNCHANGED <<up, relayMap, running, halfMade, born, saving, contended>>

-----------------------------------------------------------------------------
(* saveConfig and loadConfig.                                               *)

\* The clients are read first. "got" is what will be written, "inst" unused.
ReadClients(s) ==
    /\ At(s, "save", "sent")
    /\ calls' = [calls EXCEPT ![s].stage = "clients",
                              ![s].got = [client |-> Entries("client"), server |-> <<>>,
                                          before |-> [k \in Kinds |-> Entries(k)]]]
    /\ overlapped' = (overlapped \/ \E t \in Slots :
           /\ calls[t].op = "save"
           /\ calls[t].stage \notin Answered \union {"sent"})
    /\ UNCHANGED <<up, instances, file, torn, kept, contended>>

\* Mutant: the servers are not saved.
ReadServersForgotten(s) ==
    /\ At(s, "save", "clients")
    /\ calls' = [calls EXCEPT ![s].stage = "servers", ![s].got = [@ EXCEPT !.server = <<>>]]
    /\ UNCHANGED <<up, instances, saving, contended>>

ReadServers(s) ==
    /\ At(s, "save", "clients")
    /\ calls' = [calls EXCEPT ![s].stage = "servers",
                              ![s].got = [@ EXCEPT !.server = Entries("server")]]
    /\ UNCHANGED <<up, instances, saving, contended>>

\* ioutil.WriteFile opens the file with O_TRUNC, or fails to.
Truncate(s) ==
    /\ At(s, "save", "servers")
    /\ Goto(s, "open")
    /\ file' = Unreadable
    /\ torn' = TRUE
    /\ UNCHANGED <<up, instances, overlapped, kept, contended>>

OpenFails(s) ==
    /\ At(s, "save", "servers")
    /\ Fail(s)
    /\ UNCHANGED <<up, instances, saving, contended>>

Text(s) == [k \in Kinds |-> calls[s].got[k]]

\* Over the text of another save that was longer, the end of that one stays.
Write(s) ==
    LET before == calls[s].got.before
        still(k) == {id \in DOMAIN before[k] :
                        id \in DOMAIN relayMap[k] /\ relayMap[k][id] = before[k][id].inst}
    IN /\ At(s, "save", "open")
       /\ file' \in {Text(s)} \union (IF file = Unreadable THEN {} ELSE {Unreadable})
       /\ kept' = [k \in Kinds |-> [id \in still(k) |-> relayMap[k][id]]]
       /\ torn' = FALSE
       /\ Answer(s, <<>>)
       /\ UNCHANGED <<up, instances, overlapped, contended>>

\* Writing or closing the file fails, as on a full disk: none, a part or all of
\* the text is there, and 500 is answered.
WriteFails(s) ==
    /\ At(s, "save", "open")
    /\ file' \in {file, Unreadable, Text(s)}
    /\ Fail(s)
    /\ UNCHANGED <<up, instances, overlapped, torn, kept, contended>>

Save(s) ==
    \/ ReadClients(s) \/ ReadServers(s) \/ Truncate(s) \/ OpenFails(s)
    \/ Write(s) \/ WriteFails(s)

-----------------------------------------------------------------------------
(* The process.                                                             *)

\* It dies: requests that have no answer yet get none, and answers are of
\* another life of the program.
Crash ==
    /\ up
    /\ up' = FALSE
    /\ relayMap' = [k \in Kinds |-> <<>>]
    /\ running' = [k \in Kinds |-> {}]
    /\ halfMade' = {}
    /\ calls' = [s \in Slots |->
                   IF calls[s].stage = "none" THEN calls[s]
                   ELSE [calls[s] EXCEPT !.late = TRUE,
                                         !.stage = IF @ = "ok" THEN "ok" ELSE "failed"]]
    /\ UNCHANGED <<trackerConfig, born, saving, contended>>

\* No answer while it is down.
Unreachable(s) ==
    /\ ~up /\ calls[s].stage = "sent"
    /\ Fail(s)
    /\ UNCHANGED <<up, instances, saving, contended>>

\* loadConfig creates what the file names; what cannot be created is logged and
\* left out, and may be a client that keeps one socket. An instance is known by
\* its settings, and so keeps its number.
Start(loaded) ==
    LET saved(i) == UNION {{file[k][id].config :
                               id \in {j \in loaded[k] : file[k][j].inst = i}} : k \in Kinds}
    IN /\ ~up
       /\ \A k \in Kinds : loaded[k] \subseteq DOMAIN file[k]
       /\ up' = TRUE
       /\ relayMap' = [k \in Kinds |-> [id \in loaded[k] |-> file[k][id].inst]]
       /\ \E half \in SUBSET (DOMAIN file["client"] \ loaded["client"]) :
              halfMade' = {file["client"][id].inst : id \in half}
       /\ running' = [k \in Kinds |-> {file[k][id].inst : id \in loaded[k]} \union HalfMade(k)']
       /\ trackerConfig' = [i \in Instances |->
              IF saved(i) = {} THEN NoConfig ELSE CHOOSE config \in saved(i) : TRUE]
       /\ UNCHANGED <<born, saving, calls, contended>>

Handle(s) ==
    \/ CreateRefused(s) \/ MakeHalf(s) \/ (\E id \in Ids : Make(s, id)) \/ Register(s)
    \/ DeleteServer(s) \/ DeleteClient(s)
    \/ List(s) \/ (\E op \in Queries : Query(s, op)) \/ SetTracker(s)
    \/ Save(s) \/ Unreachable(s)

-----------------------------------------------------------------------------
(* Properties.                                                              *)

Registered(k) == {relayMap[k][id] : id \in DOMAIN relayMap[k]}
Held(op, stage, k) ==
    {calls[s].inst : s \in {t \in Slots : /\ calls[t].op = op
                                          /\ calls[t].stage = stage /\ calls[t].kind = k}}

\* What has a socket open can be managed and what is listed has one, but for
\* instances that a handler has in hand and the first sockets of clients whose
\* creation failed at the second: unless two requests worked on one id at once,
\* no other socket stays open that no handler can find any more (controller.go
\* 181-188, 367-374, utils.go 10-37, 57-79, acvanced_relay_client.go 97-113).
RegistryMatchesRunning ==
    \A k \in Kinds : up /\ ~contended[k] =>
        running[k] \union Held("delete", "closed", k) =
            Registered(k) \union Held("create", "made", k)
            \union Held("delete", "removed", k) \union HalfMade(k)

\* The file holds whatever was there during the whole of the last successful
\* save, unless two saves overlapped, or a later one has opened the file and
\* not ended well: it is under way, its write failed or the program died. A
\* save that succeeds afterwards makes up for it (config.go 95-162).
FileHoldsSaved ==
    ~overlapped /\ ~torn =>
        \A k \in Kinds : \A id \in DOMAIN kept[k] :
            id \in DOMAIN file[k] /\ file[k][id].inst = kept[k][id]

\* Refuted: an instance with an open socket can be found by its id.
NoInstanceLost ==
    \A k \in Kinds : up =>
        running[k] \subseteq
            Registered(k) \union Held("create", "made", k) \union Held("delete", "removed", k)

\* Refuted: a save that reported success is there after the next start
\* (README.md:36: the program loads its configuration file when it starts).
SavedSurvives ==
    (\A s \in Slots : calls[s].op = "save" => calls[s].stage # "open") =>
        \A k \in Kinds : DOMAIN kept[k] \subseteq DOMAIN file[k]
=============================================================================

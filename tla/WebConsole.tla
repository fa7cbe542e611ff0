------------------------------ MODULE WebConsole ------------------------------
(***************************************************************************)
(* The page static/js/index.js over the handlers of Registry. Every click  *)
(* sends a request and goes on; the answers come in any order, and what an *)
(* answer does is done with the page as it is by then: which instance is   *)
(* open, which list was drawn last. The requests of a page are its only    *)
(* way to the instances.                                                   *)
(*                                                                         *)
(* A situation says which file the program has loaded, what may be clicked *)
(* and how often, and how often the program may die and be started again.  *)
(***************************************************************************)
EXTENDS Registry

CONSTANT Situations

AllConfigs == Configs \union {NoConfig, Invalid}

\* No two entries of a file are one instance, and instances are numbered.
ASSUME SituationsAssumption ==
    \A sit \in Situations :
        /\ \A k, l \in Kinds : \A i \in DOMAIN sit.file[k], j \in DOMAIN sit.file[l] :
               sit.file[k][i].inst = sit.file[l][j].inst => k = l /\ i = j
        /\ \E n \in 0..MaxBorn :
               UNION {{sit.file[k][id].inst : id \in DOMAIN sit.file[k]} : k \in Kinds} = 1..n
        /\ \A k \in Kinds : \A id \in DOMAIN sit.file[k] :
               id \in Ids /\ sit.file[k][id].config \in AllConfigs
        /\ sit.typed \subseteq AllConfigs

VARIABLES
    list,           \* serverlist and clientlist
    listed,         \* [Kinds -> it is defined]
    instance_id,    \* server_instance_id and client_instance_id
    modal,          \* the window that is open
    form,           \* [Kinds -> the tracker's fields]
    link,           \* [Kinds -> the quick configuration link]
    draft,          \* the tracker's fields of the form that creates a client
    connlist,
    table,          \* [Kinds -> the instance whose connections are listed]
    stale,          \* [Kinds -> an excuse for the list to be old, see below]
    mixed,          \* [Kinds -> one for a link of two instances]
    clicks, crashes, situation

tables == <<list, listed, stale>>
tracker == <<form, link, draft, mixed>>
details == <<connlist, table>>
limits == <<clicks, crashes, situation>>
pageVars == <<tables, instance_id, modal, tracker, details>>
vars == <<registryVars, pageVars, limits>>

Schemes == {"", "ws", "wss", "http", "https"}
NoLink == [settings |-> NoInstance, of |-> NoInstance, config |-> NoConfig]
NoTable == [what |-> "nothing", inst |-> NoInstance]
Modals == Kinds \union {"none", "create server", "create client"}

Init ==
    /\ situation \in Situations
    /\ file = situation.file
    /\ relayMap = [k \in Kinds |-> [id \in DOMAIN file[k] |-> file[k][id].inst]]
    /\ running = [k \in Kinds |-> {file[k][id].inst : id \in DOMAIN file[k]}]
    /\ born = Cardinality(UNION {running[k] : k \in Kinds})
    /\ trackerConfig = [i \in Instances |->
           IF \E k \in Kinds : i \in running[k]
           THEN (CHOOSE e \in UNION {{file[k][id] : id \in DOMAIN file[k]} : k \in Kinds} :
                     e.inst = i).config
           ELSE NoConfig]
    /\ up = TRUE
    \* $(document).ready: the clients are listed.
    /\ \E s \in Slots :
           calls = [t \in Slots |-> IF t = s THEN Request("list", "client", 0, NoConfig, {})
                                    ELSE Nothing]
    /\ contended = [k \in Kinds |-> FALSE]
    /\ halfMade = {}
    /\ overlapped = FALSE /\ torn = FALSE
    /\ kept = Unreadable
    /\ list = [k \in Kinds |-> <<>>]
    /\ listed = [k \in Kinds |-> FALSE]
    /\ instance_id = [k \in Kinds |-> 0]
    /\ modal = "none"
    /\ form = [k \in Kinds |-> NoConfig]
    /\ link = [k \in Kinds |-> NoLink]
    /\ draft = NoConfig
    /\ connlist = NoTable
    /\ table = [k \in Kinds |-> NoInstance]
    /\ stale = [k \in Kinds |-> FALSE]
    /\ mixed = [k \in Kinds |-> FALSE]
    /\ clicks = 0 /\ crashes = 0

-----------------------------------------------------------------------------
(* $.ajax.                                                                  *)

InFlight(k, ops) ==
    {s \in Slots : calls[s].stage # "none" /\ calls[s].kind = k /\ calls[s].op \in ops}

Ajax(op, k, id, data) ==
    /\ <<op, k>> \in situation.menu
    /\ clicks < situation.clicks /\ clicks' = clicks + 1
    /\ \E s \in Slots :
           /\ calls[s].stage = "none"
           /\ calls' = [calls EXCEPT ![s] = Request(op, k, id, data, InFlight(k, {op}))]
    \* A request for the tracker's fields beside one that changes the list.
    /\ mixed' = [mixed EXCEPT ![k] = @ \/
           \/ /\ op \in {"tracker", "tracker/set"}
              /\ InFlight(k, {"create", "delete", "list"}) # {}
           \/ op \in {"create", "delete", "list"} /\ InFlight(k, {"tracker", "tracker/set"}) # {}]
    /\ UNCHANGED <<up, instances, saving, contended, crashes, situation>>

\* The requests when the answer to s has been taken.
Taken(s) ==
    [t \in Slots |->
        IF t = s THEN Nothing
        ELSE [calls[t] EXCEPT !.late = @ \/ t \in calls[s].earlier,
                              !.earlier = @ \ {s}]]

\* The success function ends, or makes a request of its own.
Done(s) == calls' = Taken(s)
Then(s, op, k) ==
    calls' = [Taken(s) EXCEPT
        ![s] = Request(op, k, instance_id[k], NoConfig, InFlight(k, {op}) \ {s})]

Success(s, op) == calls[s].op = op /\ calls[s].stage = "ok"
Quiet == UNCHANGED <<up, instances, saving, contended, limits>>

-----------------------------------------------------------------------------
(* list_server and list_client.                                             *)

ClickList(k) ==
    /\ modal = "none"
    /\ Ajax("list", k, 0, NoConfig)
    /\ UNCHANGED <<tables, instance_id, modal, form, link, draft, details>>

ListAnswered(s) ==
    LET k == calls[s].kind
    IN /\ Success(s, "list")
       /\ Done(s)
       /\ list' = [list EXCEPT ![k] = calls[s].got]
       /\ listed' = [listed EXCEPT ![k] = TRUE]
       /\ stale' = [stale EXCEPT ![k] = calls[s].late]
       /\ Quiet /\ UNCHANGED <<instance_id, modal, tracker, details>>

-----------------------------------------------------------------------------
(* The windows: show_server_info and show_client_info, and closing one.     *)

Show(k, id) ==
    /\ modal = "none" /\ id \in DOMAIN list[k]
    /\ modal' = k
    /\ instance_id' = [instance_id EXCEPT ![k] = id]
    /\ mixed' = [mixed EXCEPT ![k] = @ \/ InFlight(k, {"tracker", "tracker/set"}) # {}]
    /\ UNCHANGED <<calls, tables, form, link, draft, details>> /\ Quiet

CloseModal ==
    /\ modal # "none"
    /\ modal' = "none"
    /\ UNCHANGED <<calls, tables, instance_id, tracker, details>> /\ Quiet

\* show_create_server and show_create_client.
ShowCreate(k) ==
    /\ modal = "none" /\ <<"create", k>> \in situation.menu
    /\ modal' = IF k = "server" THEN "create server" ELSE "create client"
    /\ UNCHANGED <<calls, tables, instance_id, tracker, details>> /\ Quiet

\* create_client_by_link with a link that is shown by some page. One that is
\* no link, no base64 or no JSON only brings a message.
CreateByLink(k) ==
    /\ modal = "none" /\ <<"create", "client">> \in situation.menu
    /\ link[k] # NoLink
    /\ draft' = link[k].config
    /\ modal' = "create client"
    /\ UNCHANGED <<calls, tables, instance_id, form, link, mixed, details>> /\ Quiet

-----------------------------------------------------------------------------
(* create_server and create_client. The button closes the window.           *)

Create(k, id, config) ==
    /\ modal = IF k = "server" THEN "create server" ELSE "create client"
    /\ modal' = "none"
    /\ Ajax("create", k, id, config)
    /\ UNCHANGED <<tables, instance_id, form, link, draft, details>>

\* Mutant: the instances are not listed again.
CreatedOnly(s) ==
    /\ Success(s, "create")
    /\ Done(s)
    /\ UNCHANGED pageVars /\ Quiet

Created(s) ==
    /\ Success(s, "create")
    /\ Then(s, "list", calls[s].kind)
    /\ UNCHANGED pageVars /\ Quiet

-----------------------------------------------------------------------------
(* delete_server and delete_client, whose buttons close the window.         *)

Delete(k) ==
    /\ modal = k /\ modal' = "none"
    /\ Ajax("delete", k, instance_id[k], NoConfig)
    /\ UNCHANGED <<tables, instance_id, form, link, draft, details>>

Deleted(s) ==
    /\ Success(s, "delete")
    /\ Then(s, "list", calls[s].kind)
    /\ UNCHANGED pageVars /\ Quiet

-----------------------------------------------------------------------------
(* The buttons of the windows that change no instance of the registry:      *)
(* connect_client, restart_client_connection, update_client_serveraddr.     *)

Connect ==
    /\ modal = "server"
    /\ Ajax("connect", "server", instance_id["server"], NoConfig)
    /\ UNCHANGED <<tables, instance_id, modal, form, link, draft, details>>

Connected(s) ==
    /\ Success(s, "connect")
    /\ Then(s, "connection", "server")
    /\ UNCHANGED pageVars /\ Quiet

Restart ==
    /\ modal = "client" /\ modal' = "none"
    /\ Ajax("restart", "client", instance_id["client"], NoConfig)
    /\ UNCHANGED <<tables, instance_id, form, link, draft, details>>

Restarted(s) ==
    /\ Success(s, "restart")
    /\ Then(s, "list", "client")
    /\ UNCHANGED pageVars /\ Quiet

UpdateServerAddr ==
    /\ modal = "client"
    /\ Ajax("serveraddr", "client", instance_id["client"], NoConfig)
    /\ UNCHANGED <<tables, instance_id, modal, form, link, draft, details>>

ServerAddrUpdated(s) ==
    /\ Success(s, "serveraddr")
    /\ Done(s)
    /\ UNCHANGED pageVars /\ Quiet

\* save_config.
SaveConfig ==
    /\ modal = "none"
    /\ Ajax("save", "server", 0, NoConfig)
    /\ UNCHANGED <<tables, instance_id, modal, form, link, draft, details>>

Saved(s) ==
    /\ Success(s, "save")
    /\ Then(s, "list", "server")
    /\ UNCHANGED pageVars /\ Quiet

-----------------------------------------------------------------------------
(* The four functions that share connlist: list_server_conn,                *)
(* list_client_conn, list_server_session and list_client_session.           *)

ClickConnections(k) ==
    /\ modal = k
    /\ Ajax("connection", k, instance_id[k], NoConfig)
    /\ UNCHANGED <<tables, instance_id, modal, form, link, draft, details>>

\* An instance without connections answers null.
ConnectionsAnswered(s) ==
    LET shown(inst) == /\ table' = [table EXCEPT ![calls[s].kind] = inst]
                       /\ connlist' = [what |-> "connections", inst |-> inst]
    IN /\ Success(s, "connection")
       /\ Done(s)
       /\ shown(calls[s].got.inst) \/ shown(NoInstance)
       /\ UNCHANGED <<tables, instance_id, modal, tracker>> /\ Quiet

ClickSessions(k) ==
    /\ modal = k
    /\ Ajax("session", k, instance_id[k], NoConfig)
    /\ UNCHANGED <<tables, instance_id, modal, form, link, draft, details>>

SessionsAnswered(s) ==
    /\ Success(s, "session")
    /\ Done(s)
    /\ connlist' = [what |-> "sessions", inst |-> calls[s].got.inst]
    /\ UNCHANGED <<tables, instance_id, modal, tracker, table>> /\ Quiet

\* show_conn_info of a row renders connlist[row].
Detail == connlist

-----------------------------------------------------------------------------
(* The tracker's fields and the quick configuration link.                   *)

ClickTracker(k) ==
    /\ modal = k
    /\ Ajax("tracker", k, instance_id[k], NoConfig)
    /\ UNCHANGED <<tables, instance_id, modal, form, link, draft, details>>

\* Mutant: "ws" stays as it is.
ClientUrlSecure(scheme) == IF scheme = "wss" THEN "https" ELSE scheme

\* A client asks its tracker over http, a server keeps a websocket.
ClientUrl(scheme) ==
    CASE scheme = "wss" -> "https" [] scheme = "ws" -> "http" [] OTHER -> scheme

\* A configuration is a tracker's URL and ids, and is one with either scheme.
ASSUME UrlsAssumption ==
    /\ \A c \in AllConfigs :
           /\ c = [id |-> c.id, scheme |-> c.scheme]
           /\ [c EXCEPT !.scheme = ClientUrl(@)] \in AllConfigs
    /\ NoConfig.scheme \notin {"ws", "wss"}

\* The link is made from the answer and from the instance that is open by now,
\* as it was listed. Without such an instance the function throws once the
\* fields are set.
LinkFrom(k, got, scheme) ==
    IF instance_id[k] \in DOMAIN list[k]
    THEN [settings |-> list[k][instance_id[k]], of |-> got.inst,
          config |-> [got.config EXCEPT !.scheme = scheme]]
    ELSE link[k]

TrackerAnswered(s, k, scheme) ==
    LET got == calls[s].got
    IN /\ Success(s, "tracker") /\ calls[s].kind = k
       /\ Done(s)
       /\ form' = [form EXCEPT ![k] = got.config]
       /\ link' = [link EXCEPT ![k] = LinkFrom(k, got, scheme)]
       /\ mixed' = [mixed EXCEPT ![k] = @ \/ stale[k]]
       /\ UNCHANGED <<tables, instance_id, modal, draft, details>> /\ Quiet

ServerTrackerAnswered(s) == TrackerAnswered(s, "server", ClientUrl(calls[s].got.config.scheme))
ClientTrackerAnswered(s) == TrackerAnswered(s, "client", calls[s].got.config.scheme)

\* set_server_tracker and set_client_tracker send the fields.
ClickSetTracker(k) ==
    /\ modal = k
    /\ \E config \in {form[k]} \union situation.typed :
           /\ Ajax("tracker/set", k, instance_id[k], config)
           /\ form' = [form EXCEPT ![k] = config]
    /\ UNCHANGED <<tables, instance_id, modal, link, draft, details>>

\* Only that of a server asks for the fields again.
TrackerSet(s) ==
    LET k == calls[s].kind
    IN /\ Success(s, "tracker/set")
       /\ IF k = "server" THEN Then(s, "tracker", k) ELSE Done(s)
       /\ UNCHANGED pageVars /\ Quiet

-----------------------------------------------------------------------------
(* The error functions show a message; list_server and list_client and the  *)
(* four that share connlist have none. Nothing is listed again: a creation  *)
(* may have entered its instance, and a program that died has lost some.    *)

ErrorShown(s) ==
    LET k == calls[s].kind
        created == calls[s].op = "create"
    IN /\ calls[s].stage = "failed"
       /\ calls' = [t \in Slots |->
              [Taken(s)[t] EXCEPT !.late = @ \/ (created /\ t \in InFlight(k, {"list"}))]]
       /\ stale' = [stale EXCEPT ![k] = @ \/ created]
       /\ UNCHANGED <<list, listed, instance_id, modal, tracker, details>> /\ Quiet

Callback(s) ==
    \/ ListAnswered(s) \/ Created(s) \/ Deleted(s) \/ Connected(s) \/ Restarted(s)
    \/ ServerAddrUpdated(s) \/ Saved(s) \/ ConnectionsAnswered(s) \/ SessionsAnswered(s)
    \/ ServerTrackerAnswered(s) \/ ClientTrackerAnswered(s) \/ TrackerSet(s) \/ ErrorShown(s)

Click(k) ==
    \/ ClickList(k) \/ ShowCreate(k) \/ CreateByLink(k) \/ Delete(k)
    \/ ClickConnections(k) \/ ClickSessions(k) \/ ClickTracker(k) \/ ClickSetTracker(k)
    \/ \E id \in Ids : Show(k, id)
    \/ \E id \in Ids \union {0} :
           \/ k = "client" /\ Create(k, id, draft)
           \/ k = "server" /\ \E config \in situation.typed : Create(k, id, config)

Buttons == CloseModal \/ Connect \/ Restart \/ UpdateServerAddr \/ SaveConfig

\* The program dies, or is started again: what was not saved is gone, and
\* neither the lists nor an answer under way know.
Process ==
    /\ \/ /\ crashes < situation.crashes /\ crashes' = crashes + 1 /\ Crash
          /\ mixed' = [k \in Kinds |-> mixed[k] \/ InFlight(k, {"tracker"}) # {}]
       \/ UNCHANGED <<crashes, mixed>> /\ \E loaded \in [Kinds -> SUBSET Ids] : Start(loaded)
    /\ stale' = [k \in Kinds |-> TRUE]
    /\ UNCHANGED <<list, listed, instance_id, modal, form, link, draft, details,
                   clicks, situation>>

Next ==
    \/ \E s \in Slots : Handle(s) /\ UNCHANGED <<pageVars, limits>>
    \/ \E s \in Slots : Callback(s)
    \/ \E k \in Kinds : Click(k)
    \/ Buttons
    \/ Process

Spec == Init /\ [][Next]_vars

-----------------------------------------------------------------------------
(* Properties.                                                              *)

Shown == {draft} \union UNION {{form[k], link[k].config} : k \in Kinds}

TypeOK ==
    /\ up \in BOOLEAN
    /\ \A k \in Kinds :
           /\ DOMAIN relayMap[k] \subseteq Ids
           /\ Registered(k) \union running[k] \subseteq 1..born
           /\ DOMAIN list[k] \subseteq Ids
           /\ instance_id[k] \in Ids \union {0}
           /\ table[k] \in Instances \union {NoInstance}
    /\ born \in 0..MaxBorn
    /\ trackerConfig \in [Instances -> AllConfigs]
    /\ Shown \subseteq AllConfigs
    /\ modal \in Modals
    /\ {contended[k] : k \in Kinds} \union {stale[k] : k \in Kinds} \subseteq BOOLEAN
    \* A handler that is at work has an instance of its own kind in hand.
    /\ \A s \in Slots : calls[s].stage \in {"made", "found", "closed", "removed"} =>
           calls[s].inst \in 1..born
    \* The two kinds never share an instance.
    /\ running["server"] \intersect running["client"] = {}

\* When nothing that changes or lists the instances of a kind is under way, the
\* page shows what there is. The excuses are: an answer that was overtaken by
\* that of a later request, a creation that failed, which may have entered its
\* instance all the same, and a program that died (index.js 58-109, 313-422, 480-514).
ListSettles ==
    \A k \in Kinds :
        up /\ listed[k] /\ ~stale[k] /\ InFlight(k, {"create", "delete", "list"}) = {} =>
            list[k] = relayMap[k]

\* The quick configuration link takes the settings and the tracker id from one
\* and the same instance, and names a URL that a client can ask, unless another
\* instance was opened, the list changed, or the program died while the answer
\* was under way (index.js 531-587, 612-660).
LinkOfOneInstance ==
    \A k \in Kinds :
        /\ ~mixed[k] => link[k].settings = link[k].of
        /\ k = "server" => link[k].config.scheme \notin {"ws", "wss"}

\* Refuted: without the excuse.
LinkNeverMixed == \A k \in Kinds : link[k].settings = link[k].of

\* Refuted: the details shown for a row of the connections are its own.
DetailIsOfRow ==
    \A k \in Kinds : modal = k /\ table[k] # NoInstance =>
        Detail = [what |-> "connections", inst |-> table[k]]

\* Refuted: two servers have one tracker id only if the user typed it twice.
OwnTrackerIds ==
    \A i, j \in running["server"] :
        i # j /\ trackerConfig[i] = trackerConfig[j] => trackerConfig[i] = NoConfig
=============================================================================

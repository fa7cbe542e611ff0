----------------------------- MODULE MCWebConsole -----------------------------
(* WebConsole for TLC: the situations of its run.                           *)
EXTENDS WebConsole, TLC

ConfigOf(n, s) == [id |-> n, scheme |-> s]
MCConfigs == {ConfigOf(n, s) : n \in 1..2, s \in Schemes \ {""}}
MCNoConfig == ConfigOf(0, "")
MCInvalid == ConfigOf(9, "")

Symmetry == Permutations(Slots)

\* A file with two servers, and one with a server and a client.
OnFile(inst, n, s) == [inst |-> inst, config |-> ConfigOf(n, s)]
TwoServers ==
    [server |-> (1 :> OnFile(1, 1, "ws")) @@ (2 :> OnFile(2, 2, "wss")), client |-> <<>>]
OneOfEach ==
    [server |-> 1 :> OnFile(1, 1, "ws"), client |-> 1 :> OnFile(2, 1, "http")]

\* Instances come and go.
Managing(k) ==
    [file |-> OneOfEach, clicks |-> 3, crashes |-> 0,
     menu |-> {"list", "create", "delete"} \X {k},
     typed |-> {MCInvalid, ConfigOf(2, "wss")}]

\* They are saved, and the program dies.
Saving(times, deaths) ==
    [file |-> OneOfEach, clicks |-> times, crashes |-> deaths,
     menu |-> {<<"list", "client">>, <<"create", "client">>, <<"delete", "client">>,
               <<"save", "server">>},
     typed |-> {}]

\* The tracker is looked at and changed while instances come and go.
LinkingServers ==
    [file |-> TwoServers, clicks |-> 4, crashes |-> 0,
     menu |-> {"list", "tracker", "tracker/set", "delete"} \X {"server"},
     typed |-> {MCInvalid}]
LinkingClients ==
    [file |-> OneOfEach, clicks |-> 3, crashes |-> 0,
     menu |-> {"tracker", "tracker/set", "delete", "create"} \X {"client"},
     typed |-> {}]

\* The connections of the instances.
Watching ==
    [file |-> OneOfEach, clicks |-> 4, crashes |-> 0,
     menu |-> {<<"list", "server">>, <<"connect", "server">>, <<"restart", "client">>,
               <<"serveraddr", "client">>}
              \union ({"connection", "session"} \X Kinds),
     typed |-> {}]

MCSituations ==
    {Managing(k) : k \in Kinds} \union {Saving(3, 0), Saving(2, 1)}
    \union {LinkingServers, LinkingClients, Watching}
=============================================================================

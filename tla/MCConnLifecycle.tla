--------------------------- MODULE MCConnLifecycle ---------------------------
(* ConnLifecycle for TLC: the situations of its runs.                       *)
EXTENDS ConnLifecycle

\* A server's connection, from either side of the start of its connecting
\* goroutine, with every packet and every closer.
ServerConns ==
    [act : {"server"}, stat : {"INIT", "WAIT_CONN"},
     kinds : {{"CREATE", "DATA", "CLOSE", "PING"}}, closers : {Closers}]

\* A client's, waiting for its acknowledgement.
ClientConns ==
    [act : {"client"}, stat : {"WAIT_ACK"}, kinds : {{"ACK", "DATA", "CLOSE"}},
     closers : {Closers}]

\* An established connection that only the manager closes.
ManagedConns ==
    [act : {"client", "server"}, stat : {"ESTABLISHED"}, kinds : {{"DATA", "PING"}},
     closers : {{"user"}}]

EverySituation == ServerConns \union ClientConns \union ManagedConns

\* A server's connection that only its peer closes.
PeerCloses ==
    [act : {"server"}, stat : {"INIT"}, kinds : {{"CREATE", "DATA", "CLOSE", "PING"}},
     closers : {{"recv"}}]
=============================================================================

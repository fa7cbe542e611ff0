---------------------------- MODULE ConnAgreement ----------------------------
(***************************************************************************)
(* What the connection handshake promises, without packets and goroutines: *)
(* the server adopts keys the client offered; the client becomes           *)
(* established once, after the server adopted a key; the server becomes    *)
(* established after the client only, with the client's key, and then      *)
(* takes no other one. A closed server may come back, under the same       *)
(* conditions.                                                             *)
(***************************************************************************)
CONSTANTS Keys, NoKey

VARIABLES
    offered,   \* the keys the client drew to push them
    adopted,   \* the keys the server took up
    held,      \* the last of them
    inUse,     \* the key the client became established with, NoKey before
    serverUp,  \* the server counts the connection as established
    lost       \* the client closed after it became established

vars == <<offered, adopted, held, inUse, serverUp, lost>>

Init ==
    /\ offered = {}
    /\ adopted = {}
    /\ held = NoKey
    /\ inUse = NoKey
    /\ serverUp = FALSE
    /\ lost = FALSE

Offer(k) ==
    /\ k \in Keys \ offered
    /\ offered' = offered \union {k}
    /\ UNCHANGED <<adopted, held, inUse, serverUp, lost>>

\* Once the server is up it takes no other key.
Adopt(k) ==
    /\ k \in offered
    /\ ~serverUp
    /\ adopted' = adopted \union {k}
    /\ held' = k
    /\ UNCHANGED <<offered, inUse, serverUp, lost>>

ClientEstablish(k) ==
    /\ k \in offered
    /\ adopted # {}
    /\ inUse = NoKey
    /\ inUse' = k
    /\ UNCHANGED <<offered, adopted, held, serverUp, lost>>

ServerEstablish ==
    /\ inUse # NoKey
    /\ held = inUse \/ lost
    /\ ~serverUp
    /\ serverUp' = TRUE
    /\ UNCHANGED <<offered, adopted, held, inUse, lost>>

\* The client does not come back.
Lose ==
    /\ inUse # NoKey
    /\ ~lost
    /\ lost' = TRUE
    /\ UNCHANGED <<offered, adopted, held, inUse, serverUp>>

ServerDown ==
    /\ serverUp
    /\ serverUp' = FALSE
    /\ UNCHANGED <<offered, adopted, held, inUse, lost>>

Next ==
    \/ \E k \in Keys : Offer(k) \/ Adopt(k) \/ ClientEstablish(k)
    \/ ServerEstablish
    \/ Lose
    \/ ServerDown

Spec == Init /\ [][Next]_vars
=============================================================================

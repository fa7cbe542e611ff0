----------------------------- MODULE SessionMux ------------------------------
(***************************************************************************)
(* The sessions inside one established connection: every user behind the   *)
(* client gets a 16-bit session id, every id a socket at the server        *)
(* (udprelay/relay_connection.go: RecvUserClientDataProc,                  *)
(* RecvUserServerDataProc, MSG_DATA of recvPacketProc, checkSessionProc;   *)
(* session.go, income_udp_session.go).                                     *)
(*                                                                         *)
(* A datagram carries the user it belongs to, which the program does not   *)
(* know: user of what goes up, flow of what comes back.                    *)
(***************************************************************************)
EXTENDS Naturals, FiniteSets

CONSTANTS
    Users,      \* the addresses of the user's programs
    NoUser,     \* none of them
    Readers,    \* the goroutines that run RecvUserClientDataProc
    NumIDs,     \* how many session ids there are, 2^16 in the program
    MaxUses,    \* bound: how many ids are handed out
    MaxFlight   \* bound: datagrams under way in each direction

ASSUME NumIDsAssumption == NumIDs \in Nat \ {0}
ASSUME BoundAssumption == MaxUses \in Nat /\ MaxFlight \in Nat
ASSUME ReadersAssumption == "free" \notin Readers

IDs == 0 .. NumIDs - 1
NoID == NumIDs
ASSUME NoUserAssumption == NoUser \notin Users

VARIABLES
    clientAddrMap,       \* [Users -> IDs or NoID]
    clientSessionIDMap,  \* [IDs -> Users or NoUser]
    session,             \* the client's, [IDs -> [user, stat]]
    clientSessionID,     \* the id to try next
    uses,                \* how many ids were handed out
    reading,             \* [Readers -> Users or NoUser], the datagram in hand
    sessionLock,         \* the client's, while an id is looked for
    serverSession,       \* [IDs -> [user, stat]]
    up, down             \* MSG_DATA under way

maps == <<clientAddrMap, clientSessionIDMap, session>>
vars == <<maps, clientSessionID, uses, reading, sessionLock, serverSession, up, down>>

NoSession == [user |-> NoUser, stat |-> "none"]
Sessions == [user : Users, stat : {"open", "closed"}]
Opened(u) == [user |-> u, stat |-> "open"]
Datagrams == [id : IDs, user : Users]

TypeOK ==
    /\ clientAddrMap \in [Users -> IDs \union {NoID}]
    /\ clientSessionIDMap \in [IDs -> Users \union {NoUser}]
    /\ session \in [IDs -> Sessions \union {NoSession}]
    /\ clientSessionID \in IDs
    /\ uses \in 0 .. MaxUses
    /\ reading \in [Readers -> Users \union {NoUser}]
    /\ sessionLock \in Readers \union {"free"}
    /\ serverSession \in [IDs -> Sessions \union {NoSession}]
    /\ up \subseteq Datagrams
    /\ down \subseteq Datagrams

Init ==
    /\ clientAddrMap = [u \in Users |-> NoID]
    /\ clientSessionIDMap = [i \in IDs |-> NoUser]
    /\ session = [i \in IDs |-> NoSession]
    /\ clientSessionID = 0
    /\ uses = 0
    /\ reading = [r \in Readers |-> NoUser]
    /\ sessionLock = "free"
    /\ serverSession = [i \in IDs |-> NoSession]
    /\ up = {} /\ down = {}

-----------------------------------------------------------------------------
(* RecvUserClientDataProc.                                                  *)

\* ReadFromUDP returns a datagram of the user u.
Read(r, u) ==
    /\ reading[r] = NoUser
    /\ reading' = [reading EXCEPT ![r] = u]
    /\ UNCHANGED <<maps, clientSessionID, uses, sessionLock, serverSession, up, down>>

Known(u) ==
    /\ clientAddrMap[u] # NoID
    /\ session[clientAddrMap[u]].stat # "none"

SendUp(r, id) ==
    /\ up' = up \union {[id |-> id, user |-> reading[r]]}
    /\ reading' = [reading EXCEPT ![r] = NoUser]

\* The session of the user, if there is one, open or closed.
Forward(r) ==
    /\ reading[r] # NoUser
    /\ sessionLock = "free"
    /\ Known(reading[r])
    /\ Cardinality(up) < MaxFlight
    /\ SendUp(r, clientAddrMap[reading[r]])
    /\ UNCHANGED <<maps, clientSessionID, uses, sessionLock, serverSession, down>>

\* Otherwise an id is looked for, with the lock held.
StartSearch(r) ==
    /\ reading[r] # NoUser
    /\ sessionLock = "free"
    /\ ~Known(reading[r])
    /\ uses < MaxUses
    /\ Cardinality(up) < MaxFlight
    /\ sessionLock' = r
    /\ UNCHANGED <<maps, clientSessionID, uses, reading, serverSession, up, down>>

\* Mutants: the counter stands still; it does not wrap.
NextIDStuck == clientSessionID
NextIDUnbounded == clientSessionID + 1

NextID == (clientSessionID + 1) % NumIDs

Search(r) ==
    /\ sessionLock = r
    /\ clientSessionIDMap[clientSessionID] # NoUser
    /\ clientSessionID' = NextID
    /\ UNCHANGED <<maps, uses, reading, sessionLock, serverSession, up, down>>

Create(r) ==
    /\ sessionLock = r
    /\ clientSessionIDMap[clientSessionID] = NoUser
    /\ clientSessionID' = NextID
    /\ uses' = uses + 1
    /\ clientSessionIDMap' = [clientSessionIDMap EXCEPT ![clientSessionID] = reading[r]]
    /\ clientAddrMap' = [clientAddrMap EXCEPT ![reading[r]] = clientSessionID]
    /\ session' = [session EXCEPT ![clientSessionID] = Opened(reading[r])]
    /\ SendUp(r, clientSessionID)
    /\ sessionLock' = "free"
    /\ UNCHANGED <<serverSession, down>>

-----------------------------------------------------------------------------
(* recvPacketProc and RecvUserServerDataProc of the server.                 *)

\* The session of the id is created if there is none; one that was closed and
\* not yet forgotten refuses the datagram.
ServerReceives(m) ==
    /\ m \in up
    /\ up' = up \ {m}
    /\ serverSession' =
         IF serverSession[m.id].stat = "none"
           THEN [serverSession EXCEPT ![m.id] = Opened(m.user)]
           ELSE serverSession
    /\ UNCHANGED <<maps, clientSessionID, uses, reading, sessionLock, down>>

\* The user's server sends to the socket of an open session.
Reply(id) ==
    /\ serverSession[id].stat = "open"
    /\ Cardinality(down) < MaxFlight
    /\ down' = down \union {[id |-> id, user |-> serverSession[id].user]}
    /\ UNCHANGED <<maps, clientSessionID, uses, reading, sessionLock, serverSession, up>>

\* The client passes it to the session's user, or drops it: the session is
\* unknown or closed. A write that fails closes the session.
ClientReceives(m) ==
    /\ m \in down
    /\ sessionLock = "free"
    /\ down' = down \ {m}
    /\ \/ UNCHANGED session
       \/ /\ session[m.id].stat = "open"
          /\ session' = [session EXCEPT ![m.id].stat = "closed"]
    /\ UNCHANGED <<clientAddrMap, clientSessionIDMap, clientSessionID, uses, reading,
                   sessionLock, serverSession, up>>

Lose(m) ==
    /\ \/ m \in up /\ up' = up \ {m} /\ UNCHANGED down
       \/ m \in down /\ down' = down \ {m} /\ UNCHANGED up
    /\ UNCHANGED <<maps, clientSessionID, uses, reading, sessionLock, serverSession>>

-----------------------------------------------------------------------------
(* checkSessionProc of either side: a session nobody used for a while is    *)
(* closed, one that has been closed for a while is forgotten.               *)

ClientCloses(id) ==
    /\ sessionLock = "free"
    /\ session[id].stat = "open"
    /\ session' = [session EXCEPT ![id].stat = "closed"]
    /\ UNCHANGED <<clientAddrMap, clientSessionIDMap, clientSessionID, uses, reading,
                   sessionLock, serverSession, up, down>>

\* Mutant: the user keeps the id.
ClientForgetsSession(id) ==
    /\ sessionLock = "free"
    /\ session[id].stat = "closed"
    /\ clientSessionIDMap' = [clientSessionIDMap EXCEPT ![id] = NoUser]
    /\ session' = [session EXCEPT ![id] = NoSession]
    /\ UNCHANGED <<clientAddrMap, clientSessionID, uses, reading, sessionLock,
                   serverSession, up, down>>

\* The first user found with the id loses it.
ClientForgets(id) ==
    /\ sessionLock = "free"
    /\ session[id].stat = "closed"
    /\ \/ \E u \in Users :
            /\ clientAddrMap[u] = id
            /\ clientAddrMap' = [clientAddrMap EXCEPT ![u] = NoID]
       \/ /\ \A u \in Users : clientAddrMap[u] # id
          /\ UNCHANGED clientAddrMap
    /\ clientSessionIDMap' = [clientSessionIDMap EXCEPT ![id] = NoUser]
    /\ session' = [session EXCEPT ![id] = NoSession]
    /\ UNCHANGED <<clientSessionID, uses, reading, sessionLock, serverSession, up, down>>

ServerCloses(id) ==
    /\ serverSession[id].stat = "open"
    /\ serverSession' = [serverSession EXCEPT ![id].stat = "closed"]
    /\ UNCHANGED <<maps, clientSessionID, uses, reading, sessionLock, up, down>>

ServerForgets(id) ==
    /\ serverSession[id].stat = "closed"
    /\ serverSession' = [serverSession EXCEPT ![id] = NoSession]
    /\ UNCHANGED <<maps, clientSessionID, uses, reading, sessionLock, up, down>>

-----------------------------------------------------------------------------
Next ==
    \/ \E r \in Readers :
         \/ \E u \in Users : Read(r, u)
         \/ Forward(r) \/ StartSearch(r) \/ Search(r) \/ Create(r)
    \/ \E m \in up \union down : ServerReceives(m) \/ ClientReceives(m) \/ Lose(m)
    \/ \E id \in IDs :
         Reply(id) \/ ClientCloses(id) \/ ClientForgets(id) \/ ServerCloses(id)
           \/ ServerForgets(id)

Spec == Init /\ [][Next]_vars

\* A reader that holds the lock goes on.
FairSpec == Spec /\ \A r \in Readers : WF_vars(Search(r) \/ Create(r))

-----------------------------------------------------------------------------
(* The client's three maps agree: an id is mapped to a user exactly when    *)
(* that user is mapped to the id, and then the session of the id is that    *)
(* user's. So two users never share an id (RecvUserClientDataProc,          *)
(* checkSessionProc).                                                       *)
MapsAgree ==
    /\ \A u \in Users, i \in IDs :
         clientAddrMap[u] = i <=> clientSessionIDMap[i] = u
    /\ \A i \in IDs :
         /\ session[i].stat = "none" <=> clientSessionIDMap[i] = NoUser
         /\ session[i].stat # "none" => session[i].user = clientSessionIDMap[i]

(* No user gets the datagrams of another: what comes back for a session of  *)
(* the client belongs to that session's user, and what goes up to a session *)
(* of the server to the user whose datagram opened it. It holds until an id *)
(* is handed out for the second time: the program does nothing to keep a    *)
(* datagram of the id's first user from its second                          *)
(* (recvPacketProc, RecvUserClientDataProc).                                *)
NoCrossTalk ==
    uses <= NumIDs =>
        /\ \A m \in down : session[m.id].stat # "none" => session[m.id].user = m.user
        /\ \A m \in up : serverSession[m.id].stat # "none" => serverSession[m.id].user = m.user

(* Whoever looks for a free id finds one: the lock is not held for good     *)
(* (RecvUserClientDataProc). relay_connection.go:576 says of the search:    *)
(* "find a session id that can be used".                                    *)
SearchEnds == \A r \in Readers : sessionLock = r ~> sessionLock = "free"
=============================================================================

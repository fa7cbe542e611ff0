-------------------------- MODULE SessionMuxProofs ---------------------------
(***************************************************************************)
(* Theorems about SessionMux for any users, readers, ids and bounds.       *)
(***************************************************************************)
EXTENDS SessionMux, TLAPS

(* A reader that holds the lock has a datagram whose user has no id.        *)
LockInv ==
    \A r \in Readers : sessionLock = r =>
        /\ reading[r] # NoUser
        /\ clientAddrMap[reading[r]] = NoID
        /\ uses < MaxUses

IInv == TypeOK /\ MapsAgree /\ LockInv

-----------------------------------------------------------------------------
LEMMA TypeInit == Init => TypeOK
BY NumIDsAssumption, BoundAssumption
DEF Init, TypeOK, IDs, NoID, Sessions, NoSession, Datagrams

LEMMA OpenedIsSession == \A u \in Users : Opened(u) \in Sessions
BY DEF Opened, Sessions

(* Closing a session keeps its user.                                        *)
LEMMA CloseSession ==
    ASSUME NEW f \in [IDs -> Sessions \union {NoSession}], NEW i \in IDs,
           f[i].stat = "open"
    PROVE  /\ [f EXCEPT ![i].stat = "closed"] \in [IDs -> Sessions \union {NoSession}]
           /\ \A j \in IDs :
                /\ [f EXCEPT ![i].stat = "closed"][j].user = f[j].user
                /\ [f EXCEPT ![i].stat = "closed"][j].stat = "none" <=> f[j].stat = "none"
<1>1. f[i] \in Sessions
  BY DEF NoSession
<1>2. [f[i] EXCEPT !.stat = "closed"] = [user |-> f[i].user, stat |-> "closed"]
  BY <1>1 DEF Sessions
<1>3. [user |-> f[i].user, stat |-> "closed"] \in Sessions
  BY <1>1 DEF Sessions
<1> DEFINE g == [f EXCEPT ![i].stat = "closed"]
<1>4. g = [f EXCEPT ![i] = [user |-> f[i].user, stat |-> "closed"]]
  BY <1>2
<1> HIDE DEF g
<1>5. g \in [IDs -> Sessions \union {NoSession}]
  BY <1>3, <1>4
<1>6. \A j \in IDs : g[j].user = f[j].user /\ (g[j].stat = "none" <=> f[j].stat = "none")
  <2> TAKE j \in IDs
  <2>1. CASE j = i
    BY <1>4, <2>1
  <2>2. CASE j # i
    BY <1>4, <2>2
  <2> QED
    BY <2>1, <2>2
<1> QED
  BY <1>5, <1>6 DEF g

(* Every step keeps the types.                                              *)
LEMMA TypeNext == IInv /\ [Next]_vars => TypeOK'
<1> SUFFICES ASSUME IInv, [Next]_vars PROVE TypeOK'
  OBVIOUS
<1> USE NumIDsAssumption, BoundAssumption DEF IInv, TypeOK
<1>0. NextID \in IDs
  BY DEF NextID, IDs
<1>1. ASSUME NEW r \in Readers, NEW u \in Users, Read(r, u) PROVE TypeOK'
  BY <1>1 DEF Read, maps
<1>2. ASSUME NEW r \in Readers, Forward(r) PROVE TypeOK'
  <2>1. clientAddrMap[reading[r]] \in IDs /\ reading[r] \in Users
    BY <1>2 DEF Forward, Known
  <2> QED
    BY <1>2, <2>1 DEF Forward, SendUp, maps, Datagrams
<1>3. ASSUME NEW r \in Readers, StartSearch(r) PROVE TypeOK'
  BY <1>3 DEF StartSearch, maps
<1>4. ASSUME NEW r \in Readers, Search(r) PROVE TypeOK'
  BY <1>0, <1>4 DEF Search, maps
<1>5. ASSUME NEW r \in Readers, Create(r) PROVE TypeOK'
  <2>1. reading[r] \in Users /\ uses < MaxUses
    BY <1>5 DEF Create, LockInv
  <2>2. uses' \in 0 .. MaxUses
    BY <1>5, <2>1 DEF Create
  <2>3. session' \in [IDs -> Sessions \union {NoSession}]
    BY <1>5, <2>1, OpenedIsSession DEF Create
  <2>4. up' \subseteq Datagrams /\ reading' \in [Readers -> Users \union {NoUser}]
    BY <1>5, <2>1 DEF Create, SendUp, Datagrams
  <2>5. /\ clientAddrMap' \in [Users -> IDs \union {NoID}]
        /\ clientSessionIDMap' \in [IDs -> Users \union {NoUser}]
        /\ clientSessionID' \in IDs
    BY <1>0, <1>5, <2>1 DEF Create
  <2> QED
    BY <1>5, <2>2, <2>3, <2>4, <2>5 DEF Create
<1>6. ASSUME NEW m \in up, ServerReceives(m) PROVE TypeOK'
  <2>1. m.id \in IDs /\ Opened(m.user) \in Sessions
    BY OpenedIsSession DEF Datagrams
  <2> QED
    BY <1>6, <2>1 DEF ServerReceives, maps
<1>7. ASSUME NEW m \in down, ClientReceives(m) PROVE TypeOK'
  <2>1. m.id \in IDs
    BY DEF Datagrams
  <2>2. session' \in [IDs -> Sessions \union {NoSession}]
    BY <1>7, <2>1, CloseSession DEF ClientReceives
  <2> QED
    BY <1>7, <2>2 DEF ClientReceives
<1>8. ASSUME NEW m, Lose(m) PROVE TypeOK'
  BY <1>8 DEF Lose, maps
<1>9. ASSUME NEW id \in IDs, Reply(id) PROVE TypeOK'
  <2>1. serverSession[id].user \in Users
    BY <1>9 DEF Reply, Sessions, NoSession
  <2> QED
    BY <1>9, <2>1 DEF Reply, maps, Datagrams
<1>10. ASSUME NEW id \in IDs, ClientCloses(id) PROVE TypeOK'
  <2>1. session' \in [IDs -> Sessions \union {NoSession}]
    BY <1>10, CloseSession DEF ClientCloses
  <2> QED
    BY <1>10, <2>1 DEF ClientCloses
<1>11. ASSUME NEW id \in IDs, ClientForgets(id) PROVE TypeOK'
  BY <1>11 DEF ClientForgets
<1>12. ASSUME NEW id \in IDs, ServerCloses(id) PROVE TypeOK'
  <2>1. serverSession' \in [IDs -> Sessions \union {NoSession}]
    BY <1>12, CloseSession DEF ServerCloses
  <2> QED
    BY <1>12, <2>1 DEF ServerCloses, maps
<1>13. ASSUME NEW id \in IDs, ServerForgets(id) PROVE TypeOK'
  BY <1>13 DEF ServerForgets, maps
<1>14. CASE UNCHANGED vars
  BY <1>14 DEF vars, maps
<1>15. ASSUME NEW m, ServerReceives(m) PROVE m \in up
  BY <1>15 DEF ServerReceives
<1>16. ASSUME NEW m, ClientReceives(m) PROVE m \in down
  BY <1>16 DEF ClientReceives
<1> QED
  BY <1>1, <1>2, <1>3, <1>4, <1>5, <1>6, <1>7, <1>8, <1>9, <1>10, <1>11, <1>12,
     <1>13, <1>14, <1>15, <1>16 DEF Next

-----------------------------------------------------------------------------
(* Steps that touch neither the maps nor the sessions' users.               *)
LEMMA MapsKept ==
    ASSUME IInv, UNCHANGED <<clientAddrMap, clientSessionIDMap>>,
           \A i \in IDs :
             /\ session'[i].user = session[i].user
             /\ session'[i].stat = "none" <=> session[i].stat = "none"
    PROVE  MapsAgree'
BY DEF IInv, MapsAgree

(* A user without an id of its own is in no map: what Create relies on.     *)
LEMMA NoIDMeansUnmapped ==
    ASSUME IInv, NEW u \in Users, clientAddrMap[u] = NoID
    PROVE  \A i \in IDs : clientSessionIDMap[i] # u
<1>1. NoID \notin IDs
  BY NumIDsAssumption DEF NoID, IDs
<1>2. \A i \in IDs : clientAddrMap[u] = i <=> clientSessionIDMap[i] = u
  BY DEF IInv, MapsAgree
<1> QED
  BY <1>1, <1>2

LEMMA UnknownMeansNoID ==
    ASSUME IInv, NEW u \in Users, ~Known(u)
    PROVE  clientAddrMap[u] = NoID
<1>1. SUFFICES ASSUME clientAddrMap[u] # NoID PROVE FALSE
  OBVIOUS
<1>2. clientAddrMap[u] \in IDs
  BY <1>1 DEF IInv, TypeOK
<1>3. clientSessionIDMap[clientAddrMap[u]] = u
  BY <1>2 DEF IInv, MapsAgree
<1>4. session[clientAddrMap[u]].stat # "none"
  BY <1>2, <1>3, NoUserAssumption DEF IInv, MapsAgree
<1> QED
  BY <1>1, <1>4 DEF Known

LEMMA MapsNext == IInv /\ [Next]_vars => MapsAgree'
<1> SUFFICES ASSUME IInv, [Next]_vars PROVE MapsAgree'
  OBVIOUS
<1> USE DEF IInv, TypeOK
<1>1. ASSUME UNCHANGED maps PROVE MapsAgree'
  BY <1>1, MapsKept DEF maps
<1>2. ASSUME NEW r \in Readers, Create(r) PROVE MapsAgree'
  <2> DEFINE u == reading[r]
             k == clientSessionID
  <2>1. u \in Users /\ clientAddrMap[u] = NoID /\ k \in IDs
    BY <1>2 DEF Create, LockInv
  <2>2. \A i \in IDs : clientSessionIDMap[i] # u
    BY <2>1, NoIDMeansUnmapped
  <2>3. \A v \in Users : clientAddrMap[v] # k
    BY <1>2, <2>1, NoUserAssumption DEF Create, MapsAgree
  <2>4. /\ clientAddrMap' = [clientAddrMap EXCEPT ![u] = k]
        /\ clientSessionIDMap' = [clientSessionIDMap EXCEPT ![k] = u]
        /\ session' = [session EXCEPT ![k] = Opened(u)]
    BY <1>2 DEF Create
  <2>5. \A v \in Users, i \in IDs :
           clientAddrMap'[v] = i <=> clientSessionIDMap'[i] = v
    <3> TAKE v \in Users, i \in IDs
    <3>1. CASE v = u /\ i = k
      BY <2>1, <2>4, <3>1
    <3>2. CASE v = u /\ i # k
      BY <2>1, <2>2, <2>4, <3>2
    <3>3. CASE v # u /\ i = k
      BY <2>1, <2>3, <2>4, <3>3
    <3>4. CASE v # u /\ i # k
      BY <2>1, <2>4, <3>4 DEF MapsAgree
    <3> QED
      BY <3>1, <3>2, <3>3, <3>4
  <2>6. \A i \in IDs :
           /\ session'[i].stat = "none" <=> clientSessionIDMap'[i] = NoUser
           /\ session'[i].stat # "none" => session'[i].user = clientSessionIDMap'[i]
    <3> TAKE i \in IDs
    <3>1. CASE i = k
      BY <2>1, <2>4, <3>1, NoUserAssumption DEF Opened
    <3>2. CASE i # k
      BY <2>1, <2>4, <3>2 DEF MapsAgree
    <3> QED
      BY <3>1, <3>2
  <2> QED
    BY <2>5, <2>6 DEF MapsAgree
<1>3. ASSUME NEW m \in down, ClientReceives(m) PROVE MapsAgree'
  <2>1. m.id \in IDs
    BY DEF Datagrams
  <2>2. CASE UNCHANGED session
    BY <1>3, <2>2, MapsKept DEF ClientReceives
  <2>3. CASE session[m.id].stat = "open"
             /\ session' = [session EXCEPT ![m.id].stat = "closed"]
    BY <1>3, <2>1, <2>3, CloseSession, MapsKept DEF ClientReceives
  <2> QED
    BY <1>3, <2>2, <2>3 DEF ClientReceives
<1>4. ASSUME NEW id \in IDs, ClientCloses(id) PROVE MapsAgree'
  BY <1>4, CloseSession, MapsKept DEF ClientCloses
<1>5. ASSUME NEW id \in IDs, ClientForgets(id) PROVE MapsAgree'
  <2>1. clientSessionIDMap[id] \in Users
    BY <1>5 DEF ClientForgets, MapsAgree
  <2>2. clientAddrMap' = [clientAddrMap EXCEPT ![clientSessionIDMap[id]] = NoID]
    BY <1>5, <2>1 DEF ClientForgets, MapsAgree
  <2>3. /\ clientSessionIDMap' = [clientSessionIDMap EXCEPT ![id] = NoUser]
        /\ session' = [session EXCEPT ![id] = NoSession]
    BY <1>5 DEF ClientForgets
  <2>4. NoID \notin IDs
    BY NumIDsAssumption DEF NoID, IDs
  <2>5. \A v \in Users, i \in IDs :
           clientAddrMap'[v] = i <=> clientSessionIDMap'[i] = v
    <3> TAKE v \in Users, i \in IDs
    <3>1. CASE v = clientSessionIDMap[id]
      BY <2>1, <2>2, <2>3, <2>4, <3>1, NoUserAssumption DEF MapsAgree
    <3>2. CASE v # clientSessionIDMap[id]
      BY <2>1, <2>2, <2>3, <3>2, NoUserAssumption DEF MapsAgree
    <3> QED
      BY <3>1, <3>2
  <2>6. \A i \in IDs :
           /\ session'[i].stat = "none" <=> clientSessionIDMap'[i] = NoUser
           /\ session'[i].stat # "none" => session'[i].user = clientSessionIDMap'[i]
    BY <2>3 DEF MapsAgree, NoSession
  <2> QED
    BY <2>5, <2>6 DEF MapsAgree
<1>6. ASSUME NEW r \in Readers,
             \/ \E u \in Users : Read(r, u)
             \/ Forward(r) \/ StartSearch(r) \/ Search(r)
      PROVE MapsAgree'
  BY <1>1, <1>6 DEF Read, Forward, StartSearch, Search
<1>7. ASSUME NEW m, ServerReceives(m) \/ Lose(m) PROVE MapsAgree'
  BY <1>1, <1>7 DEF ServerReceives, Lose
<1>8. ASSUME NEW id \in IDs, Reply(id) \/ ServerCloses(id) \/ ServerForgets(id)
      PROVE MapsAgree'
  BY <1>1, <1>8 DEF Reply, ServerCloses, ServerForgets
<1>9. CASE UNCHANGED vars
  BY <1>1, <1>9 DEF vars
<1>10. ASSUME NEW m, ClientReceives(m) PROVE m \in down
  BY <1>10 DEF ClientReceives
<1> QED
  BY <1>2, <1>3, <1>4, <1>5, <1>6, <1>7, <1>8, <1>9, <1>10 DEF Next

LEMMA LockNext == IInv /\ [Next]_vars => LockInv'
<1> SUFFICES ASSUME IInv, [Next]_vars PROVE LockInv'
  OBVIOUS
<1> USE DEF IInv, TypeOK
<1>1. ASSUME UNCHANGED <<clientAddrMap, reading, sessionLock, uses>> PROVE LockInv'
  BY <1>1 DEF LockInv
<1>2. ASSUME sessionLock' = "free" PROVE LockInv'
  BY <1>2, ReadersAssumption DEF LockInv
<1>3. ASSUME NEW r \in Readers, NEW u \in Users, Read(r, u) PROVE LockInv'
  BY <1>3 DEF Read, maps, LockInv
<1>4. ASSUME NEW r \in Readers, StartSearch(r) PROVE LockInv'
  <2>1. reading[r] \in Users
    BY <1>4 DEF StartSearch
  <2> QED
    BY <1>4, <2>1, UnknownMeansNoID DEF StartSearch, maps, LockInv
<1>5. ASSUME NEW r \in Readers, Forward(r) \/ Create(r) PROVE LockInv'
  BY <1>2, <1>5 DEF Forward, Create
<1>6. ASSUME NEW r \in Readers, Search(r) PROVE LockInv'
  BY <1>1, <1>6 DEF Search, maps
<1>7. ASSUME NEW m, ServerReceives(m) \/ Lose(m) PROVE LockInv'
  BY <1>1, <1>7 DEF ServerReceives, Lose, maps
<1>8. ASSUME NEW m, ClientReceives(m) PROVE LockInv'
  BY <1>2, <1>8 DEF ClientReceives
<1>9. ASSUME NEW id \in IDs, ClientCloses(id) \/ ClientForgets(id) PROVE LockInv'
  BY <1>2, <1>9 DEF ClientCloses, ClientForgets
<1>10. ASSUME NEW id \in IDs, Reply(id) \/ ServerCloses(id) \/ ServerForgets(id)
       PROVE LockInv'
  BY <1>1, <1>10 DEF Reply, ServerCloses, ServerForgets, maps
<1>11. CASE UNCHANGED vars
  BY <1>1, <1>11 DEF vars, maps
<1> QED
  BY <1>3, <1>4, <1>5, <1>6, <1>7, <1>8, <1>9, <1>10, <1>11 DEF Next

LEMMA InitInv == Init => IInv
<1> SUFFICES ASSUME Init PROVE IInv
  OBVIOUS
<1>1. NoID \notin IDs
  BY NumIDsAssumption DEF NoID, IDs
<1>2. MapsAgree
  BY <1>1, NoUserAssumption DEF Init, MapsAgree, NoSession
<1>3. LockInv
  BY ReadersAssumption DEF Init, LockInv
<1> QED
  BY <1>2, <1>3, TypeInit DEF IInv

\* The invariant holds in every reachable state (RecvUserClientDataProc, checkSessionProc).
THEOREM Inductive == Spec => []IInv
<1>1. IInv /\ [Next]_vars => IInv'
  BY TypeNext, MapsNext, LockNext DEF IInv
<1> QED
  BY <1>1, InitInv, PTL DEF Spec

(* The types of the sessions' state.                                        *)
THEOREM TypeCorrect == Spec => []TypeOK
<1>1. IInv => TypeOK
  BY DEF IInv
<1> QED
  BY <1>1, Inductive, PTL

(* The client's maps agree whatever readers, timeouts and closed sessions   *)
(* do, ids handed out again included (RecvUserClientDataProc,               *)
(* checkSessionProc).                                                       *)
THEOREM MapsAlwaysAgree == Spec => []MapsAgree
<1>1. IInv => MapsAgree
  BY DEF IInv
<1> QED
  BY <1>1, Inductive, PTL

-----------------------------------------------------------------------------
(* Until an id is handed out for the second time, everything anywhere that  *)
(* carries an id belongs to the same user.                                  *)

\* Something belongs to the user u under the id i.
Claim(i, u) ==
    \/ [id |-> i, user |-> u] \in up \union down
    \/ serverSession[i].stat # "none" /\ serverSession[i].user = u
    \/ clientSessionIDMap[i] = u

OneOwner ==
    uses <= NumIDs =>
        /\ uses < NumIDs => clientSessionID = uses
        /\ \A i \in IDs, u \in Users : Claim(i, u) => i < uses
        /\ \A i \in IDs, u, v \in Users : Claim(i, u) /\ Claim(i, v) => u = v

LEMMA OwnerInit == Init => OneOwner
<1> SUFFICES ASSUME Init PROVE OneOwner
  OBVIOUS
<1>1. \A i \in IDs, u \in Users : ~Claim(i, u)
  BY NoUserAssumption DEF Init, Claim, NoSession
<1>2. clientSessionID = uses
  BY DEF Init
<1> QED
  BY <1>1, <1>2 DEF OneOwner

(* A step that hands out no id and makes no new claim.                      *)
LEMMA NoNewClaim ==
    ASSUME OneOwner, UNCHANGED <<clientSessionID, uses>>,
           \A i \in IDs, u \in Users : Claim(i, u)' => Claim(i, u)
    PROVE  OneOwner'
BY DEF OneOwner

LEMMA OwnerCreate ==
    ASSUME IInv, OneOwner, NEW r \in Readers, Create(r)
    PROVE  OneOwner'
<1> SUFFICES ASSUME uses' <= NumIDs PROVE OneOwner'
  BY DEF OneOwner
<1> DEFINE w == reading[r]
           k == clientSessionID
<1>0. uses \in Nat /\ uses' = uses + 1 /\ uses < NumIDs
  BY NumIDsAssumption DEF Create, IInv, TypeOK
<1>1. w \in Users /\ k \in IDs /\ k = uses
  BY <1>0, NumIDsAssumption DEF Create, IInv, TypeOK, LockInv, OneOwner
<1>2. uses' < NumIDs => clientSessionID' = uses'
  BY <1>0, <1>1, NumIDsAssumption DEF Create, NextID
<1>3. clientSessionIDMap' = [clientSessionIDMap EXCEPT ![k] = w]
  BY DEF Create
<1>4. ASSUME NEW i \in IDs, NEW u \in Users, Claim(i, u)'
      PROVE  Claim(i, u) \/ (i = k /\ u = w)
  <2>1. CASE ([id |-> i, user |-> u] \in up \union down)'
    <3>1. up' = up \union {[id |-> k, user |-> w]} /\ down' = down
      BY DEF Create, SendUp
    <3>2. [id |-> i, user |-> u] = [id |-> k, user |-> w] => i = k /\ u = w
      OBVIOUS
    <3> QED
      BY <2>1, <3>1, <3>2 DEF Claim
  <2>2. CASE (serverSession[i].stat # "none" /\ serverSession[i].user = u)'
    BY <2>2 DEF Create, Claim
  <2>3. CASE (clientSessionIDMap[i] = u)'
    BY <1>1, <1>3, <2>3 DEF Claim, IInv, TypeOK
  <2> QED
    BY <1>4, <2>1, <2>2, <2>3 DEF Claim
<1>5. \A u \in Users : ~Claim(k, u)
  BY <1>0, <1>1, NumIDsAssumption DEF OneOwner
<1>6. ASSUME NEW i \in IDs, NEW u \in Users, Claim(i, u)' PROVE i < uses'
  <2>1. i < uses \/ i = uses
    BY <1>0, <1>1, <1>4, <1>6, NumIDsAssumption DEF OneOwner
  <2> QED
    BY <1>0, <2>1 DEF IDs
<1>7. ASSUME NEW i \in IDs, NEW u \in Users, NEW v \in Users, Claim(i, u)', Claim(i, v)'
      PROVE  u = v
  BY <1>0, <1>4, <1>5, <1>7, NumIDsAssumption DEF OneOwner
<1> QED
  BY <1>2, <1>6, <1>7 DEF OneOwner

LEMMA OwnerNext == IInv /\ OneOwner /\ [Next]_vars => OneOwner'
<1> SUFFICES ASSUME IInv, OneOwner, [Next]_vars PROVE OneOwner'
  OBVIOUS
<1>1. ASSUME UNCHANGED <<clientSessionIDMap, clientSessionID, uses, serverSession>>,
             up' \subseteq up, down' \subseteq down
      PROVE  OneOwner'
  <2>1. \A i \in IDs, u \in Users : Claim(i, u)' => Claim(i, u)
    BY <1>1 DEF Claim
  <2> QED
    BY <1>1, <2>1, NoNewClaim
<1>2. ASSUME NEW r \in Readers, NEW u \in Users, Read(r, u) PROVE OneOwner'
  BY <1>1, <1>2 DEF Read, maps
<1>3. ASSUME NEW r \in Readers, Forward(r) PROVE OneOwner'
  <2> DEFINE w == reading[r]
             k == clientAddrMap[w]
  <2>1. w \in Users /\ k \in IDs
    BY <1>3 DEF Forward, Known, IInv, TypeOK
  <2>2. clientSessionIDMap[k] = w
    BY <2>1 DEF IInv, MapsAgree
  <2>3. up' = up \union {[id |-> k, user |-> w]} /\ down' = down
    BY <1>3 DEF Forward, SendUp
  <2>4. UNCHANGED <<clientSessionIDMap, clientSessionID, uses, serverSession>>
    BY <1>3 DEF Forward, maps
  <2>5. \A i \in IDs, u \in Users : [id |-> i, user |-> u] = [id |-> k, user |-> w]
           => i = k /\ u = w
    OBVIOUS
  <2>6. \A i \in IDs, u \in Users : Claim(i, u)' => Claim(i, u)
    BY <2>2, <2>3, <2>4, <2>5 DEF Claim
  <2> QED
    BY <2>4, <2>6, NoNewClaim
<1>4. ASSUME NEW r \in Readers, StartSearch(r) PROVE OneOwner'
  BY <1>1, <1>4 DEF StartSearch, maps
<1>5. ASSUME NEW r \in Readers, Search(r) PROVE OneOwner'
  <2>1. clientSessionID \in IDs /\ clientSessionIDMap[clientSessionID] \in Users
    BY <1>5 DEF Search, IInv, TypeOK
  <2>2. Claim(clientSessionID, clientSessionIDMap[clientSessionID])
    BY DEF Claim
  <2>3. uses \in Nat
    BY BoundAssumption DEF IInv, TypeOK
  \* The first ids are free when their turn comes.
  <2>4. ~(uses < NumIDs)
    BY <2>1, <2>2, <2>3, NumIDsAssumption DEF OneOwner
  <2>5. UNCHANGED <<clientSessionIDMap, up, down, uses, serverSession>>
    BY <1>5 DEF Search, maps
  <2>6. \A i \in IDs, u \in Users : Claim(i, u)' => Claim(i, u)
    BY <2>5 DEF Claim
  <2> QED
    BY <2>4, <2>5, <2>6 DEF OneOwner
<1>6. ASSUME NEW m \in up, ServerReceives(m) PROVE OneOwner'
  <2>1. m.id \in IDs /\ m.user \in Users /\ m = [id |-> m.id, user |-> m.user]
    BY DEF IInv, TypeOK, Datagrams
  <2>2. Claim(m.id, m.user)
    BY <2>1 DEF Claim
  <2>3. /\ UNCHANGED <<clientSessionIDMap, clientSessionID, uses, down>>
        /\ up' \subseteq up
    BY <1>6 DEF ServerReceives, maps
  <2>4. \A i \in IDs, u \in Users :
          (serverSession[i].stat # "none" /\ serverSession[i].user = u)' => Claim(i, u)
    BY <1>6, <2>1, <2>2 DEF ServerReceives, Claim, Opened, IInv, TypeOK
  <2>5. \A i \in IDs, u \in Users : Claim(i, u)' => Claim(i, u)
    BY <2>3, <2>4 DEF Claim
  <2> QED
    BY <2>3, <2>5, NoNewClaim
<1>7. ASSUME NEW m \in down, ClientReceives(m) PROVE OneOwner'
  BY <1>1, <1>7 DEF ClientReceives
<1>8. ASSUME NEW m, Lose(m) PROVE OneOwner'
  BY <1>1, <1>8 DEF Lose, maps
<1>9. ASSUME NEW id \in IDs, Reply(id) PROVE OneOwner'
  <2> DEFINE w == serverSession[id].user
  <2>1. down' = down \union {[id |-> id, user |-> w]} /\ up' = up
    BY <1>9 DEF Reply
  <2>2. UNCHANGED <<clientSessionIDMap, clientSessionID, uses, serverSession>>
    BY <1>9 DEF Reply, maps
  <2>3. \A i \in IDs, u \in Users : [id |-> i, user |-> u] = [id |-> id, user |-> w]
           => i = id /\ u = w
    OBVIOUS
  <2>4. serverSession[id].stat # "none"
    BY <1>9 DEF Reply
  <2>5. \A i \in IDs, u \in Users : Claim(i, u)' => Claim(i, u)
    BY <2>1, <2>2, <2>3, <2>4 DEF Claim
  <2> QED
    BY <2>2, <2>5, NoNewClaim
<1>10. ASSUME NEW id \in IDs, ClientCloses(id) PROVE OneOwner'
  BY <1>1, <1>10 DEF ClientCloses
<1>11. ASSUME NEW id \in IDs, ClientForgets(id) PROVE OneOwner'
  <2>1. \A i \in IDs, u \in Users : clientSessionIDMap'[i] = u => clientSessionIDMap[i] = u
    BY <1>11, NoUserAssumption DEF ClientForgets, IInv, TypeOK
  <2>2. UNCHANGED <<up, down, clientSessionID, uses, serverSession>>
    BY <1>11 DEF ClientForgets
  <2>3. \A i \in IDs, u \in Users : Claim(i, u)' => Claim(i, u)
    BY <2>1, <2>2 DEF Claim
  <2> QED
    BY <2>2, <2>3, NoNewClaim
<1>12. ASSUME NEW id \in IDs, ServerCloses(id) \/ ServerForgets(id) PROVE OneOwner'
  <2>1. \A i \in IDs : serverSession'[i].stat # "none"
           => serverSession[i].stat # "none" /\ serverSession'[i].user = serverSession[i].user
    <3>1. CASE ServerCloses(id)
      BY <3>1, CloseSession DEF ServerCloses, IInv, TypeOK
    <3>2. CASE ServerForgets(id)
      BY <3>2 DEF ServerForgets, NoSession, IInv, TypeOK
    <3> QED
      BY <1>12, <3>1, <3>2
  <2>2. UNCHANGED <<clientSessionIDMap, up, down, clientSessionID, uses>>
    BY <1>12 DEF ServerCloses, ServerForgets, maps
  <2>3. \A i \in IDs, u \in Users : Claim(i, u)' => Claim(i, u)
    BY <2>1, <2>2 DEF Claim
  <2> QED
    BY <2>2, <2>3, NoNewClaim
<1>13. CASE UNCHANGED vars
  BY <1>1, <1>13 DEF vars, maps
<1>14. ASSUME NEW m, ServerReceives(m) PROVE m \in up
  BY <1>14 DEF ServerReceives
<1>15. ASSUME NEW m, ClientReceives(m) PROVE m \in down
  BY <1>15 DEF ClientReceives
<1> QED
  BY <1>2, <1>3, <1>4, <1>5, <1>6, <1>7, <1>8, <1>9, <1>10, <1>11, <1>12, <1>13, <1>14,
     <1>15, OwnerCreate DEF Next

(* Until an id is handed out for the second time, no user gets the          *)
(* datagrams of another, whatever is lost or reordered and whichever        *)
(* sessions time out (RecvUserClientDataProc, recvPacketProc).              *)
THEOREM UsersKeptApart == Spec => []NoCrossTalk
<1>1. IInv /\ OneOwner /\ [Next]_vars => OneOwner'
  BY OwnerNext
<1>2. IInv /\ OneOwner => NoCrossTalk
  <2> SUFFICES ASSUME IInv, OneOwner, uses <= NumIDs PROVE NoCrossTalk
    BY DEF NoCrossTalk
  <2>1. ASSUME NEW m \in up \union down
        PROVE  m.id \in IDs /\ m.user \in Users /\ Claim(m.id, m.user)
    <3>1. m \in Datagrams
      BY DEF IInv, TypeOK
    <3>2. m = [id |-> m.id, user |-> m.user]
      BY <3>1 DEF Datagrams
    <3> QED
      BY <3>1, <3>2 DEF Datagrams, Claim
  <2>2. ASSUME NEW m \in down, session[m.id].stat # "none"
        PROVE  session[m.id].user = m.user
    <3>1. /\ session[m.id].user = clientSessionIDMap[m.id]
          /\ clientSessionIDMap[m.id] \in Users
      BY <2>1, <2>2 DEF IInv, MapsAgree, TypeOK
    <3>2. Claim(m.id, clientSessionIDMap[m.id])
      BY DEF Claim
    <3> QED
      BY <2>1, <3>1, <3>2 DEF OneOwner
  <2>3. ASSUME NEW m \in up, serverSession[m.id].stat # "none"
        PROVE  serverSession[m.id].user = m.user
    <3>1. serverSession[m.id].user \in Users
      BY <2>1, <2>3 DEF IInv, TypeOK, Sessions, NoSession
    <3>2. Claim(m.id, serverSession[m.id].user)
      BY <2>3 DEF Claim
    <3> QED
      BY <2>1, <3>1, <3>2 DEF OneOwner
  <2> QED
    BY <2>2, <2>3 DEF NoCrossTalk
<1> QED
  BY <1>1, <1>2, Inductive, OwnerInit, PTL DEF Spec
=============================================================================

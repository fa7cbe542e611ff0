--------------------------- MODULE WebConsoleProofs ---------------------------
(***************************************************************************)
(* Theorems about Registry and WebConsole, for any number of requests at   *)
(* once, any ids, instances, files and situations: first the registry, then*)
(* the file, the lists of the page, types, and the quick configuration     *)
(* link. Each part adds an invariant to those before it.                   *)
(***************************************************************************)
EXTENDS WebConsole, FiniteSetTheorems, TLAPS

Idle == {"none", "sent", "ok", "failed"}
Busy == {"made", "found", "closed", "removed"}
Reading == {"clients", "servers", "open"}

IsCall(c) ==
    /\ c = [op |-> c.op, kind |-> c.kind, id |-> c.id, data |-> c.data, stage |-> c.stage,
            inst |-> c.inst, got |-> c.got, earlier |-> c.earlier, late |-> c.late]
    /\ c.kind \in Kinds /\ c.late \in BOOLEAN

Shape ==
    /\ calls = [s \in Slots |-> calls[s]]
    /\ \A s \in Slots : IsCall(calls[s])
    /\ relayMap = [k \in Kinds |-> relayMap[k]]
    /\ running \in [Kinds -> SUBSET Nat]
    /\ contended \in [Kinds -> BOOLEAN]
    /\ up \in BOOLEAN
    /\ born \in Nat

(* No request is under way in a program that does not run.                  *)
DownIdle == ~up => \A s \in Slots : calls[s].stage \in Idle

(* Instances are numbered in the order in which they were made.             *)
Numbered ==
    /\ \A s \in Slots : /\ calls[s].inst \in 0..born
                        /\ calls[s].stage \in Busy => calls[s].inst # 0
    /\ \A k \in Kinds : running[k] \union Registered(k) \subseteq 1..born

Injective == \A k \in Kinds : \A i, j \in DOMAIN relayMap[k] :
                 relayMap[k][i] = relayMap[k][j] => i = j

At2(s, op, stage, k) == calls[s].op = op /\ calls[s].stage = stage /\ calls[s].kind = k

(* An instance that was made and is not in the map yet is known to nobody   *)
(* else, and nor is its id unless two requests chose it.                    *)
MadeInv ==
    \A s \in Slots, k \in Kinds : At2(s, "create", "made", k) =>
        /\ calls[s].inst \notin Registered(k)
        /\ \A t \in Slots \ {s} : At2(t, "create", "made", k) => calls[t].inst # calls[s].inst
        /\ ~contended[k] =>
               /\ calls[s].id \notin DOMAIN relayMap[k]
               /\ \A t \in Slots \ {s} : At2(t, "create", "made", k) => calls[t].id # calls[s].id

Maps(s, k) == calls[s].id \in DOMAIN relayMap[k] /\ relayMap[k][calls[s].id] = calls[s].inst

(* A deletion that found a server finds it in the map as long as it runs;   *)
(* the one that closed it still has to take it out.                         *)
ServerInv ==
    ~contended["server"] =>
        \A s \in Slots :
            /\ At2(s, "delete", "found", "server") =>
                   (calls[s].inst \in running["server"] => Maps(s, "server"))
            /\ At2(s, "delete", "closed", "server") =>
                   /\ Maps(s, "server")
                   /\ calls[s].inst \notin running["server"]
                   /\ \A t \in Slots \ {s} : At2(t, "delete", "closed", "server") =>
                          calls[t].inst # calls[s].inst

(* A client that a deletion found is in the map, and one that was taken out *)
(* is known to that deletion alone.                                         *)
ClientInv ==
    ~contended["client"] =>
        \A s \in Slots :
            /\ At2(s, "delete", "found", "client") =>
                   /\ Maps(s, "client")
                   /\ \A t \in Slots \ {s} : At2(t, "delete", "found", "client") =>
                          calls[t].inst # calls[s].inst
            /\ At2(s, "delete", "removed", "client") =>
                   /\ calls[s].inst \notin Registered("client")
                   /\ \A t \in Slots \ {s} :
                          \/ At2(t, "delete", "removed", "client")
                          \/ At2(t, "create", "made", "client")
                          => calls[t].inst # calls[s].inst

(* A server is not taken out before it is closed, nor a client closed first.*)
StagesInv ==
    \A s \in Slots :
        /\ ~At2(s, "delete", "removed", "server")
        /\ ~At2(s, "delete", "closed", "client")

(* A client that was half made is in no map and in no handler's hands.      *)
HalfInv ==
    /\ halfMade \subseteq 1..born
    /\ halfMade \intersect Registered("client") = {}
    /\ \A s \in Slots : calls[s].kind = "client" /\ calls[s].stage \in Busy =>
           calls[s].inst \notin halfMade

EntriesOK(es) ==
    /\ \A id \in DOMAIN es : es[id].inst \in 1..born
    /\ \A i, j \in DOMAIN es : es[i].inst = es[j].inst => i = j

(* A file names an instance once, and so does what will be written.         *)
FileInv ==
    /\ \A k \in Kinds : EntriesOK(file[k])
    /\ \A s \in Slots : calls[s].op = "save" /\ calls[s].stage \in Reading =>
           LET got == calls[s].got
           IN /\ got = [client |-> got.client, server |-> got.server, before |-> got.before]
              /\ EntriesOK(got.client) /\ EntriesOK(got.server)

MapInv == Shape /\ DownIdle /\ Numbered /\ Injective /\ MadeInv /\ ServerInv /\ ClientInv
          /\ StagesInv /\ HalfInv /\ RegistryMatchesRunning
IInv == MapInv /\ FileInv

-----------------------------------------------------------------------------
(* Steps that make no client by halves and bring none into hands.           *)
LEMMA HalfKept ==
    ASSUME HalfInv, UNCHANGED halfMade, born \in Nat, born' \in Nat, born <= born',
           \A i \in Registered("client")' :
               \/ i \in Registered("client")
               \/ \E t \in Slots : /\ calls[t].kind = "client" /\ calls[t].stage \in Busy
                                   /\ i = calls[t].inst,
           \A t \in Slots : calls'[t].kind = "client" /\ calls'[t].stage \in Busy =>
               \/ calls'[t].inst > born
               \/ calls'[t].inst \in Registered("client")
               \/ /\ calls[t].kind = "client" /\ calls[t].stage \in Busy
                  /\ calls'[t].inst = calls[t].inst
    PROVE  HalfInv'
<1>1. halfMade' \subseteq 1..born'
  BY DEF HalfInv
<1>2. ASSUME NEW i \in halfMade PROVE i \notin Registered("client")'
  BY DEF HalfInv
<1>3. ASSUME NEW t \in Slots, calls'[t].kind = "client", calls'[t].stage \in Busy
      PROVE  calls'[t].inst \notin halfMade
  <2>1. CASE calls'[t].inst > born
    <3>1. \A i \in halfMade : i \in 1..born
      BY DEF HalfInv
    <3> QED
      BY <2>1, <3>1
  <2>2. CASE calls'[t].inst \in Registered("client")
    BY <2>2 DEF HalfInv
  <2>3. CASE /\ calls[t].kind = "client" /\ calls[t].stage \in Busy
             /\ calls'[t].inst = calls[t].inst
    BY <2>3 DEF HalfInv
  <2> QED
    BY <1>3, <2>1, <2>2, <2>3
<1> QED
  BY <1>1, <1>2, <1>3 DEF HalfInv

-----------------------------------------------------------------------------
(* Steps that leave the requests that create and delete instances alone.    *)

Same(s) ==
    /\ calls'[s].op = calls[s].op /\ calls'[s].kind = calls[s].kind
    /\ calls'[s].id = calls[s].id /\ calls'[s].stage = calls[s].stage
    /\ calls'[s].inst = calls[s].inst /\ calls'[s].got = calls[s].got

Aside(s) ==
    /\ calls[s].stage \notin Busy /\ calls'[s].stage \notin Busy
    /\ calls'[s].inst \in {0, calls[s].inst}
    /\ ~up => calls'[s].stage \in Idle

Passing ==
    /\ UNCHANGED <<up, relayMap, running, halfMade, born, contended>>
    /\ Shape'
    /\ \A s \in Slots : Same(s) \/ Aside(s)

(* Such a step keeps everything that is said of the map.                    *)
LEMMA PassingKeeps == MapInv /\ Passing => MapInv'
<1> SUFFICES ASSUME MapInv, Passing PROVE MapInv'
  OBVIOUS
<1>1. \A s \in Slots : calls[s].stage \in Busy \/ calls'[s].stage \in Busy =>
          /\ calls'[s].op = calls[s].op /\ calls'[s].kind = calls[s].kind
          /\ calls'[s].id = calls[s].id /\ calls'[s].stage = calls[s].stage
          /\ calls'[s].inst = calls[s].inst
  BY DEF Passing, Same, Aside
<1>2. \A k \in Kinds : Registered(k)' = Registered(k)
  BY DEF Passing, Registered
<1>3. Shape' /\ DownIdle'
  BY DEF MapInv, DownIdle, Passing, Same, Aside
<1>4. Numbered'
  BY <1>1 DEF MapInv, Numbered, Registered, Passing, Same, Aside, Shape
<1>5. Injective'
  BY DEF MapInv, Injective, Passing
<1>6. MadeInv'
  <2> SUFFICES ASSUME NEW s \in Slots, NEW k \in Kinds,
                      calls'[s].op = "create", calls'[s].stage = "made", calls'[s].kind = k
               PROVE  /\ calls'[s].inst \notin Registered(k)'
                      /\ \A t \in Slots \ {s} : At2(t, "create", "made", k)' =>
                             calls'[t].inst # calls'[s].inst
                      /\ ~contended'[k] =>
                             /\ calls'[s].id \notin DOMAIN relayMap'[k]
                             /\ \A t \in Slots \ {s} : At2(t, "create", "made", k)' =>
                                    calls'[t].id # calls'[s].id
    BY DEF MadeInv, At2
  <2> QED
    BY <1>1, <1>2 DEF MapInv, MadeInv, At2, Passing, Busy
<1>7. ServerInv'
  BY <1>1 DEF MapInv, ServerInv, At2, Maps, Passing, Busy, Kinds
<1>8. ClientInv'
  BY <1>1 DEF MapInv, ClientInv, At2, Maps, Registered, Passing, Busy, Kinds
<1>9. StagesInv'
  BY <1>1 DEF MapInv, StagesInv, At2, Busy
<1>10. ASSUME NEW k \in Kinds
       PROVE  /\ Held("create", "made", k)' = Held("create", "made", k)
              /\ Held("delete", "closed", k)' = Held("delete", "closed", k)
              /\ Held("delete", "removed", k)' = Held("delete", "removed", k)
  BY <1>1 DEF Held, Busy
<1>11. RegistryMatchesRunning'
  <2>1. \A k \in Kinds : HalfMade(k)' = HalfMade(k)
    BY DEF Passing, HalfMade
  <2> QED
    BY <1>2, <1>10, <2>1 DEF MapInv, RegistryMatchesRunning, Passing
<1>12. HalfInv'
  BY <1>1, <1>2, HalfKept DEF MapInv, Shape, Passing, Kinds
<1> QED
  BY <1>3, <1>4, <1>5, <1>6, <1>7, <1>8, <1>9, <1>11, <1>12 DEF MapInv

-----------------------------------------------------------------------------
(* What the steps of a handler make of its request.                         *)

Calls(s, id, stage, inst) ==
    /\ calls' = [t \in Slots |-> calls'[t]]
    /\ \A t \in Slots : IsCall(calls'[t])
    /\ \A t \in Slots \ {s} : calls'[t] = calls[t]
    /\ calls'[s].op = calls[s].op /\ calls'[s].kind = calls[s].kind
    /\ calls'[s].id = id /\ calls'[s].stage = stage /\ calls'[s].inst = inst
    /\ calls'[s].data = calls[s].data
    /\ calls'[s].earlier = calls[s].earlier /\ calls'[s].late = calls[s].late

(* A handler goes on: nothing of any request changes but its stage.         *)
LEMMA ToStage ==
    ASSUME Shape, NEW s \in Slots, NEW stage, Goto(s, stage)
    PROVE  Calls(s, calls[s].id, stage, calls[s].inst) /\ calls'[s].got = calls[s].got
BY DEF Shape, IsCall, Goto, Calls

(* Two fields are set, one after the other.                                 *)
LEMMA ToStageGot ==
    ASSUME Shape, NEW s \in Slots, NEW stage, NEW got,
           calls' = [calls EXCEPT ![s].stage = stage, ![s].got = got]
    PROVE  Calls(s, calls[s].id, stage, calls[s].inst) /\ calls'[s].got = got
<1> DEFINE d == [calls EXCEPT ![s].stage = stage]
           c == [op |-> calls[s].op, kind |-> calls[s].kind, id |-> calls[s].id, data |-> calls[s].data,
                    stage |-> stage, inst |-> calls[s].inst, got |-> got,
                    earlier |-> calls[s].earlier, late |-> calls[s].late]
<1>1. /\ d = [t \in Slots |-> d[t]] /\ \A t \in Slots \ {s} : d[t] = calls[t]
      /\ d[s] = [op |-> calls[s].op, kind |-> calls[s].kind, id |-> calls[s].id, data |-> calls[s].data,
                     stage |-> stage, inst |-> calls[s].inst, got |-> calls[s].got,
                     earlier |-> calls[s].earlier, late |-> calls[s].late]
  BY DEF Shape, IsCall
<1>2. calls' = [d EXCEPT ![s].got = got]
  OBVIOUS
<1> HIDE DEF d
<1>3. /\ calls' = [t \in Slots |-> calls'[t]] /\ \A t \in Slots \ {s} : calls'[t] = calls[t]
      /\ calls'[s] = c
  <2> DEFINE g == [d[s] EXCEPT !.got = got]
  <2>1. g = c
    BY <1>1, <1>2
  <2>2. calls' = [d EXCEPT ![s] = g]
    BY <1>1, <1>2
  <2> HIDE DEF g
  <2> QED
    BY <2>1, <2>2, <1>1, <1>2
<1>4. IsCall(c) /\ c.op = calls[s].op /\ c.kind = calls[s].kind /\ c.data = calls[s].data
  BY DEF Shape, IsCall
<1> QED
  BY <1>3, <1>4 DEF Calls, Shape

(* It answers.                                                              *)
LEMMA ToAnswer ==
    ASSUME Shape, NEW s \in Slots, NEW got, Answer(s, got)
    PROVE  Calls(s, calls[s].id, "ok", calls[s].inst) /\ calls'[s].got = got
BY ToStageGot DEF Answer

(* It finds the instance to delete.                                         *)
LEMMA ToFound ==
    ASSUME Shape, NEW s \in Slots, NEW inst,
           calls' = [calls EXCEPT ![s].stage = "found", ![s].inst = inst]
    PROVE  Calls(s, calls[s].id, "found", inst) /\ calls'[s].got = calls[s].got
<1> DEFINE d == [calls EXCEPT ![s].stage = "found"]
           c == [op |-> calls[s].op, kind |-> calls[s].kind, id |-> calls[s].id, data |-> calls[s].data,
                    stage |-> "found", inst |-> inst, got |-> calls[s].got,
                    earlier |-> calls[s].earlier, late |-> calls[s].late]
<1>1. /\ d = [t \in Slots |-> d[t]] /\ \A t \in Slots \ {s} : d[t] = calls[t]
      /\ d[s] = [op |-> calls[s].op, kind |-> calls[s].kind, id |-> calls[s].id, data |-> calls[s].data,
                     stage |-> "found", inst |-> calls[s].inst, got |-> calls[s].got,
                     earlier |-> calls[s].earlier, late |-> calls[s].late]
  BY DEF Shape, IsCall
<1>2. calls' = [d EXCEPT ![s].inst = inst]
  OBVIOUS
<1> HIDE DEF d
<1>3. /\ calls' = [t \in Slots |-> calls'[t]] /\ \A t \in Slots \ {s} : calls'[t] = calls[t]
      /\ calls'[s] = c
  <2> DEFINE g == [d[s] EXCEPT !.inst = inst]
  <2>1. g = c
    BY <1>1, <1>2
  <2>2. calls' = [d EXCEPT ![s] = g]
    BY <1>1, <1>2
  <2> HIDE DEF g
  <2> QED
    BY <2>1, <2>2, <1>1, <1>2
<1>4. IsCall(c) /\ c.op = calls[s].op /\ c.kind = calls[s].kind /\ c.data = calls[s].data
  BY DEF Shape, IsCall
<1> QED
  BY <1>3, <1>4 DEF Calls, Shape

(* It has made an instance, and has chosen the id.                          *)
LEMMA ToMade ==
    ASSUME Shape, NEW s \in Slots, NEW id, NEW inst,
           calls' = [calls EXCEPT ![s].stage = "made", ![s].id = id, ![s].inst = inst]
    PROVE  Calls(s, id, "made", inst) /\ calls'[s].got = calls[s].got
<1> DEFINE d == [calls EXCEPT ![s].stage = "made"]
           e == [d EXCEPT ![s].id = id]
           c == [op |-> calls[s].op, kind |-> calls[s].kind, id |-> id, data |-> calls[s].data,
                    stage |-> "made", inst |-> inst, got |-> calls[s].got,
                    earlier |-> calls[s].earlier, late |-> calls[s].late]
<1>1. /\ d = [t \in Slots |-> d[t]] /\ \A t \in Slots \ {s} : d[t] = calls[t]
      /\ d[s] = [op |-> calls[s].op, kind |-> calls[s].kind, id |-> calls[s].id, data |-> calls[s].data,
                     stage |-> "made", inst |-> calls[s].inst, got |-> calls[s].got,
                     earlier |-> calls[s].earlier, late |-> calls[s].late]
  BY DEF Shape, IsCall
<1>2. calls' = [e EXCEPT ![s].inst = inst]
  OBVIOUS
<1> HIDE DEF d
<1>3. /\ e = [t \in Slots |-> e[t]] /\ \A t \in Slots \ {s} : e[t] = calls[t]
      /\ e[s] = [op |-> calls[s].op, kind |-> calls[s].kind, id |-> id, data |-> calls[s].data,
                     stage |-> "made", inst |-> calls[s].inst, got |-> calls[s].got,
                     earlier |-> calls[s].earlier, late |-> calls[s].late]
  BY <1>1
<1> HIDE DEF e
<1>4. /\ calls' = [t \in Slots |-> calls'[t]] /\ \A t \in Slots \ {s} : calls'[t] = calls[t]
      /\ calls'[s] = c
  <2> DEFINE g == [e[s] EXCEPT !.inst = inst]
  <2>1. g = c
    BY <1>2, <1>3
  <2>2. calls' = [e EXCEPT ![s] = g]
    BY <1>2, <1>3
  <2> HIDE DEF g
  <2> QED
    BY <2>1, <2>2, <1>2, <1>3
<1>5. IsCall(c) /\ c.op = calls[s].op /\ c.kind = calls[s].kind
  BY DEF Shape, IsCall
<1> QED
  BY <1>4, <1>5 DEF Calls, Shape

-----------------------------------------------------------------------------
(* The steps that create an instance.                                       *)

LEMMA MakeKeeps ==
    ASSUME MapInv, NEW s \in Slots, NEW id \in Ids, Make(s, id)
    PROVE  MapInv'
<1> DEFINE k == calls[s].kind
           inst == born + 1
<1>1. /\ up /\ calls[s].op = "create" /\ calls[s].stage = "sent"
      /\ id \notin DOMAIN relayMap[k]
      /\ born' = inst
      /\ running' = [running EXCEPT ![k] = @ \union {inst}]
      /\ contended' = [contended EXCEPT ![k] = @ \/ Creating(k, id) # {}]
      /\ UNCHANGED <<up, relayMap, halfMade>>
  BY DEF Make, At, FreeId
<1>2. Calls(s, id, "made", inst)
  BY ToMade DEF Make, MapInv
<1>3. k \in Kinds /\ inst \in Nat /\ born \in Nat /\ born < inst
  BY DEF MapInv, Shape, IsCall
<1> HIDE DEF k, inst
<1>4. Shape'
  BY <1>1, <1>2, <1>3 DEF MapInv, Shape, Calls
<1>5. DownIdle'
  BY <1>1 DEF DownIdle
<1>6. \A j \in Kinds : Registered(j)' = Registered(j)
  BY <1>1 DEF Registered
<1>7. Numbered'
  <2>1. \A t \in Slots : /\ calls'[t].inst \in 0..born'
                         /\ calls'[t].stage \in Busy => calls'[t].inst # 0
    BY <1>1, <1>2, <1>3 DEF MapInv, Numbered, Calls
  <2>2. \A j \in Kinds : running'[j] \subseteq 1..born' /\ Registered(j)' \subseteq 1..born'
    BY <1>1, <1>3, <1>6 DEF MapInv, Numbered, Shape
  <2> QED
    BY <2>1, <2>2 DEF Numbered
<1>8. Injective'
  BY <1>1 DEF MapInv, Injective
<1>9. \A j \in Kinds : inst \notin Registered(j) /\ inst \notin running[j]
  BY <1>3 DEF MapInv, Numbered
<1>10. \A t \in Slots : calls[t].inst # inst
  BY <1>3 DEF MapInv, Numbered
<1>11. \A j \in Kinds : ~contended'[j] => ~contended[j]
  BY <1>1, <1>3 DEF MapInv, Shape
<1>12. ~contended'[k] => \A t \in Slots \ {s} : At2(t, "create", "made", k) => calls[t].id # id
  BY <1>1, <1>3 DEF MapInv, Shape, Creating, At2
<1>13. MadeInv'
  <2> SUFFICES ASSUME NEW t \in Slots, NEW j \in Kinds,
                      calls'[t].op = "create", calls'[t].stage = "made", calls'[t].kind = j
               PROVE  /\ calls'[t].inst \notin Registered(j)'
                      /\ \A u \in Slots \ {t} : At2(u, "create", "made", j)' =>
                             calls'[u].inst # calls'[t].inst
                      /\ ~contended'[j] =>
                             /\ calls'[t].id \notin DOMAIN relayMap'[j]
                             /\ \A u \in Slots \ {t} : At2(u, "create", "made", j)' =>
                                    calls'[u].id # calls'[t].id
    BY DEF MadeInv, At2
  <2>1. CASE t = s
    BY <2>1, <1>1, <1>2, <1>6, <1>9, <1>10, <1>12 DEF Calls, At2, k
  <2>2. CASE t # s
    BY <2>2, <1>1, <1>2, <1>6, <1>10, <1>11, <1>12 DEF Calls, At2, k, MapInv, MadeInv
  <2> QED
    BY <2>1, <2>2
<1>14. \A t \in Slots : calls'[t].op = "delete" => calls'[t] = calls[t] /\ t # s
  BY <1>1, <1>2 DEF Calls
<1>15. \A j \in Kinds : running'[j] \subseteq running[j] \union {inst}
  BY <1>1, <1>3 DEF MapInv, Shape
<1>16. ServerInv'
  BY <1>1, <1>10, <1>11, <1>14, <1>15 DEF MapInv, ServerInv, At2, Maps, Kinds
<1>17. ClientInv'
  BY <1>1, <1>2, <1>6, <1>10, <1>11, <1>14
  DEF MapInv, ClientInv, At2, Maps, Kinds, Calls
<1>18. StagesInv'
  BY <1>14 DEF MapInv, StagesInv, At2
<1>19. RegistryMatchesRunning'
  <2> SUFFICES ASSUME NEW j \in Kinds, ~contended'[j]
               PROVE  running'[j] \union Held("delete", "closed", j)' =
                          Registered(j)' \union Held("create", "made", j)'
                          \union Held("delete", "removed", j)' \union HalfMade(j)
    BY <1>1 DEF RegistryMatchesRunning, HalfMade
  <2>1. /\ Held("delete", "closed", j)' = Held("delete", "closed", j)
        /\ Held("delete", "removed", j)' = Held("delete", "removed", j)
    BY <1>1, <1>2 DEF Held, Calls
  <2>2. Held("create", "made", j)' =
            IF j = k THEN Held("create", "made", j) \union {inst} ELSE Held("create", "made", j)
    BY <1>1, <1>2 DEF Held, Calls, k
  <2>3. running'[j] = IF j = k THEN running[j] \union {inst} ELSE running[j]
    BY <1>1, <1>3 DEF MapInv, Shape
  <2> QED
    BY <2>1, <2>2, <2>3, <1>1, <1>6, <1>11 DEF MapInv, RegistryMatchesRunning
<1>20. HalfInv'
  <2>1. \A t \in Slots : calls'[t].stage \in Busy =>
            calls'[t].inst > born \/ calls'[t] = calls[t]
    BY <1>2, <1>3 DEF Calls
  <2>2. "client" \in Kinds /\ born' \in Nat /\ born <= born'
    BY <1>1, <1>3 DEF Kinds
  <2> QED
    BY <1>1, <1>3, <1>6, <2>1, <2>2, HalfKept DEF MapInv
<1> QED
  BY <1>4, <1>5, <1>7, <1>8, <1>13, <1>16, <1>17, <1>18, <1>19, <1>20 DEF MapInv

(* A new instance enters the map: nobody else had it in hand.               *)
LEMMA RegisterKeeps ==
    ASSUME MapInv, NEW s \in Slots, Register(s)
    PROVE  MapInv'
<1> DEFINE k == calls[s].kind
           id == calls[s].id
           inst == calls[s].inst
           stage == calls'[s].stage
<1>1. /\ up /\ calls[s].op = "create" /\ calls[s].stage = "made"
      /\ relayMap' = [relayMap EXCEPT ![k] = With(@, id, inst)]
      /\ UNCHANGED <<up, running, halfMade, born, contended>>
  BY DEF Register, At
<1>2. Calls(s, id, stage, inst) /\ stage \in {"ok", "failed"}
  <2>1. CASE Fail(s)
    BY <2>1, ToStage DEF Fail, MapInv, Calls
  <2>2. CASE Answer(s, <<>>)
    BY <2>2, ToAnswer DEF MapInv, Calls
  <2> QED
    BY <2>1, <2>2 DEF Register
<1>3. k \in Kinds /\ inst \in 1..born
  BY <1>1 DEF MapInv, Shape, IsCall, Numbered, Busy
<1>4. inst \notin Registered(k)
  BY <1>1, <1>3 DEF MapInv, MadeInv, At2
<1>5. \A t \in Slots \ {s} : At2(t, "create", "made", k) => calls[t].inst # inst
  BY <1>1, <1>3 DEF MapInv, MadeInv, At2
<1>6. ~contended[k] =>
          /\ id \notin DOMAIN relayMap[k]
          /\ \A t \in Slots \ {s} : At2(t, "create", "made", k) => calls[t].id # id
  BY <1>1, <1>3 DEF MapInv, MadeInv, At2
<1> HIDE DEF k, id, inst, stage
<1>7. /\ relayMap' = [j \in Kinds |-> relayMap'[j]]
      /\ \A j \in Kinds : j # k => relayMap'[j] = relayMap[j]
      /\ DOMAIN relayMap'[k] = DOMAIN relayMap[k] \union {id}
      /\ relayMap'[k][id] = inst
      /\ \A i \in DOMAIN relayMap[k] : i # id => relayMap'[k][i] = relayMap[k][i]
  <2>1. relayMap'[k] = With(relayMap[k], id, inst)
    BY <1>1, <1>3 DEF MapInv, Shape
  <2>2. /\ relayMap' = [j \in Kinds |-> relayMap'[j]]
        /\ \A j \in Kinds : j # k => relayMap'[j] = relayMap[j]
    BY <1>1, <1>3 DEF MapInv, Shape
  <2> QED
    BY <2>1, <2>2 DEF With
<1>8. ASSUME NEW j \in Kinds
      PROVE  /\ j # k => Registered(j)' = Registered(j)
             /\ j = k => Registered(j)' \subseteq Registered(j) \union {inst}
             /\ j = k /\ ~contended[j] => Registered(j)' = Registered(j) \union {inst}
  <2>1. j # k => Registered(j)' = Registered(j)
    BY <1>7 DEF Registered
  <2>2. ASSUME j = k PROVE Registered(j)' \subseteq Registered(j) \union {inst}
    BY <2>2, <1>7 DEF Registered
  <2>3. ASSUME j = k, ~contended[j] PROVE Registered(j) \union {inst} \subseteq Registered(j)'
    BY <2>3, <1>6, <1>7 DEF Registered
  <2> QED
    BY <2>1, <2>2, <2>3
<1>9. Shape'
  BY <1>1, <1>2, <1>7 DEF MapInv, Shape, Calls
<1>10. DownIdle'
  BY <1>1 DEF DownIdle
<1>11. Numbered'
  <2>1. \A t \in Slots : /\ calls'[t].inst \in 0..born'
                         /\ calls'[t].stage \in Busy => calls'[t].inst # 0
    BY <1>1, <1>2, <1>3 DEF MapInv, Numbered, Calls, Busy
  <2>2. ASSUME NEW j \in Kinds PROVE running'[j] \union Registered(j)' \subseteq 1..born'
    BY <1>1, <1>3, <1>8 DEF MapInv, Numbered
  <2> QED
    BY <2>1, <2>2 DEF Numbered
<1>12. Injective'
  <2> SUFFICES ASSUME NEW j \in Kinds, NEW a \in DOMAIN relayMap'[j], NEW b \in DOMAIN relayMap'[j],
                      relayMap'[j][a] = relayMap'[j][b]
               PROVE  a = b
    BY DEF Injective
  <2>1. CASE j = k
    BY <2>1, <1>4, <1>7 DEF MapInv, Injective, Registered
  <2>2. CASE j # k
    BY <2>2, <1>7 DEF MapInv, Injective
  <2> QED
    BY <2>1, <2>2
<1>13. MadeInv'
  <2> SUFFICES ASSUME NEW t \in Slots, NEW j \in Kinds,
                      calls'[t].op = "create", calls'[t].stage = "made", calls'[t].kind = j
               PROVE  /\ calls'[t].inst \notin Registered(j)'
                      /\ \A u \in Slots \ {t} : At2(u, "create", "made", j)' =>
                             calls'[u].inst # calls'[t].inst
                      /\ ~contended'[j] =>
                             /\ calls'[t].id \notin DOMAIN relayMap'[j]
                             /\ \A u \in Slots \ {t} : At2(u, "create", "made", j)' =>
                                    calls'[u].id # calls'[t].id
    BY DEF MadeInv, At2
  <2>1. t # s /\ At2(t, "create", "made", j)
    BY <1>2 DEF Calls, At2
  <2>2. \A u \in Slots : At2(u, "create", "made", j)' =>
            u # s /\ At2(u, "create", "made", j) /\ calls'[u] = calls[u]
    BY <1>2 DEF Calls, At2
  <2>3. calls'[t].inst \notin Registered(j)'
    BY <1>2, <1>5, <1>8, <2>1 DEF Calls, MapInv, MadeInv
  <2>4. \A u \in Slots \ {t} : At2(u, "create", "made", j)' => calls'[u].inst # calls'[t].inst
    BY <1>2, <2>1, <2>2 DEF Calls, MapInv, MadeInv
  <2>5. ASSUME ~contended'[j]
        PROVE  /\ calls'[t].id \notin DOMAIN relayMap'[j]
               /\ \A u \in Slots \ {t} : At2(u, "create", "made", j)' =>
                      calls'[u].id # calls'[t].id
    BY <1>1, <1>2, <1>6, <1>7, <2>1, <2>2, <2>5 DEF Calls, MapInv, MadeInv
  <2> QED
    BY <2>3, <2>4, <2>5
<1>14. \A t \in Slots : calls'[t].op = "delete" => calls'[t] = calls[t] /\ t # s
  BY <1>1, <1>2 DEF Calls
<1>15. \A t \in Slots, j \in Kinds : calls'[t] = calls[t] /\ ~contended[j] /\ Maps(t, j) =>
           calls'[t].id \in DOMAIN relayMap'[j] /\ relayMap'[j][calls'[t].id] = calls'[t].inst
  BY <1>6, <1>7 DEF Maps
<1>16. ServerInv'
  BY <1>1, <1>14, <1>15 DEF MapInv, ServerInv, At2, Maps, Kinds
<1>17. ClientInv'
  <2> SUFFICES ASSUME ~contended["client"], NEW t \in Slots
               PROVE  /\ At2(t, "delete", "found", "client")' =>
                             /\ Maps(t, "client")'
                             /\ \A u \in Slots \ {t} : At2(u, "delete", "found", "client")' =>
                                    calls'[u].inst # calls'[t].inst
                      /\ At2(t, "delete", "removed", "client")' =>
                             /\ calls'[t].inst \notin Registered("client")'
                             /\ \A u \in Slots \ {t} :
                                    \/ At2(u, "delete", "removed", "client")'
                                    \/ At2(u, "create", "made", "client")'
                                    => calls'[u].inst # calls'[t].inst
    BY <1>1 DEF ClientInv
  <2>1. CASE At2(t, "delete", "found", "client")'
    BY <2>1, <1>14, <1>15 DEF MapInv, ClientInv, At2, Maps, Kinds
  <2>2. CASE At2(t, "delete", "removed", "client")'
    <3>1. calls'[t] = calls[t] /\ t # s /\ At2(t, "delete", "removed", "client")
      BY <2>2, <1>14 DEF At2
    <3>2. k = "client" => inst # calls[t].inst
      BY <3>1, <1>1 DEF MapInv, ClientInv, At2, k, inst
    <3>3. calls[t].inst \notin Registered("client")'
      <4>1. calls[t].inst \notin Registered("client") /\ "client" \in Kinds
        BY <3>1 DEF MapInv, ClientInv, Kinds
      <4> QED
        BY <4>1, <3>2, <1>8
    <3>4. \A u \in Slots : \/ At2(u, "delete", "removed", "client")'
                          \/ At2(u, "create", "made", "client")' => calls'[u] = calls[u]
      BY <1>2 DEF Calls, At2
    <3> QED
      BY <3>1, <3>3, <3>4, <2>2 DEF MapInv, ClientInv, At2
  <2> QED
    BY <2>1, <2>2 DEF At2
<1>18. StagesInv'
  BY <1>14 DEF MapInv, StagesInv, At2
<1>19. RegistryMatchesRunning'
  <2> SUFFICES ASSUME NEW j \in Kinds, ~contended[j]
               PROVE  running'[j] \union Held("delete", "closed", j)' =
                          Registered(j)' \union Held("create", "made", j)'
                          \union Held("delete", "removed", j)' \union HalfMade(j)
    BY <1>1 DEF RegistryMatchesRunning, HalfMade
  <2>1. /\ Held("delete", "closed", j)' = Held("delete", "closed", j)
        /\ Held("delete", "removed", j)' = Held("delete", "removed", j)
    BY <1>1, <1>2 DEF Held, Calls
  <2>2. CASE j = k
    <3>1. \A u \in Slots : (/\ calls'[u].op = "create" /\ calls'[u].stage = "made"
                            /\ calls'[u].kind = j) <=> u # s /\ At2(u, "create", "made", j)
      BY <1>1, <1>2 DEF Calls, At2
    <3>2. \A u \in Slots : u # s => calls'[u].inst = calls[u].inst
      BY <1>2 DEF Calls
    <3>3. Held("create", "made", j)' = Held("create", "made", j) \ {inst}
      BY <2>2, <1>5, <3>1, <3>2 DEF Held, At2, inst
    <3>4. inst \in Held("create", "made", j)
      BY <1>1, <2>2 DEF Held, inst, k
    <3>5. Registered(j)' = Registered(j) \union {inst}
      BY <2>2, <1>8
    <3>6. running'[j] \union Held("delete", "closed", j) =
              Registered(j) \union Held("create", "made", j)
              \union Held("delete", "removed", j) \union HalfMade(j)
      BY <1>1 DEF MapInv, RegistryMatchesRunning
    <3> QED
      BY <2>1, <3>3, <3>4, <3>5, <3>6
  <2>3. CASE j # k
    <3>1. Held("create", "made", j)' = Held("create", "made", j)
      BY <2>3, <1>1, <1>2 DEF Held, Calls, k
    <3> QED
      BY <2>1, <2>3, <3>1, <1>1, <1>8 DEF MapInv, RegistryMatchesRunning
  <2> QED
    BY <2>2, <2>3
<1>20. HalfInv'
  <2>1. \A t \in Slots : calls'[t].stage \in Busy => calls'[t] = calls[t]
    BY <1>2 DEF Calls, Busy
  <2>2. \A i \in Registered("client")' :
            i \in Registered("client") \/ (k = "client" /\ i = inst)
    BY <1>8 DEF Kinds
  <2>3. calls[s].stage \in Busy /\ calls[s].inst = inst /\ calls[s].kind = k
    BY <1>1 DEF Busy, inst, k
  <2> QED
    BY <1>1, <2>1, <2>2, <2>3, HalfKept DEF MapInv, Shape
<1> QED
  BY <1>9, <1>10, <1>11, <1>12, <1>13, <1>16, <1>17, <1>18, <1>19, <1>20 DEF MapInv

-----------------------------------------------------------------------------
(* The steps that delete an instance.                                       *)

(* A request that moves on leaves what the others hold.                     *)
LEMMA HeldByOthers ==
    ASSUME NEW s \in Slots, NEW op, NEW stage, NEW k,
           \A t \in Slots \ {s} : calls'[t] = calls[t],
           calls[s].op = op => calls[s].stage # stage \/ calls[s].kind # k,
           calls'[s].op = op => calls'[s].stage # stage \/ calls'[s].kind # k
    PROVE  Held(op, stage, k)' = Held(op, stage, k)
BY DEF Held

(* A request comes to a stage, or leaves it, with its instance.             *)
LEMMA HeldMore ==
    ASSUME NEW s \in Slots, NEW op, NEW stage, NEW k,
           \A t \in Slots \ {s} : calls'[t] = calls[t],
           calls[s].op = op => calls[s].stage # stage \/ calls[s].kind # k,
           calls'[s].op = op, calls'[s].stage = stage, calls'[s].kind = k
    PROVE  Held(op, stage, k)' = Held(op, stage, k) \union {calls'[s].inst}
BY DEF Held

(* It is the only one that has this instance at that stage.                 *)
LEMMA HeldLess ==
    ASSUME NEW s \in Slots, NEW op, NEW stage, NEW k,
           \A t \in Slots \ {s} : calls'[t] = calls[t],
           At2(s, op, stage, k),
           \A t \in Slots \ {s} : At2(t, op, stage, k) => calls[t].inst # calls[s].inst,
           calls'[s].op = op => calls'[s].stage # stage \/ calls'[s].kind # k
    PROVE  /\ Held(op, stage, k)' = Held(op, stage, k) \ {calls[s].inst}
           /\ calls[s].inst \in Held(op, stage, k)
BY DEF Held, At2

(* Nothing but a smaller map happens to the instances being created.        *)
LEMMA MadeShrinks ==
    ASSUME MapInv, UNCHANGED contended,
           \A t \in Slots : calls'[t].op = "create" /\ calls'[t].stage = "made" =>
               calls'[t] = calls[t],
           \A j \in Kinds :
               /\ DOMAIN relayMap'[j] \subseteq DOMAIN relayMap[j]
               /\ \A i \in DOMAIN relayMap'[j] : relayMap'[j][i] = relayMap[j][i]
    PROVE  MadeInv' /\ Injective'
<1>1. MadeInv'
  <2> SUFFICES ASSUME NEW t \in Slots, NEW j \in Kinds,
                      calls'[t].op = "create", calls'[t].stage = "made", calls'[t].kind = j
               PROVE  /\ calls'[t].inst \notin Registered(j)'
                      /\ \A u \in Slots \ {t} : At2(u, "create", "made", j)' =>
                             calls'[u].inst # calls'[t].inst
                      /\ ~contended'[j] =>
                             /\ calls'[t].id \notin DOMAIN relayMap'[j]
                             /\ \A u \in Slots \ {t} : At2(u, "create", "made", j)' =>
                                    calls'[u].id # calls'[t].id
    BY DEF MadeInv, At2
  <2>1. calls'[t].inst \notin Registered(j)'
    <3>1. Registered(j)' \subseteq Registered(j)
      BY DEF Registered
    <3>2. calls[t].inst \notin Registered(j) /\ calls'[t] = calls[t]
      BY DEF MapInv, MadeInv, At2
    <3> QED
      BY <3>1, <3>2
  <2> QED
    BY <2>1 DEF MapInv, MadeInv, At2
<1>2. Injective'
  BY DEF MapInv, Injective
<1> QED
  BY <1>1, <1>2

(* A client that is made by halves is nobody's.                             *)
LEMMA MakeHalfKeeps ==
    ASSUME MapInv, NEW s \in Slots, MakeHalf(s)
    PROVE  MapInv'
<1> DEFINE inst == born + 1
<1>1. /\ up /\ calls[s].op = "create" /\ calls[s].stage = "sent" /\ Goto(s, "failed")
      /\ born' = inst
      /\ running' = [running EXCEPT !["client"] = @ \union {inst}]
      /\ halfMade' = halfMade \union {inst}
      /\ UNCHANGED <<up, relayMap, contended>>
  BY DEF MakeHalf, At, Fail
<1>2. Calls(s, calls[s].id, "failed", calls[s].inst)
  BY <1>1, ToStage DEF MapInv
<1>3. inst \in Nat /\ born \in Nat /\ born < inst
  BY DEF MapInv, Shape
<1> HIDE DEF inst
<1>4. /\ running' \in [Kinds -> SUBSET Nat]
      /\ running'["server"] = running["server"]
      /\ running'["client"] = running["client"] \union {inst}
  BY <1>1, <1>3 DEF MapInv, Shape, Kinds
<1>5. Shape' /\ DownIdle'
  BY <1>1, <1>2, <1>3, <1>4 DEF MapInv, Shape, DownIdle, Calls
<1>6. \A j \in Kinds : Registered(j)' = Registered(j)
  BY <1>1 DEF Registered
<1>7. /\ \A t \in Slots \ {s} : calls'[t] = calls[t]
      /\ calls'[s].stage = "failed" /\ calls'[s].inst = calls[s].inst
  BY <1>2 DEF Calls
<1>8. \A t \in Slots : calls'[t].stage \in Busy => calls'[t] = calls[t]
  BY <1>7 DEF Busy
<1>9. Numbered'
  <2>1. \A t \in Slots : /\ calls'[t].inst \in 0..born'
                         /\ calls'[t].stage \in Busy => calls'[t].inst # 0
    BY <1>1, <1>3, <1>7, <1>8 DEF MapInv, Numbered
  <2>2. ASSUME NEW j \in Kinds PROVE running'[j] \union Registered(j)' \subseteq 1..born'
    BY <1>1, <1>3, <1>4, <1>6 DEF MapInv, Numbered, Kinds
  <2> QED
    BY <2>1, <2>2 DEF Numbered
<1>10. Injective' /\ MadeInv'
  BY <1>1, <1>8, MadeShrinks DEF Busy
<1>11. ServerInv' /\ ClientInv' /\ StagesInv'
  <2>1. \A t \in Slots : calls'[t].stage \in {"found", "closed", "removed", "made"} =>
            calls'[t] = calls[t]
    BY <1>8 DEF Busy
  <2>2. ServerInv'
    BY <1>1, <1>4, <2>1 DEF MapInv, ServerInv, At2, Maps
  <2>3. ClientInv'
    BY <1>1, <1>6, <2>1 DEF MapInv, ClientInv, At2, Maps, Kinds
  <2>4. StagesInv'
    BY <2>1 DEF MapInv, StagesInv, At2
  <2> QED
    BY <2>2, <2>3, <2>4
<1>12. HalfInv'
  <2>1. halfMade' \subseteq 1..born'
    BY <1>1, <1>3 DEF MapInv, HalfInv
  <2>2. \A i \in Registered("client") : i \in 1..born /\ i \notin halfMade
    BY DEF MapInv, HalfInv, Numbered, Kinds
  <2>3. \A t \in Slots : calls[t].inst \in 0..born
    BY DEF MapInv, Numbered
  <2>4. halfMade' \intersect Registered("client")' = {}
    BY <1>1, <1>3, <1>6, <2>2 DEF Kinds
  <2>5. \A t \in Slots : calls'[t].kind = "client" /\ calls'[t].stage \in Busy =>
            calls'[t].inst \notin halfMade'
    BY <1>1, <1>3, <1>8, <2>3 DEF MapInv, HalfInv
  <2> QED
    BY <2>1, <2>4, <2>5 DEF HalfInv
<1>13. RegistryMatchesRunning'
  <2> SUFFICES ASSUME NEW j \in Kinds, ~contended[j]
               PROVE  running'[j] \union Held("delete", "closed", j)' =
                          Registered(j)' \union Held("create", "made", j)'
                          \union Held("delete", "removed", j)' \union HalfMade(j)'
    BY <1>1 DEF RegistryMatchesRunning
  <2>1. running[j] \union Held("delete", "closed", j) =
            Registered(j) \union Held("create", "made", j)
            \union Held("delete", "removed", j) \union HalfMade(j)
    BY <1>1 DEF MapInv, RegistryMatchesRunning
  <2>2. /\ Held("create", "made", j)' = Held("create", "made", j)
        /\ Held("delete", "closed", j)' = Held("delete", "closed", j)
        /\ Held("delete", "removed", j)' = Held("delete", "removed", j)
    BY <1>1, <1>7, HeldByOthers
  <2>3. CASE j = "client"
    BY <1>1, <1>4, <1>6, <2>1, <2>2, <2>3 DEF HalfMade
  <2>4. CASE j = "server"
    BY <1>4, <1>6, <2>1, <2>2, <2>4 DEF HalfMade
  <2> QED
    BY <2>3, <2>4 DEF Kinds
<1> QED
  BY <1>5, <1>9, <1>10, <1>11, <1>12, <1>13 DEF MapInv

(* A handler finds an instance in the map.                                  *)
LEMMA FindKeeps ==
    ASSUME MapInv, NEW s \in Slots, Find(s)
    PROVE  MapInv'
<1> DEFINE k == calls[s].kind
           id == calls[s].id
           inst == relayMap[k][id]
<1>1. CASE id \notin DOMAIN relayMap[k]
  <2>1. Fail(s) /\ UNCHANGED <<contended, up, instances>> /\ up /\ calls[s].stage = "sent"
    BY <1>1 DEF Find, At
  <2>2. Calls(s, calls[s].id, "failed", calls[s].inst)
    BY <2>1, ToStage DEF Fail, MapInv
  <2>3. Shape'
    BY <2>1, <2>2 DEF Calls, MapInv, Shape, instances
  <2>4. \A t \in Slots : Same(t) \/ Aside(t)
    BY <2>1, <2>2 DEF Calls, Same, Aside, Busy, Idle
  <2> QED
    BY <2>1, <2>3, <2>4, PassingKeeps DEF Passing, instances
<1>2. CASE id \in DOMAIN relayMap[k]
  <2>1. /\ up /\ calls[s].op = "delete" /\ calls[s].stage = "sent"
        /\ contended' = [contended EXCEPT ![k] = @ \/ Deleting(k, inst) # {}]
        /\ UNCHANGED <<up, relayMap, running, halfMade, born>>
    BY <1>2 DEF Find, At, instances
  <2>2. Calls(s, id, "found", inst)
    BY <1>2, ToFound DEF Find, MapInv
  <2>3. k \in Kinds /\ inst \in Registered(k) /\ inst \in 1..born
    BY <1>2 DEF MapInv, Shape, IsCall, Numbered, Registered
  <2>4. k = calls[s].kind /\ relayMap[k][id] = inst /\ id \in DOMAIN relayMap[k]
    BY <1>2
  <2> HIDE DEF k, id, inst
  <2>5. Shape' /\ DownIdle'
    BY <2>1, <2>2, <2>3 DEF MapInv, Shape, DownIdle, Calls
  <2>6. ASSUME NEW j \in Kinds PROVE Registered(j)' = Registered(j)
    BY <2>1 DEF Registered
  <2>7. Numbered'
    <3>1. \A t \in Slots : /\ calls'[t].inst \in 0..born'
                           /\ calls'[t].stage \in Busy => calls'[t].inst # 0
      BY <2>1, <2>2, <2>3 DEF MapInv, Numbered, Calls
    <3>2. ASSUME NEW j \in Kinds PROVE running'[j] \union Registered(j)' \subseteq 1..born'
      BY <2>1, <2>6 DEF MapInv, Numbered
    <3> QED
      BY <3>1, <3>2 DEF Numbered
  <2>8. Injective'
    BY <2>1 DEF MapInv, Injective
  <2>9. \A j \in Kinds : ~contended'[j] => ~contended[j]
    BY <2>1, <2>3 DEF MapInv, Shape
  <2>10. ~contended'[k] => \A t \in Slots \ {s} : At2(t, "delete", "found", k) => calls[t].inst # inst
    BY <2>1, <2>3 DEF MapInv, Shape, Deleting, At2
  <2>11. \A t \in Slots : t # s => calls'[t] = calls[t]
    BY <2>2 DEF Calls
  <2>12. calls'[s].op = "delete" /\ calls'[s].stage = "found" /\ calls'[s].kind = k
         /\ calls'[s].inst = inst /\ calls'[s].id = id
    BY <2>1, <2>2, <2>4 DEF Calls
  <2>13. MadeInv'
    <3> SUFFICES ASSUME NEW t \in Slots, NEW j \in Kinds,
                        calls'[t].op = "create", calls'[t].stage = "made", calls'[t].kind = j
                 PROVE  /\ calls'[t].inst \notin Registered(j)'
                        /\ \A u \in Slots \ {t} : At2(u, "create", "made", j)' =>
                               calls'[u].inst # calls'[t].inst
                        /\ ~contended'[j] =>
                               /\ calls'[t].id \notin DOMAIN relayMap'[j]
                               /\ \A u \in Slots \ {t} : At2(u, "create", "made", j)' =>
                                      calls'[u].id # calls'[t].id
      BY DEF MadeInv, At2
    <3> QED
      BY <2>1, <2>6, <2>9, <2>11, <2>12 DEF MapInv, MadeInv, At2
  <2>14. ServerInv'
    BY <2>1, <2>4, <2>9, <2>11, <2>12 DEF MapInv, ServerInv, At2, Maps, Kinds
  <2>15. ClientInv'
    BY <2>1, <2>4, <2>6, <2>9, <2>10, <2>11, <2>12 DEF MapInv, ClientInv, At2, Maps, Kinds, Registered
  <2>16. StagesInv'
    BY <2>11, <2>12 DEF MapInv, StagesInv, At2
  <2>17. ASSUME NEW j \in Kinds
         PROVE  /\ Held("create", "made", j)' = Held("create", "made", j)
                /\ Held("delete", "closed", j)' = Held("delete", "closed", j)
                /\ Held("delete", "removed", j)' = Held("delete", "removed", j)
    BY <2>1, <2>11, <2>12, HeldByOthers
  <2>18. RegistryMatchesRunning'
    <3> SUFFICES ASSUME NEW j \in Kinds, ~contended'[j]
                 PROVE  running'[j] \union Held("delete", "closed", j)' =
                            Registered(j)' \union Held("create", "made", j)'
                            \union Held("delete", "removed", j)' \union HalfMade(j)
      BY <2>1 DEF RegistryMatchesRunning, HalfMade
    <3>1. running[j] \union Held("delete", "closed", j) =
              Registered(j) \union Held("create", "made", j)
              \union Held("delete", "removed", j) \union HalfMade(j)
      BY <2>1, <2>9 DEF MapInv, RegistryMatchesRunning
    <3> QED
      BY <3>1, <2>1, <2>6, <2>17
  <2>19. HalfInv'
    <3>1. \A t \in Slots : calls'[t].kind = "client" /\ calls'[t].stage \in Busy =>
              calls'[t].inst \in Registered("client") \/ calls'[t] = calls[t]
      BY <2>3, <2>11, <2>12
    <3> QED
      BY <2>1, <2>6, <3>1, HalfKept DEF MapInv, Shape, Kinds
  <2> QED
    BY <2>5, <2>7, <2>8, <2>13, <2>14, <2>15, <2>16, <2>18, <2>19 DEF MapInv
<1> QED
  BY <1>1, <1>2

(* A server that was found is closed, once.                                 *)
LEMMA CloseServerKeeps ==
    ASSUME MapInv, NEW s \in Slots, calls[s].kind = "server", Close(s, "found")
    PROVE  MapInv'
<1> DEFINE inst == calls[s].inst
           stage == calls'[s].stage
<1>1. /\ up /\ calls[s].op = "delete" /\ calls[s].stage = "found" /\ calls[s].kind = "server"
      /\ running' = [running EXCEPT !["server"] = @ \ {inst}]
      /\ UNCHANGED <<up, relayMap, halfMade, born, contended>>
  BY DEF Close, At
<1>2. /\ Calls(s, calls[s].id, stage, inst)
      /\ stage = IF inst \in running["server"] THEN "closed" ELSE "failed"
  <2>1. CASE Goto(s, "closed") /\ inst \in running["server"]
    BY <2>1, ToStage DEF MapInv, Calls
  <2>2. CASE Fail(s) /\ inst \notin running["server"]
    BY <2>2, ToStage DEF Fail, MapInv, Calls
  <2> QED
    BY <1>1, <2>1, <2>2 DEF Close
<1>3. inst \in 1..born
  BY <1>1 DEF MapInv, Numbered, Busy
<1>4. /\ calls'[s].op = "delete" /\ calls'[s].kind = "server" /\ calls'[s].stage = stage
      /\ calls'[s].id = calls[s].id /\ calls'[s].inst = inst /\ calls[s].inst = inst
      /\ \A t \in Slots \ {s} : calls'[t] = calls[t]
  BY <1>1, <1>2 DEF Calls
<1> HIDE DEF inst, stage
<1>5. /\ running' \in [Kinds -> SUBSET Nat]
      /\ running'["client"] = running["client"]
      /\ running'["server"] = running["server"] \ {inst}
  BY <1>1 DEF MapInv, Shape, Kinds
<1>6. Shape' /\ DownIdle'
  BY <1>1, <1>2, <1>5 DEF MapInv, Shape, DownIdle, Calls
<1>7. ASSUME NEW j \in Kinds PROVE Registered(j)' = Registered(j)
  BY <1>1 DEF Registered
<1>8. Numbered'
  <2>1. \A t \in Slots : /\ calls'[t].inst \in 0..born'
                         /\ calls'[t].stage \in Busy => calls'[t].inst # 0
    BY <1>1, <1>3, <1>4 DEF MapInv, Numbered
  <2>2. ASSUME NEW j \in Kinds PROVE running'[j] \union Registered(j)' \subseteq 1..born'
    BY <1>1, <1>5, <1>7 DEF MapInv, Numbered, Kinds
  <2> QED
    BY <2>1, <2>2 DEF Numbered
<1>9. Injective' /\ MadeInv'
  BY <1>1, <1>4, MadeShrinks
<1>10. ServerInv'
  BY <1>1, <1>2, <1>4, <1>5 DEF MapInv, ServerInv, At2, Maps
<1>11. ClientInv' /\ StagesInv'
  BY <1>1, <1>2, <1>4 DEF MapInv, ClientInv, StagesInv, At2, Maps, Registered
<1>12. RegistryMatchesRunning'
  <2> SUFFICES ASSUME NEW j \in Kinds, ~contended[j]
               PROVE  running'[j] \union Held("delete", "closed", j)' =
                          Registered(j)' \union Held("create", "made", j)'
                          \union Held("delete", "removed", j)' \union HalfMade(j)
    BY <1>1 DEF RegistryMatchesRunning, HalfMade
  <2>1. running[j] \union Held("delete", "closed", j) =
            Registered(j) \union Held("create", "made", j)
            \union Held("delete", "removed", j) \union HalfMade(j)
    BY <1>1 DEF MapInv, RegistryMatchesRunning
  <2>2. /\ Held("create", "made", j)' = Held("create", "made", j)
        /\ Held("delete", "removed", j)' = Held("delete", "removed", j)
    BY <1>1, <1>2, <1>4, HeldByOthers
  <2>3. CASE j = "server" /\ inst \in running["server"]
    <3>1. Held("delete", "closed", j)' = Held("delete", "closed", j) \union {inst}
      BY <1>1, <1>2, <1>4, <2>3, HeldMore
    <3> QED
      BY <1>5, <1>7, <2>1, <2>2, <2>3, <3>1
  <2>4. CASE j = "client" \/ inst \notin running["server"]
    <3>1. Held("delete", "closed", j)' = Held("delete", "closed", j)
      BY <1>1, <1>2, <1>4, <2>4, HeldByOthers
    <3>2. running'[j] = running[j]
      BY <1>5, <2>4 DEF Kinds
    <3> QED
      BY <1>7, <2>1, <2>2, <3>1, <3>2
  <2> QED
    BY <2>3, <2>4 DEF Kinds
<1>13. HalfInv'
  <2>1. \A t \in Slots : calls'[t].kind = "client" /\ calls'[t].stage \in Busy =>
            calls'[t] = calls[t]
    BY <1>4 DEF Busy
  <2> QED
    BY <1>1, <1>7, <2>1, HalfKept DEF MapInv, Shape, Kinds
<1> QED
  BY <1>6, <1>8, <1>9, <1>10, <1>11, <1>12, <1>13 DEF MapInv

(* A client is closed when it is out of the map.                            *)
LEMMA CloseClientKeeps ==
    ASSUME MapInv, NEW s \in Slots, calls[s].kind = "client", Close(s, "removed")
    PROVE  MapInv'
<1> DEFINE inst == calls[s].inst
<1>1. /\ up /\ calls[s].op = "delete" /\ calls[s].stage = "removed" /\ calls[s].kind = "client"
      /\ running' = [running EXCEPT !["client"] = @ \ {inst}]
      /\ UNCHANGED <<up, relayMap, halfMade, born, contended>>
  BY DEF Close, At
<1>2. Calls(s, calls[s].id, "ok", inst)
  BY ToAnswer DEF Close, MapInv
<1>3. inst \in 1..born
  BY <1>1 DEF MapInv, Numbered, Busy
<1>4. /\ calls'[s].op = "delete" /\ calls'[s].kind = "client" /\ calls'[s].stage = "ok"
      /\ calls'[s].id = calls[s].id /\ calls'[s].inst = inst /\ calls[s].inst = inst
      /\ \A t \in Slots \ {s} : calls'[t] = calls[t]
  BY <1>1, <1>2 DEF Calls
<1> HIDE DEF inst
<1>5. /\ running' \in [Kinds -> SUBSET Nat]
      /\ running'["server"] = running["server"]
      /\ running'["client"] = running["client"] \ {inst}
  BY <1>1 DEF MapInv, Shape, Kinds
<1>6. Shape' /\ DownIdle'
  BY <1>1, <1>2, <1>5 DEF MapInv, Shape, DownIdle, Calls
<1>7. ASSUME NEW j \in Kinds PROVE Registered(j)' = Registered(j)
  BY <1>1 DEF Registered
<1>8. Numbered'
  <2>1. \A t \in Slots : /\ calls'[t].inst \in 0..born'
                         /\ calls'[t].stage \in Busy => calls'[t].inst # 0
    BY <1>1, <1>3, <1>4 DEF MapInv, Numbered
  <2>2. ASSUME NEW j \in Kinds PROVE running'[j] \union Registered(j)' \subseteq 1..born'
    BY <1>1, <1>5, <1>7 DEF MapInv, Numbered, Kinds
  <2> QED
    BY <2>1, <2>2 DEF Numbered
<1>9. Injective' /\ MadeInv'
  BY <1>1, <1>4, MadeShrinks
<1>10. ServerInv'
  BY <1>1, <1>4, <1>5 DEF MapInv, ServerInv, At2, Maps
<1>11. ClientInv' /\ StagesInv'
  BY <1>1, <1>4 DEF MapInv, ClientInv, StagesInv, At2, Maps, Registered
<1>12. RegistryMatchesRunning'
  <2> SUFFICES ASSUME NEW j \in Kinds, ~contended[j]
               PROVE  running'[j] \union Held("delete", "closed", j)' =
                          Registered(j)' \union Held("create", "made", j)'
                          \union Held("delete", "removed", j)' \union HalfMade(j)
    BY <1>1 DEF RegistryMatchesRunning, HalfMade
  <2>1. running[j] \union Held("delete", "closed", j) =
            Registered(j) \union Held("create", "made", j)
            \union Held("delete", "removed", j) \union HalfMade(j)
    BY <1>1 DEF MapInv, RegistryMatchesRunning
  <2>2. /\ Held("create", "made", j)' = Held("create", "made", j)
        /\ Held("delete", "closed", j)' = Held("delete", "closed", j)
    BY <1>1, <1>4, HeldByOthers
  <2>3. CASE j = "client"
    <3>1. /\ Held("delete", "removed", j)' = Held("delete", "removed", j) \ {inst}
          /\ inst \in Held("delete", "removed", j)
      <4>1. \A t \in Slots \ {s} : At2(t, "delete", "removed", j) => calls[t].inst # calls[s].inst
        BY <1>1, <2>3 DEF MapInv, ClientInv, At2
      <4>2. At2(s, "delete", "removed", j)
        BY <1>1, <2>3 DEF At2
      <4> QED
        BY <1>4, <4>1, <4>2, HeldLess
    <3>2. inst \notin Registered(j) /\ inst \notin Held("create", "made", j)
      BY <1>1, <1>4, <2>3 DEF MapInv, ClientInv, At2, Held
    <3>3. inst \notin Held("delete", "closed", j)
      BY <2>3 DEF MapInv, StagesInv, At2, Held
    <3>4. inst \notin HalfMade(j)
      BY <1>1, <1>4, <2>3 DEF MapInv, HalfInv, HalfMade, Busy
    <3> QED
      BY <1>5, <1>7, <2>1, <2>2, <2>3, <3>1, <3>2, <3>3, <3>4
  <2>4. CASE j = "server"
    <3>1. Held("delete", "removed", j)' = Held("delete", "removed", j)
      BY <1>1, <1>4, <2>4, HeldByOthers
    <3> QED
      BY <1>5, <1>7, <2>1, <2>2, <2>4, <3>1
  <2> QED
    BY <2>3, <2>4 DEF Kinds
<1>13. HalfInv'
  <2>1. \A t \in Slots : calls'[t].kind = "client" /\ calls'[t].stage \in Busy =>
            calls'[t] = calls[t]
    BY <1>4 DEF Busy
  <2> QED
    BY <1>1, <1>7, <2>1, HalfKept DEF MapInv, Shape, Kinds
<1> QED
  BY <1>6, <1>8, <1>9, <1>10, <1>11, <1>12, <1>13 DEF MapInv

(* A server that was closed is taken out of the map.                        *)
LEMMA RemoveServerKeeps ==
    ASSUME MapInv, NEW s \in Slots, calls[s].kind = "server", Remove(s, "closed")
    PROVE  MapInv'
<1> DEFINE inst == calls[s].inst
           id == calls[s].id
<1>1. /\ up /\ calls[s].op = "delete" /\ calls[s].stage = "closed" /\ calls[s].kind = "server"
      /\ relayMap' = [relayMap EXCEPT !["server"] = Without(@, id)]
      /\ UNCHANGED <<up, running, halfMade, born, contended>>
  BY DEF Remove, At
<1>2. Calls(s, id, "ok", inst)
  BY <1>1, ToAnswer DEF Remove, MapInv
<1>3. inst \in 1..born
  BY <1>1 DEF MapInv, Numbered, Busy
<1>4. /\ calls'[s].op = "delete" /\ calls'[s].kind = "server" /\ calls'[s].stage = "ok"
      /\ calls'[s].id = id /\ calls[s].id = id /\ calls'[s].inst = inst /\ calls[s].inst = inst
      /\ \A t \in Slots \ {s} : calls'[t] = calls[t]
  BY <1>1, <1>2 DEF Calls
<1> HIDE DEF inst, id
<1>5. /\ relayMap' = [j \in Kinds |-> relayMap'[j]]
      /\ relayMap'["client"] = relayMap["client"]
      /\ DOMAIN relayMap'["server"] = DOMAIN relayMap["server"] \ {id}
      /\ \A i \in DOMAIN relayMap["server"] \ {id} : relayMap'["server"][i] = relayMap["server"][i]
  BY <1>1 DEF MapInv, Shape, Kinds, Without
<1>6. Shape' /\ DownIdle'
  BY <1>1, <1>2, <1>5 DEF MapInv, Shape, DownIdle, Calls
<1>7. Registered("client")' = Registered("client") /\ Registered("server")' \subseteq Registered("server")
  BY <1>5 DEF Registered
<1>8. Numbered'
  <2>1. \A t \in Slots : /\ calls'[t].inst \in 0..born'
                         /\ calls'[t].stage \in Busy => calls'[t].inst # 0
    BY <1>1, <1>3, <1>4 DEF MapInv, Numbered
  <2>2. ASSUME NEW j \in Kinds PROVE running'[j] \union Registered(j)' \subseteq 1..born'
    BY <1>1, <1>7 DEF MapInv, Numbered, Kinds
  <2> QED
    BY <2>1, <2>2 DEF Numbered
<1>9. Injective' /\ MadeInv'
  <2>1. \A j \in Kinds :
               /\ DOMAIN relayMap'[j] \subseteq DOMAIN relayMap[j]
               /\ \A i \in DOMAIN relayMap'[j] : relayMap'[j][i] = relayMap[j][i]
    BY <1>5 DEF Kinds
  <2> QED
    BY <1>1, <1>4, <2>1, MadeShrinks
<1>10. ~contended["server"] =>
           /\ id \in DOMAIN relayMap["server"] /\ relayMap["server"][id] = inst
           /\ inst \notin running["server"]
           /\ \A t \in Slots \ {s} : At2(t, "delete", "closed", "server") => calls[t].inst # inst
  BY <1>1, <1>4 DEF MapInv, ServerInv, At2, Maps
<1>11. ServerInv'
  BY <1>1, <1>4, <1>5, <1>10 DEF MapInv, ServerInv, At2, Maps
<1>12. ClientInv' /\ StagesInv'
  BY <1>1, <1>4, <1>5 DEF MapInv, ClientInv, StagesInv, At2, Maps, Registered
<1>13. RegistryMatchesRunning'
  <2> SUFFICES ASSUME NEW j \in Kinds, ~contended[j]
               PROVE  running'[j] \union Held("delete", "closed", j)' =
                          Registered(j)' \union Held("create", "made", j)'
                          \union Held("delete", "removed", j)' \union HalfMade(j)
    BY <1>1 DEF RegistryMatchesRunning, HalfMade
  <2>1. running[j] \union Held("delete", "closed", j) =
            Registered(j) \union Held("create", "made", j)
            \union Held("delete", "removed", j) \union HalfMade(j)
    BY <1>1 DEF MapInv, RegistryMatchesRunning
  <2>2. /\ Held("create", "made", j)' = Held("create", "made", j)
        /\ Held("delete", "removed", j)' = Held("delete", "removed", j)
    BY <1>1, <1>4, HeldByOthers
  <2>3. CASE j = "server"
    <3>1. /\ Held("delete", "closed", j)' = Held("delete", "closed", j) \ {inst}
          /\ inst \in Held("delete", "closed", j)
      <4>1. At2(s, "delete", "closed", "server")
        BY <1>1 DEF At2
      <4>2. ~contended["server"]
        BY <2>3
      <4>3. /\ Held("delete", "closed", "server")' = Held("delete", "closed", "server") \ {inst}
            /\ inst \in Held("delete", "closed", "server")
        BY <1>4, <1>10, <4>1, <4>2, HeldLess
      <4> QED
        BY <2>3, <4>3
    <3>2. inst \notin Held("create", "made", j)
      BY <1>10, <2>3 DEF MapInv, MadeInv, At2, Held, Registered, Kinds
    <3>3. inst \notin Held("delete", "removed", j)
      BY <2>3 DEF MapInv, StagesInv, At2, Held
    <3>4. Registered(j)' = Registered(j) \ {inst}
      BY <1>5, <1>10, <2>3 DEF MapInv, Injective, Registered
    <3>5. inst \notin running[j]
      BY <1>10, <2>3
    <3>6. HalfMade(j) = {}
      BY <2>3 DEF HalfMade
    <3>7. running'[j] = running[j]
      BY <1>1
    <3> QED
      BY <2>1, <2>2, <3>1, <3>2, <3>3, <3>4, <3>5, <3>6, <3>7
  <2>4. CASE j = "client"
    <3>1. Held("delete", "closed", j)' = Held("delete", "closed", j)
      BY <1>1, <1>4, <2>4, HeldByOthers
    <3> QED
      BY <1>1, <1>7, <2>1, <2>2, <2>4, <3>1
  <2> QED
    BY <2>3, <2>4 DEF Kinds
<1>14. HalfInv'
  <2>1. \A t \in Slots : calls'[t].kind = "client" /\ calls'[t].stage \in Busy =>
            calls'[t] = calls[t]
    BY <1>4 DEF Busy
  <2> QED
    BY <1>1, <1>7, <2>1, HalfKept DEF MapInv, Shape
<1> QED
  BY <1>6, <1>8, <1>9, <1>11, <1>12, <1>13, <1>14 DEF MapInv

(* A client that was found is taken out of the map.                         *)
LEMMA RemoveClientKeeps ==
    ASSUME MapInv, NEW s \in Slots, calls[s].kind = "client", Remove(s, "found")
    PROVE  MapInv'
<1> DEFINE inst == calls[s].inst
           id == calls[s].id
<1>1. /\ up /\ calls[s].op = "delete" /\ calls[s].stage = "found" /\ calls[s].kind = "client"
      /\ relayMap' = [relayMap EXCEPT !["client"] = Without(@, id)]
      /\ UNCHANGED <<up, running, halfMade, born, contended>>
  BY DEF Remove, At
<1>2. Calls(s, id, "removed", inst)
  BY <1>1, ToStage DEF Remove, MapInv
<1>3. inst \in 1..born
  BY <1>1 DEF MapInv, Numbered, Busy
<1>4. /\ calls'[s].op = "delete" /\ calls'[s].kind = "client" /\ calls'[s].stage = "removed"
      /\ calls'[s].id = id /\ calls[s].id = id /\ calls'[s].inst = inst /\ calls[s].inst = inst
      /\ \A t \in Slots \ {s} : calls'[t] = calls[t]
  BY <1>1, <1>2 DEF Calls
<1> HIDE DEF inst, id
<1>5. /\ relayMap' = [j \in Kinds |-> relayMap'[j]]
      /\ relayMap'["server"] = relayMap["server"]
      /\ DOMAIN relayMap'["client"] = DOMAIN relayMap["client"] \ {id}
      /\ \A i \in DOMAIN relayMap["client"] \ {id} : relayMap'["client"][i] = relayMap["client"][i]
  BY <1>1 DEF MapInv, Shape, Kinds, Without
<1>6. Shape' /\ DownIdle'
  BY <1>1, <1>2, <1>5 DEF MapInv, Shape, DownIdle, Calls
<1>7. Registered("server")' = Registered("server") /\ Registered("client")' \subseteq Registered("client")
  BY <1>5 DEF Registered
<1>8. Numbered'
  <2>1. \A t \in Slots : /\ calls'[t].inst \in 0..born'
                         /\ calls'[t].stage \in Busy => calls'[t].inst # 0
    BY <1>1, <1>3, <1>4 DEF MapInv, Numbered
  <2>2. ASSUME NEW j \in Kinds PROVE running'[j] \union Registered(j)' \subseteq 1..born'
    BY <1>1, <1>7 DEF MapInv, Numbered, Kinds
  <2> QED
    BY <2>1, <2>2 DEF Numbered
<1>9. Injective' /\ MadeInv'
  <2>1. \A j \in Kinds :
               /\ DOMAIN relayMap'[j] \subseteq DOMAIN relayMap[j]
               /\ \A i \in DOMAIN relayMap'[j] : relayMap'[j][i] = relayMap[j][i]
    BY <1>5 DEF Kinds
  <2> QED
    BY <1>1, <1>4, <2>1, MadeShrinks
<1>10. ~contended["client"] =>
           /\ id \in DOMAIN relayMap["client"] /\ relayMap["client"][id] = inst
           /\ \A t \in Slots \ {s} : At2(t, "delete", "found", "client") => calls[t].inst # inst
  BY <1>1, <1>4 DEF MapInv, ClientInv, At2, Maps
<1>11. ~contended["client"] =>
           /\ inst \in Registered("client")
           /\ Registered("client")' = Registered("client") \ {inst}
  BY <1>5, <1>10 DEF MapInv, Injective, Registered, Kinds
<1>12. ServerInv' /\ StagesInv'
  BY <1>1, <1>4, <1>5 DEF MapInv, ServerInv, StagesInv, At2, Maps
<1>13. ClientInv'
  <2> SUFFICES ASSUME ~contended["client"], NEW t \in Slots
               PROVE  /\ At2(t, "delete", "found", "client")' =>
                             /\ Maps(t, "client")'
                             /\ \A u \in Slots \ {t} : At2(u, "delete", "found", "client")' =>
                                    calls'[u].inst # calls'[t].inst
                      /\ At2(t, "delete", "removed", "client")' =>
                             /\ calls'[t].inst \notin Registered("client")'
                             /\ \A u \in Slots \ {t} :
                                    \/ At2(u, "delete", "removed", "client")'
                                    \/ At2(u, "create", "made", "client")'
                                    => calls'[u].inst # calls'[t].inst
    BY <1>1 DEF ClientInv
  <2>1. CASE At2(t, "delete", "found", "client")'
    BY <2>1, <1>1, <1>4, <1>5, <1>10 DEF MapInv, ClientInv, At2, Maps
  <2>2. CASE At2(t, "delete", "removed", "client")'
    <3>1. \A u \in Slots : At2(u, "create", "made", "client")' =>
              u # s /\ calls'[u].inst # inst
      BY <1>4, <1>11 DEF MapInv, MadeInv, At2, Kinds
    <3>2. \A u \in Slots \ {s} : At2(u, "delete", "removed", "client") => calls[u].inst # inst
      BY <1>11 DEF MapInv, ClientInv
    <3>3. CASE t = s
      BY <3>1, <3>2, <3>3, <1>4, <1>11 DEF At2
    <3>4. CASE t # s
      BY <3>2, <3>4, <2>2, <1>4, <1>11 DEF MapInv, ClientInv, At2
    <3> QED
      BY <3>3, <3>4
  <2> QED
    BY <2>1, <2>2 DEF At2
<1>14. RegistryMatchesRunning'
  <2> SUFFICES ASSUME NEW j \in Kinds, ~contended[j]
               PROVE  running'[j] \union Held("delete", "closed", j)' =
                          Registered(j)' \union Held("create", "made", j)'
                          \union Held("delete", "removed", j)' \union HalfMade(j)
    BY <1>1 DEF RegistryMatchesRunning, HalfMade
  <2>1. running[j] \union Held("delete", "closed", j) =
            Registered(j) \union Held("create", "made", j)
            \union Held("delete", "removed", j) \union HalfMade(j)
    BY <1>1 DEF MapInv, RegistryMatchesRunning
  <2>2. /\ Held("create", "made", j)' = Held("create", "made", j)
        /\ Held("delete", "closed", j)' = Held("delete", "closed", j)
    BY <1>1, <1>4, HeldByOthers
  <2>3. CASE j = "client"
    <3>1. Held("delete", "removed", j)' = Held("delete", "removed", j) \union {inst}
      BY <1>1, <1>4, <2>3, HeldMore
    <3>2. inst \in Registered(j) /\ Registered(j)' = Registered(j) \ {inst}
      BY <1>11, <2>3
    <3> QED
      BY <1>1, <2>1, <2>2, <3>1, <3>2
  <2>4. CASE j = "server"
    <3>1. Held("delete", "removed", j)' = Held("delete", "removed", j)
      BY <1>1, <1>4, <2>4, HeldByOthers
    <3> QED
      BY <1>1, <1>7, <2>1, <2>2, <2>4, <3>1
  <2> QED
    BY <2>3, <2>4 DEF Kinds
<1>15. HalfInv'
  <2>1. /\ \A t \in Slots \ {s} : calls'[t] = calls[t]
        /\ calls[s].stage \in Busy /\ calls'[s].kind = calls[s].kind
        /\ calls'[s].inst = calls[s].inst
    BY <1>1, <1>4 DEF Busy
  <2> QED
    BY <1>1, <1>7, <2>1, HalfKept DEF MapInv, Shape
<1> QED
  BY <1>6, <1>8, <1>9, <1>12, <1>13, <1>14, <1>15 DEF MapInv

-----------------------------------------------------------------------------
(* The process dies and is started again.                                   *)

LEMMA CrashKeeps == MapInv /\ Crash => MapInv'
<1> SUFFICES ASSUME MapInv, Crash PROVE MapInv'
  OBVIOUS
<1>1. /\ up' = FALSE /\ UNCHANGED <<born, contended>>
      /\ \A j \in Kinds : relayMap'[j] = <<>> /\ running'[j] = {}
      /\ relayMap' = [j \in Kinds |-> relayMap'[j]]
      /\ running' \in [Kinds -> SUBSET Nat]
  BY DEF Crash
<1>2. /\ calls' = [t \in Slots |-> calls'[t]]
      /\ \A t \in Slots : /\ IsCall(calls'[t])
                          /\ calls'[t].inst = calls[t].inst
                          /\ calls'[t].stage \in Idle
  <2> SUFFICES ASSUME NEW t \in Slots
               PROVE  /\ IsCall(calls'[t])
                      /\ calls'[t].inst = calls[t].inst
                      /\ calls'[t].stage \in Idle
    BY DEF Crash
  <2>1. IsCall(calls[t])
    BY DEF MapInv, Shape
  <2>2. CASE calls[t].stage = "none"
    BY <2>1, <2>2 DEF Crash, Idle
  <2>3. CASE calls[t].stage # "none"
    <3> DEFINE stage == IF calls[t].stage = "ok" THEN "ok" ELSE "failed"
    <3>1. calls'[t] = [calls[t] EXCEPT !.late = TRUE, !.stage = stage]
      BY <2>3 DEF Crash
    <3>2. calls'[t] = [op |-> calls[t].op, kind |-> calls[t].kind, id |-> calls[t].id,
                       data |-> calls[t].data, stage |-> stage, inst |-> calls[t].inst,
                       got |-> calls[t].got, earlier |-> calls[t].earlier, late |-> TRUE]
      BY <2>1, <3>1 DEF IsCall
    <3> QED
      BY <2>1, <3>2 DEF IsCall, Idle
  <2> QED
    BY <2>2, <2>3
<1>3. \A j \in Kinds : DOMAIN relayMap'[j] = {}
  BY <1>1
<1>4. ASSUME NEW j \in Kinds PROVE Registered(j)' = {}
  BY <1>3 DEF Registered
<1>5. Shape' /\ DownIdle'
  BY <1>1, <1>2 DEF MapInv, Shape, DownIdle
<1>6. \A t \in Slots : calls'[t].stage \notin Busy
  BY <1>2 DEF Idle, Busy
<1>7. Numbered' /\ Injective' /\ MadeInv' /\ ServerInv' /\ ClientInv' /\ StagesInv'
  <2>1. Numbered'
    BY <1>1, <1>2, <1>4, <1>6 DEF MapInv, Numbered
  <2>2. Injective' /\ MadeInv' /\ ServerInv' /\ ClientInv' /\ StagesInv'
    BY <1>3, <1>6 DEF Injective, MadeInv, ServerInv, ClientInv, StagesInv, At2, Busy
  <2> QED
    BY <2>1, <2>2
<1>8. RegistryMatchesRunning'
  BY <1>1 DEF RegistryMatchesRunning
<1>9. HalfInv'
  <2>1. halfMade' = {}
    BY DEF Crash
  <2> QED
    BY <2>1 DEF HalfInv
<1> QED
  BY <1>5, <1>7, <1>8, <1>9 DEF MapInv

(* A file that names no instance twice makes such a map.                    *)
LEMMA StartKeeps ==
    ASSUME MapInv, FileInv, NEW loaded \in [Kinds -> SUBSET Ids], Start(loaded)
    PROVE  MapInv'
<1>1. /\ up' = TRUE /\ UNCHANGED <<born, calls, contended>>
      /\ relayMap' = [k \in Kinds |-> [id \in loaded[k] |-> file[k][id].inst]]
      /\ running' = [k \in Kinds |-> {file[k][id].inst : id \in loaded[k]} \union HalfMade(k)']
      /\ \A k \in Kinds : loaded[k] \subseteq DOMAIN file[k]
  BY DEF Start
<1>9. PICK half \in SUBSET (DOMAIN file["client"] \ loaded["client"]) :
          halfMade' = {file["client"][id].inst : id \in half}
  BY DEF Start
<1>10. \A id \in DOMAIN file["client"] : file["client"][id].inst \in 1..born
  BY DEF FileInv, EntriesOK, Kinds
<1>11. halfMade' \subseteq 1..born
  BY <1>9, <1>10
<1>2. \A t \in Slots : calls'[t].stage \notin Busy /\ calls'[t] = calls[t]
  BY <1>1 DEF Start, MapInv, DownIdle, Idle, Busy
<1>3. ASSUME NEW j \in Kinds
      PROVE  /\ running'[j] = Registered(j)' \union HalfMade(j)'
             /\ running'[j] \subseteq 1..born
  <2>1. relayMap'[j] = [id \in loaded[j] |-> file[j][id].inst]
    BY <1>1
  <2>2. running'[j] = {file[j][id].inst : id \in loaded[j]} \union HalfMade(j)'
    BY <1>1
  <2>3. Registered(j)' = {file[j][id].inst : id \in loaded[j]}
    BY <2>1 DEF Registered
  <2>4. \A id \in loaded[j] : file[j][id].inst \in 1..born
    BY <1>1 DEF FileInv, EntriesOK
  <2>5. HalfMade(j)' \subseteq 1..born
    BY <1>11 DEF HalfMade
  <2> QED
    BY <2>2, <2>3, <2>4, <2>5
<1>4. Shape' /\ DownIdle'
  <2>1. running' \in [Kinds -> SUBSET Nat]
    <3>1. \A j \in Kinds : running'[j] \in SUBSET Nat
      BY <1>3 DEF MapInv, Shape
    <3> QED
      BY <3>1, <1>1
  <2> QED
    BY <1>1, <2>1 DEF MapInv, Shape, DownIdle
<1>5. Numbered'
  <2>1. \A t \in Slots : /\ calls'[t].inst \in 0..born'
                         /\ calls'[t].stage \in Busy => calls'[t].inst # 0
    BY <1>1, <1>2 DEF MapInv, Numbered
  <2>2. ASSUME NEW j \in Kinds PROVE running'[j] \union Registered(j)' \subseteq 1..born'
    BY <1>1, <1>3
  <2> QED
    BY <2>1, <2>2 DEF Numbered
<1>6. Injective'
  <2> SUFFICES ASSUME NEW k \in Kinds, NEW a \in DOMAIN relayMap'[k], NEW b \in DOMAIN relayMap'[k],
                      relayMap'[k][a] = relayMap'[k][b]
               PROVE  a = b
    BY DEF Injective
  <2>1. relayMap'[k] = [id \in loaded[k] |-> file[k][id].inst]
    BY <1>1
  <2>2. a \in DOMAIN file[k] /\ b \in DOMAIN file[k] /\ file[k][a].inst = file[k][b].inst
    BY <1>1, <2>1
  <2> QED
    BY <2>2 DEF FileInv, EntriesOK
<1>7. MadeInv' /\ ServerInv' /\ ClientInv' /\ StagesInv'
  BY <1>2 DEF MadeInv, ServerInv, ClientInv, StagesInv, At2, Busy
<1>8. RegistryMatchesRunning'
  <2> SUFFICES ASSUME NEW j \in Kinds
               PROVE  running'[j] \union Held("delete", "closed", j)' =
                          Registered(j)' \union Held("create", "made", j)'
                          \union Held("delete", "removed", j)' \union HalfMade(j)'
    BY DEF RegistryMatchesRunning
  <2>1. /\ Held("delete", "closed", j)' = {} /\ Held("create", "made", j)' = {}
        /\ Held("delete", "removed", j)' = {}
    BY <1>2 DEF Held, Busy
  <2> QED
    BY <1>3, <2>1
<1>12. HalfInv'
  <2>1. ASSUME NEW i \in halfMade', NEW a \in DOMAIN relayMap'["client"]
        PROVE  i # relayMap'["client"][a]
    <3>1. PICK id \in half : i = file["client"][id].inst
      BY <1>9
    <3>2. /\ a \in DOMAIN file["client"] /\ a # id
          /\ relayMap'["client"][a] = file["client"][a].inst
      BY <1>1 DEF Kinds
    <3> QED
      BY <3>1, <3>2 DEF FileInv, EntriesOK, Kinds
  <2>2. halfMade' \intersect Registered("client")' = {}
    BY <2>1 DEF Registered
  <2> QED
    BY <1>1, <1>2, <1>11, <2>2 DEF HalfInv
<1> QED
  BY <1>4, <1>5, <1>6, <1>7, <1>8, <1>12 DEF MapInv

-----------------------------------------------------------------------------
(* What the page does with its requests: it sends one, takes an answer, or  *)
(* notes the order of those that are under way.                             *)

Page ==
    /\ UNCHANGED <<up, relayMap, running, halfMade, born, contended, saving>>
    /\ Shape'
    /\ \A s \in Slots :
           \/ Same(s)
           \/ /\ calls[s].stage \in Idle /\ calls'[s].stage \in Idle
              /\ calls'[s].inst \in {0, calls[s].inst}

(* FileInv says nothing of a step that leaves the file and what will be     *)
(* written alone.                                                           *)
LEMMA FileKept ==
    ASSUME FileInv, UNCHANGED file, born \in Nat, born' \in Nat, born <= born',
           \A t \in Slots : calls'[t].op = "save" /\ calls'[t].stage \in Reading =>
               /\ calls[t].op = "save" /\ calls[t].stage \in Reading
               /\ calls'[t].got = calls[t].got
    PROVE  FileInv'
BY DEF FileInv, EntriesOK

(* What the page does leaves the invariant alone.                           *)
LEMMA PageKeeps == IInv /\ Page => IInv'
<1> SUFFICES ASSUME IInv, Page PROVE IInv'
  OBVIOUS
<1>1. Passing
  BY DEF Page, Passing, Aside, Idle, Busy
<1>2. FileInv'
  <2>1. \A t \in Slots : calls'[t].op = "save" /\ calls'[t].stage \in Reading =>
            /\ calls[t].op = "save" /\ calls[t].stage \in Reading
            /\ calls'[t].got = calls[t].got
    BY DEF Page, Same, Idle, Reading
  <2>2. born \in Nat /\ born' = born /\ UNCHANGED file
    BY DEF Page, saving, IInv, MapInv, Shape
  <2> QED
    BY <2>1, <2>2, FileKept DEF IInv
<1> QED
  BY <1>1, <1>2, PassingKeeps DEF IInv

(* New requests, and free slots, are idle and have no instance.             *)
LEMMA RequestIsCall ==
    ASSUME NEW op, NEW k \in Kinds, NEW id, NEW data, NEW earlier
    PROVE  /\ IsCall(Request(op, k, id, data, earlier))
           /\ Request(op, k, id, data, earlier).stage = "sent"
           /\ Request(op, k, id, data, earlier).inst = 0
BY DEF IsCall, Request, NoInstance

(* A free slot.                                                             *)
LEMMA NothingIsCall == IsCall(Nothing) /\ Nothing.stage = "none" /\ Nothing.inst = 0
<1> DEFINE r == Request("none", "server", 0, NoConfig, {})
<1>1. r = [op |-> "none", kind |-> "server", id |-> 0, data |-> NoConfig, stage |-> "sent",
           inst |-> NoInstance, got |-> <<>>, earlier |-> {}, late |-> FALSE]
  BY DEF Request
<1>2. Nothing = [r EXCEPT !.stage = "none"]
  BY DEF Nothing
<1> HIDE DEF r
<1>3. Nothing = [op |-> "none", kind |-> "server", id |-> 0, data |-> NoConfig, stage |-> "none",
                 inst |-> NoInstance, got |-> <<>>, earlier |-> {}, late |-> FALSE]
  BY <1>1, <1>2
<1> QED
  BY <1>3 DEF IsCall, NoInstance, Kinds

(* The answer to s has been taken.                                          *)
LEMMA TakenCalls ==
    ASSUME Shape, NEW s \in Slots
    PROVE  /\ Taken(s) = [t \in Slots |-> Taken(s)[t]]
           /\ Taken(s)[s] = Nothing
           /\ \A t \in Slots : IsCall(Taken(s)[t])
           /\ \A t \in Slots \ {s} :
                  /\ Taken(s)[t].op = calls[t].op /\ Taken(s)[t].kind = calls[t].kind
                  /\ Taken(s)[t].id = calls[t].id /\ Taken(s)[t].stage = calls[t].stage
                  /\ Taken(s)[t].inst = calls[t].inst /\ Taken(s)[t].got = calls[t].got
                  /\ Taken(s)[t].data = calls[t].data
                  /\ Taken(s)[t].earlier = calls[t].earlier \ {s}
                  /\ Taken(s)[t].late = (calls[t].late \/ t \in calls[s].earlier)
<1>1. Taken(s) = [t \in Slots |-> Taken(s)[t]] /\ Taken(s)[s] = Nothing
  BY DEF Taken
<1>2. ASSUME NEW t \in Slots \ {s}
      PROVE  /\ IsCall(Taken(s)[t])
             /\ Taken(s)[t].op = calls[t].op /\ Taken(s)[t].kind = calls[t].kind
             /\ Taken(s)[t].id = calls[t].id /\ Taken(s)[t].stage = calls[t].stage
             /\ Taken(s)[t].inst = calls[t].inst /\ Taken(s)[t].got = calls[t].got
             /\ Taken(s)[t].data = calls[t].data
             /\ Taken(s)[t].earlier = calls[t].earlier \ {s}
             /\ Taken(s)[t].late = (calls[t].late \/ t \in calls[s].earlier)
  <2> DEFINE late == calls[t].late \/ t \in calls[s].earlier
             earlier == calls[t].earlier \ {s}
             c == calls[t]
  <2>1. IsCall(c)
    BY DEF Shape
  <2>2. Taken(s)[t] = [c EXCEPT !.late = late, !.earlier = earlier]
    BY DEF Taken
  <2> HIDE DEF late, earlier
  <2>3. Taken(s)[t] = [op |-> c.op, kind |-> c.kind, id |-> c.id, data |-> c.data,
                       stage |-> c.stage, inst |-> c.inst, got |-> c.got,
                       earlier |-> earlier, late |-> late]
    BY <2>1, <2>2 DEF IsCall
  <2>4. c.kind \in Kinds
    BY <2>1 DEF IsCall
  <2> HIDE DEF c
  <2> QED
    BY <2>3, <2>4 DEF IsCall, c, late, earlier
<1> QED
  BY <1>1, <1>2, NothingIsCall

(* The three ways in which the page changes the requests.                   *)
LEMMA DonePage ==
    ASSUME Shape, NEW s \in Slots, calls[s].stage \in {"ok", "failed"}, Done(s),
           UNCHANGED <<up, relayMap, running, halfMade, born, contended, saving>>
    PROVE  Page
<1>1. calls' = Taken(s)
  BY DEF Done
<1>2. Shape'
  BY <1>1, TakenCalls DEF Shape
<1>3. \A t \in Slots \ {s} : Same(t)
  BY <1>1, TakenCalls DEF Same
<1>4. calls'[s].stage = "none" /\ calls'[s].inst = 0
  BY <1>1, TakenCalls, NothingIsCall
<1> QED
  BY <1>2, <1>3, <1>4 DEF Page, Idle

(* An answer that makes another request.                                    *)
LEMMA ThenPage ==
    ASSUME Shape, NEW s \in Slots, NEW op, NEW k \in Kinds, calls[s].stage \in {"ok", "failed"},
           Then(s, op, k), UNCHANGED <<up, relayMap, running, halfMade, born, contended, saving>>
    PROVE  Page
<1> DEFINE r == Request(op, k, instance_id[k], NoConfig, InFlight(k, {op}) \ {s})
           d == Taken(s)
<1>1. calls' = [d EXCEPT ![s] = r]
  BY DEF Then
<1>2. IsCall(r) /\ r.stage = "sent" /\ r.inst = 0
  BY RequestIsCall
<1>3. /\ d = [t \in Slots |-> d[t]] /\ \A t \in Slots : IsCall(d[t])
      /\ \A t \in Slots \ {s} :
             /\ d[t].op = calls[t].op /\ d[t].kind = calls[t].kind
             /\ d[t].id = calls[t].id /\ d[t].stage = calls[t].stage
             /\ d[t].inst = calls[t].inst /\ d[t].got = calls[t].got
  BY TakenCalls
<1> HIDE DEF r, d
<1>4. /\ calls' = [t \in Slots |-> calls'[t]] /\ calls'[s] = r
      /\ \A t \in Slots \ {s} : calls'[t] = d[t]
  BY <1>1, <1>3
<1>5. Shape'
  BY <1>2, <1>3, <1>4 DEF Shape
<1> QED
  BY <1>2, <1>3, <1>4, <1>5 DEF Page, Same, Idle

(* A click that makes one.                                                  *)
LEMMA AjaxPage ==
    ASSUME Shape, NEW op, NEW k \in Kinds, NEW id, NEW data, Ajax(op, k, id, data)
    PROVE  Page
<1>1. UNCHANGED <<up, relayMap, running, halfMade, born, contended, saving>>
  BY DEF Ajax, instances, saving
<1>2. PICK s \in Slots : /\ calls[s].stage = "none"
                         /\ calls' = [calls EXCEPT ![s] = Request(op, k, id, data, InFlight(k, {op}))]
  BY DEF Ajax
<1> DEFINE r == Request(op, k, id, data, InFlight(k, {op}))
<1>3. IsCall(r) /\ r.stage = "sent" /\ r.inst = 0
  BY RequestIsCall
<1>4. calls' = [calls EXCEPT ![s] = r]
  BY <1>2
<1> HIDE DEF r
<1>5. /\ calls' = [t \in Slots |-> calls'[t]] /\ calls'[s] = r
      /\ \A t \in Slots \ {s} : calls'[t] = calls[t]
  BY <1>4 DEF Shape
<1>6. Shape'
  BY <1>1, <1>3, <1>5 DEF Shape
<1> QED
  BY <1>1, <1>2, <1>3, <1>5, <1>6 DEF Page, Same, Idle

(* Every callback of the page, and every click.                             *)
LEMMA CallbackPage == IInv /\ (\E s \in Slots : Callback(s)) => Page
<1> SUFFICES ASSUME IInv, NEW s \in Slots, Callback(s) PROVE Page
  OBVIOUS
<1>1. Shape /\ calls[s].kind \in Kinds
  BY DEF IInv, MapInv, Shape, IsCall
<1> USE DEF Success, Quiet, instances, saving
<1>2. CASE ListAnswered(s)
  BY <1>1, <1>2, DonePage DEF ListAnswered
<1>3. CASE Created(s)
  BY <1>1, <1>3, ThenPage DEF Created
<1>4. CASE Deleted(s)
  BY <1>1, <1>4, ThenPage DEF Deleted
<1>5. CASE Connected(s)
  BY <1>1, <1>5, ThenPage DEF Connected, Kinds
<1>6. CASE Restarted(s)
  BY <1>1, <1>6, ThenPage DEF Restarted, Kinds
<1>7. CASE ServerAddrUpdated(s)
  BY <1>1, <1>7, DonePage DEF ServerAddrUpdated
<1>8. CASE Saved(s)
  BY <1>1, <1>8, ThenPage DEF Saved, Kinds
<1>9. CASE ConnectionsAnswered(s)
  BY <1>1, <1>9, DonePage DEF ConnectionsAnswered
<1>10. CASE SessionsAnswered(s)
  BY <1>1, <1>10, DonePage DEF SessionsAnswered
<1>11. CASE ServerTrackerAnswered(s) \/ ClientTrackerAnswered(s)
  BY <1>1, <1>11, DonePage DEF ServerTrackerAnswered, ClientTrackerAnswered, TrackerAnswered
<1>12. CASE TrackerSet(s)
  BY <1>1, <1>12, DonePage, ThenPage DEF TrackerSet
<1>13. CASE ErrorShown(s)
  <2> DEFINE late(t) == Taken(s)[t].late
                        \/ (calls[s].op = "create" /\ t \in InFlight(calls[s].kind, {"list"}))
             d == Taken(s)
  <2>1. /\ calls[s].stage = "failed" /\ UNCHANGED <<up, relayMap, running, halfMade, born, contended, saving>>
        /\ calls' = [t \in Slots |-> [d[t] EXCEPT !.late = late(t)]]
    BY <1>13 DEF ErrorShown
  <2>2. /\ \A t \in Slots : IsCall(d[t])
        /\ \A t \in Slots \ {s} :
               /\ d[t].op = calls[t].op /\ d[t].kind = calls[t].kind
               /\ d[t].id = calls[t].id /\ d[t].stage = calls[t].stage
               /\ d[t].inst = calls[t].inst /\ d[t].got = calls[t].got
        /\ d[s].stage = "none" /\ d[s].inst = 0
    BY <1>1, TakenCalls, NothingIsCall
  <2> HIDE DEF d, late
  <2>3. ASSUME NEW t \in Slots
        PROVE  /\ IsCall(calls'[t])
               /\ calls'[t].op = d[t].op /\ calls'[t].kind = d[t].kind
               /\ calls'[t].id = d[t].id /\ calls'[t].stage = d[t].stage
               /\ calls'[t].inst = d[t].inst /\ calls'[t].got = d[t].got
    <3>1. calls'[t] = [d[t] EXCEPT !.late = late(t)]
      BY <2>1
    <3> DEFINE c == d[t]
    <3>2. IsCall(c)
      BY <2>2
    <3> HIDE DEF c
    <3>3. calls'[t] = [op |-> c.op, kind |-> c.kind, id |-> c.id, data |-> c.data,
                       stage |-> c.stage, inst |-> c.inst, got |-> c.got,
                       earlier |-> c.earlier, late |-> late(t)]
      BY <3>1, <3>2 DEF IsCall, c
    <3>4. c.kind \in Kinds
      BY <3>2 DEF IsCall
    <3>5. late(t) \in BOOLEAN
      BY <2>2 DEF IsCall, late
    <3> QED
      BY <3>3, <3>4, <3>5 DEF IsCall, c
  <2>4. Shape'
    BY <2>1, <2>3, <1>1 DEF Shape
  <2>5. \A t \in Slots \ {s} : Same(t)
    BY <2>2, <2>3 DEF Same
  <2>6. calls'[s].stage = "none" /\ calls'[s].inst = 0
    BY <2>2, <2>3
  <2> QED
    BY <2>1, <2>4, <2>5, <2>6 DEF Page, Idle
<1> QED
  BY <1>2, <1>3, <1>4, <1>5, <1>6, <1>7, <1>8, <1>9, <1>10, <1>11, <1>12, <1>13 DEF Callback

(* Every click is a step of the page.                                       *)
LEMMA ClickPage == IInv /\ ((\E k \in Kinds : Click(k)) \/ Buttons) => Page
<1> SUFFICES ASSUME IInv, (\E k \in Kinds : Click(k)) \/ Buttons PROVE Page
  OBVIOUS
<1>1. Shape
  BY DEF IInv, MapInv
<1>2. ASSUME UNCHANGED calls, Quiet PROVE Page
  BY <1>1, <1>2 DEF Quiet, instances, saving, Page, Shape, Same
<1>3. ASSUME NEW k \in Kinds, Click(k) PROVE Page
  <2>1. CASE ClickList(k)
    BY <1>1, <2>1, AjaxPage DEF ClickList
  <2>2. CASE ShowCreate(k)
    BY <1>2, <2>2 DEF ShowCreate
  <2>3. CASE CreateByLink(k)
    BY <1>2, <2>3 DEF CreateByLink
  <2>4. CASE Delete(k)
    BY <1>1, <2>4, AjaxPage DEF Delete
  <2>5. CASE ClickConnections(k)
    BY <1>1, <2>5, AjaxPage DEF ClickConnections
  <2>6. CASE ClickSessions(k)
    BY <1>1, <2>6, AjaxPage DEF ClickSessions
  <2>7. CASE ClickTracker(k)
    BY <1>1, <2>7, AjaxPage DEF ClickTracker
  <2>8. CASE ClickSetTracker(k)
    BY <1>1, <2>8, AjaxPage DEF ClickSetTracker
  <2>9. CASE \E id \in Ids : Show(k, id)
    BY <1>2, <2>9 DEF Show
  <2>10. ASSUME NEW id, NEW config, Create(k, id, config) PROVE Page
    BY <1>1, <2>10, AjaxPage DEF Create
  <2> QED
    BY <1>3, <2>1, <2>2, <2>3, <2>4, <2>5, <2>6, <2>7, <2>8, <2>9, <2>10 DEF Click
<1>4. CASE CloseModal
  BY <1>2, <1>4 DEF CloseModal
<1>5. CASE Connect
  BY <1>1, <1>5, AjaxPage DEF Connect, Kinds
<1>6. CASE Restart
  BY <1>1, <1>6, AjaxPage DEF Restart, Kinds
<1>7. CASE UpdateServerAddr
  BY <1>1, <1>7, AjaxPage DEF UpdateServerAddr, Kinds
<1>8. CASE SaveConfig
  BY <1>1, <1>8, AjaxPage DEF SaveConfig, Kinds
<1> QED
  BY <1>3, <1>4, <1>5, <1>6, <1>7, <1>8 DEF Buttons

-----------------------------------------------------------------------------
(* The other handlers.                                                      *)

(* One that ends, or one that saves, touches no instance.                   *)
LEMMA MovesAside ==
    ASSUME MapInv, NEW s \in Slots, NEW stage, stage \notin Busy, calls[s].stage \notin Busy,
           up \/ stage \in Idle, Calls(s, calls[s].id, stage, calls[s].inst),
           UNCHANGED <<up, relayMap, running, halfMade, born, contended>>
    PROVE  MapInv'
<1>1. Shape'
  BY DEF Calls, MapInv, Shape
<1>2. \A t \in Slots : Same(t) \/ Aside(t)
  BY DEF Calls, Same, Aside
<1> QED
  BY <1>1, <1>2, PassingKeeps DEF Passing

(* A handler that does not save leaves what is written alone.               *)
LEMMA OneMoves ==
    ASSUME IInv, NEW s \in Slots, UNCHANGED file, born' \in Nat, born <= born',
           \A t \in Slots \ {s} : calls'[t] = calls[t],
           calls'[s].op # "save" \/ calls'[s].stage \notin Reading
    PROVE  FileInv'
<1>1. \A t \in Slots : calls'[t].op = "save" /\ calls'[t].stage \in Reading =>
          /\ calls[t].op = "save" /\ calls[t].stage \in Reading
          /\ calls'[t].got = calls[t].got
  OBVIOUS
<1>2. born \in Nat
  BY DEF IInv, MapInv, Shape
<1> QED
  BY <1>1, <1>2, FileKept DEF IInv

(* The answer of a handler that touches no instance.                        *)
LEMMA AnsweredKeeps ==
    ASSUME IInv, NEW s \in Slots, calls[s].stage \in {"sent", "servers"},
           Fail(s) \/ \E got : Answer(s, got),
           UNCHANGED <<up, relayMap, running, halfMade, born, contended, file>>
    PROVE  IInv'
<1>1. PICK stage \in {"ok", "failed"} : Calls(s, calls[s].id, stage, calls[s].inst)
  BY ToStage, ToAnswer DEF Fail, IInv, MapInv
<1>2. MapInv'
  BY <1>1, MovesAside DEF IInv, Busy, Idle
<1>3. FileInv'
  <2>1. /\ \A t \in Slots \ {s} : calls'[t] = calls[t]
        /\ calls'[s].stage \notin Reading
    BY <1>1 DEF Calls, Reading
  <2>2. born' \in Nat /\ born <= born'
    BY DEF IInv, MapInv, Shape
  <2> QED
    BY <2>1, <2>2, OneMoves
<1> QED
  BY <1>2, <1>3 DEF IInv

(* The handlers that create and delete instances leave the file alone.      *)
LEMMA CreateKeepsFile ==
    ASSUME IInv, NEW s \in Slots, (\E id \in Ids : Make(s, id)) \/ MakeHalf(s) \/ Register(s)
    PROVE  FileInv'
<1>1. born \in Nat /\ Shape
  BY DEF IInv, MapInv, Shape
<1>4. CASE MakeHalf(s)
  <2>1. /\ \A t \in Slots \ {s} : calls'[t] = calls[t]
        /\ calls'[s].op = "create" /\ UNCHANGED file /\ born' = born + 1
    BY <1>1, <1>4, ToStage DEF MakeHalf, Fail, At, saving, Calls
  <2> QED
    BY <1>1, <2>1, OneMoves
<1>2. ASSUME NEW id, Make(s, id) PROVE FileInv'
  <2>1. /\ \A t \in Slots \ {s} : calls'[t] = calls[t]
        /\ calls'[s].op = "create" /\ UNCHANGED file /\ born' = born + 1
    BY <1>1, <1>2, ToMade DEF Make, At, saving, Calls
  <2> QED
    BY <1>1, <2>1, OneMoves
<1>3. CASE Register(s)
  <2>1. /\ \A t \in Slots \ {s} : calls'[t] = calls[t]
        /\ calls'[s].op = "create" /\ UNCHANGED <<file, born>>
    BY <1>1, <1>3, ToStage, ToAnswer DEF Register, Fail, At, saving, Calls
  <2> QED
    BY <1>1, <2>1, OneMoves
<1> QED
  BY <1>2, <1>3, <1>4

(* Deletions do not save.                                                   *)
LEMMA DeleteKeepsFile ==
    ASSUME IInv, NEW s \in Slots, NEW stage, Find(s) \/ Close(s, stage) \/ Remove(s, stage)
    PROVE  FileInv'
<1>1. born \in Nat /\ Shape
  BY DEF IInv, MapInv, Shape
<1>2. /\ \A t \in Slots \ {s} : calls'[t] = calls[t]
      /\ calls'[s].op = "delete" /\ UNCHANGED <<file, born>>
  <2>1. CASE Find(s)
    BY <1>1, <2>1, ToStage, ToFound DEF Find, Fail, At, instances, saving, Calls
  <2>2. CASE Close(s, stage)
    BY <1>1, <2>2, ToStage, ToAnswer DEF Close, Fail, At, instances, saving, Calls
  <2>3. CASE Remove(s, stage)
    BY <1>1, <2>3, ToStage, ToAnswer DEF Remove, Fail, At, instances, saving, Calls
  <2> QED
    BY <2>1, <2>2, <2>3
<1> QED
  BY <1>1, <1>2, OneMoves

(* The delete handlers keep the invariant.                                  *)
LEMMA DeleteKeeps ==
    ASSUME IInv, NEW s \in Slots, DeleteServer(s) \/ DeleteClient(s)
    PROVE  IInv'
<1>1. MapInv'
  BY FindKeeps, CloseServerKeeps, CloseClientKeeps, RemoveServerKeeps, RemoveClientKeeps
  DEF DeleteServer, DeleteClient, IInv
<1>2. FileInv'
  BY DeleteKeepsFile DEF DeleteServer, DeleteClient
<1> QED
  BY <1>1, <1>2 DEF IInv

(* What is read for the file names an instance once.                        *)
LEMMA EntriesRead ==
    ASSUME MapInv, NEW k \in Kinds
    PROVE  EntriesOK(Entries(k))
BY DEF MapInv, Numbered, Injective, Registered, EntriesOK, Entries, Entry

(* A save reads the maps, whose instances were made.                        *)
LEMMA SaveKeeps ==
    ASSUME IInv, NEW s \in Slots, Save(s)
    PROVE  IInv'
<1>1. born \in Nat /\ Shape /\ MapInv /\ FileInv
  BY DEF IInv, MapInv, Shape
<1> USE DEF At, instances, saving
<1>2. CASE ReadClients(s)
  <2> DEFINE got == [client |-> Entries("client"), server |-> <<>>,
                     before |-> [k \in Kinds |-> Entries(k)]]
  <2>1. /\ up /\ calls[s].stage = "sent" /\ Calls(s, calls[s].id, "clients", calls[s].inst)
        /\ calls'[s].got = got
        /\ UNCHANGED <<up, relayMap, running, halfMade, born, contended, file>>
    <3>1. /\ calls' = [calls EXCEPT ![s].stage = "clients", ![s].got = got]
          /\ up /\ calls[s].stage = "sent"
          /\ UNCHANGED <<up, relayMap, running, halfMade, born, contended, file>>
      BY <1>2 DEF ReadClients
    <3> HIDE DEF got
    <3> QED
      BY <1>1, <3>1, ToStageGot
  <2>2. MapInv'
    <3>1. /\ Calls(s, calls[s].id, "clients", calls[s].inst) /\ up /\ calls[s].stage \notin Busy
          /\ UNCHANGED <<up, relayMap, running, halfMade, born, contended>>
      BY <2>1 DEF Busy
    <3>2. "clients" \notin Busy
      BY DEF Busy
    <3> HIDE DEF got
    <3> QED
      BY <1>1, <3>1, <3>2, MovesAside
  <2>3. EntriesOK(got.client) /\ EntriesOK(got.server)
    <3>1. EntriesOK(Entries("client"))
      BY <1>1, EntriesRead DEF Kinds
    <3> QED
      BY <3>1 DEF EntriesOK
  <2>4. got = [client |-> got.client, server |-> got.server, before |-> got.before]
    OBVIOUS
  <2> HIDE DEF got
  <2>5. FileInv'
    BY <1>1, <2>1, <2>3, <2>4 DEF FileInv, EntriesOK, Calls
  <2> QED
    BY <2>2, <2>5 DEF IInv
<1>3. CASE ReadServers(s)
  <2> DEFINE got == [calls[s].got EXCEPT !.server = Entries("server")]
  <2>1. /\ up /\ calls[s].stage = "clients" /\ calls[s].op = "save"
        /\ Calls(s, calls[s].id, "servers", calls[s].inst) /\ calls'[s].got = got
        /\ UNCHANGED <<up, relayMap, running, halfMade, born, contended, file>>
    BY <1>1, <1>3, ToStageGot DEF ReadServers
  <2>2. MapInv'
    BY <1>1, <2>1, MovesAside DEF Busy
  <2>3. EntriesOK(Entries("server"))
    BY <1>1, EntriesRead DEF Kinds
  <2>4. got = [client |-> calls[s].got.client, server |-> Entries("server"),
               before |-> calls[s].got.before]
        /\ EntriesOK(calls[s].got.client)
    BY <1>1, <2>1 DEF FileInv, Reading
  <2> HIDE DEF got
  <2>5. /\ got = [client |-> got.client, server |-> got.server, before |-> got.before]
        /\ EntriesOK(got.client) /\ EntriesOK(got.server)
    BY <2>3, <2>4
  <2>6. FileInv'
    BY <1>1, <2>1, <2>5 DEF FileInv, EntriesOK, Calls
  <2> QED
    BY <2>2, <2>6 DEF IInv
<1>4. CASE Truncate(s)
  <2>1. /\ up /\ calls[s].stage = "servers" /\ calls[s].op = "save"
        /\ Calls(s, calls[s].id, "open", calls[s].inst) /\ calls'[s].got = calls[s].got
        /\ UNCHANGED <<up, relayMap, running, halfMade, born, contended>> /\ file' = Unreadable
    BY <1>1, <1>4, ToStage DEF Truncate
  <2>2. MapInv'
    BY <1>1, <2>1, MovesAside DEF Busy
  <2>3. \A k \in Kinds : DOMAIN file'[k] = {}
    BY <2>1 DEF Unreadable
  <2>4. FileInv'
    BY <1>1, <2>1, <2>3 DEF FileInv, EntriesOK, Calls, Reading
  <2> QED
    BY <2>2, <2>4 DEF IInv
<1>6. CASE OpenFails(s)
  BY <1>6, AnsweredKeeps DEF OpenFails
<1>5. CASE Write(s) \/ WriteFails(s)
  <2>1. PICK stage \in {"ok", "failed"} :
            /\ up /\ calls[s].stage = "open" /\ calls[s].op = "save"
            /\ Calls(s, calls[s].id, stage, calls[s].inst)
            /\ UNCHANGED <<up, relayMap, running, halfMade, born, contended>>
            /\ file' \in {file, Unreadable, [k \in Kinds |-> calls[s].got[k]]}
    <3>1. CASE Write(s)
      <4>1. /\ up /\ calls[s].stage = "open" /\ calls[s].op = "save" /\ Answer(s, <<>>)
            /\ UNCHANGED <<up, relayMap, running, halfMade, born, contended>>
            /\ file' \in {file, Unreadable, [k \in Kinds |-> calls[s].got[k]]}
        BY <3>1 DEF Write, Text
      <4> QED
        BY <1>1, <4>1, ToAnswer
    <3>2. CASE WriteFails(s)
      <4>1. /\ up /\ calls[s].stage = "open" /\ calls[s].op = "save" /\ Fail(s)
            /\ UNCHANGED <<up, relayMap, running, halfMade, born, contended>>
            /\ file' \in {file, Unreadable, [k \in Kinds |-> calls[s].got[k]]}
        BY <3>2 DEF WriteFails, Text
      <4> QED
        BY <1>1, <4>1, ToStage DEF Fail
    <3> QED
      BY <1>5, <3>1, <3>2
  <2>2. MapInv'
    <3>1. /\ Calls(s, calls[s].id, stage, calls[s].inst) /\ up /\ calls[s].stage \notin Busy
          /\ UNCHANGED <<up, relayMap, running, halfMade, born, contended>>
      BY <2>1 DEF Busy
    <3> QED
      BY <1>1, <3>1, MovesAside DEF Busy
  <2>3. \A k \in Kinds : EntriesOK(file'[k])
    <3>1. CASE file' = Unreadable
      BY <3>1 DEF Unreadable, EntriesOK
    <3>2. CASE file' = [k \in Kinds |-> calls[s].got[k]]
      BY <1>1, <2>1, <3>2 DEF FileInv, Reading, Kinds
    <3>3. CASE file' = file
      BY <1>1, <3>3, <2>1 DEF FileInv, EntriesOK
    <3> QED
      BY <2>1, <3>1, <3>2, <3>3
  <2>4. FileInv'
    BY <1>1, <2>1, <2>3 DEF FileInv, EntriesOK, Calls, Reading
  <2> QED
    BY <2>2, <2>4 DEF IInv
<1> QED
  BY <1>2, <1>3, <1>4, <1>5, <1>6 DEF Save

(* Every handler keeps it,                                                  *)
LEMMA HandleKeeps == IInv /\ (\E s \in Slots : Handle(s)) => IInv'
<1> SUFFICES ASSUME IInv, NEW s \in Slots, Handle(s) PROVE IInv'
  OBVIOUS
<1> USE DEF At, instances, saving
<1>1. CASE CreateRefused(s)
  BY <1>1, AnsweredKeeps DEF CreateRefused
<1>2. CASE (\E id \in Ids : Make(s, id)) \/ MakeHalf(s) \/ Register(s)
  BY <1>2, MakeKeeps, MakeHalfKeeps, RegisterKeeps, CreateKeepsFile DEF IInv
<1>3. CASE DeleteServer(s) \/ DeleteClient(s)
  BY <1>3, DeleteKeeps
<1>4. CASE List(s)
  BY <1>4, AnsweredKeeps DEF List
<1>5. CASE \E op \in Queries : Query(s, op)
  BY <1>5, AnsweredKeeps DEF Query
<1>6. CASE SetTracker(s)
  BY <1>6, AnsweredKeeps DEF SetTracker
<1>7. CASE Save(s)
  BY <1>7, SaveKeeps
<1>8. CASE Unreachable(s)
  BY <1>8, AnsweredKeeps DEF Unreachable
<1> QED
  BY <1>1, <1>2, <1>3, <1>4, <1>5, <1>6, <1>7, <1>8 DEF Handle

(* so do crashes and starts,                                                *)
LEMMA ProcessKeeps == IInv /\ Process => IInv'
<1> SUFFICES ASSUME IInv, Process PROVE IInv'
  OBVIOUS
<1>1. born \in Nat
  BY DEF IInv, MapInv, Shape
<1>2. CASE Crash
  <2>1. /\ UNCHANGED <<file, born>>
        /\ \A t \in Slots : calls'[t].op = "save" => calls'[t].stage \notin Reading
    <3> SUFFICES ASSUME NEW t \in Slots PROVE calls'[t].stage \notin Reading
      BY <1>2 DEF Crash, saving
    <3>1. CASE calls[t].stage = "none"
      BY <1>2, <3>1 DEF Crash, Reading
    <3>2. CASE calls[t].stage # "none"
      <4> DEFINE stage == IF calls[t].stage = "ok" THEN "ok" ELSE "failed"
      <4>1. calls'[t] = [calls[t] EXCEPT !.late = TRUE, !.stage = stage]
        BY <1>2, <3>2 DEF Crash
      <4>2. calls'[t].stage = stage
        BY <4>1 DEF IInv, MapInv, Shape, IsCall
      <4> QED
        BY <4>2 DEF Reading
    <3> QED
      BY <3>1, <3>2
  <2>2. FileInv'
    BY <1>1, <2>1, FileKept DEF IInv
  <2> QED
    BY <1>2, <2>2, CrashKeeps DEF IInv
<1>3. ASSUME NEW loaded \in [Kinds -> SUBSET Ids], Start(loaded) PROVE IInv'
  <2>1. UNCHANGED <<file, born, calls>>
    BY <1>3 DEF Start, saving
  <2>2. FileInv'
    BY <1>1, <2>1, FileKept DEF IInv
  <2> QED
    BY <1>3, <2>2, StartKeeps DEF IInv
<1> QED
  BY <1>2, <1>3 DEF Process

-----------------------------------------------------------------------------
(* A situation's file starts the program.                                   *)

LEMMA InitIInv == Init => IInv
<1> SUFFICES ASSUME Init PROVE IInv
  OBVIOUS
<1>1. /\ file = situation.file /\ situation \in Situations
      /\ relayMap = [k \in Kinds |-> [id \in DOMAIN file[k] |-> file[k][id].inst]]
      /\ running = [k \in Kinds |-> {file[k][id].inst : id \in DOMAIN file[k]}]
      /\ born = Cardinality(UNION {running[k] : k \in Kinds})
      /\ up = TRUE /\ contended = [k \in Kinds |-> FALSE]
  BY DEF Init
<1>2. PICK r \in Slots :
          calls = [t \in Slots |-> IF t = r THEN Request("list", "client", 0, NoConfig, {})
                                    ELSE Nothing]
  BY DEF Init
<1>3. /\ calls = [t \in Slots |-> calls[t]]
      /\ \A t \in Slots : /\ IsCall(calls[t]) /\ calls[t].inst = 0
                          /\ calls[t].stage \in {"none", "sent"}
  BY <1>2, RequestIsCall, NothingIsCall DEF Kinds
<1>4. PICK n \in 0..MaxBorn :
          UNION {{file[k][id].inst : id \in DOMAIN file[k]} : k \in Kinds} = 1..n
  BY <1>1, SituationsAssumption
<1>5. UNION {running[k] : k \in Kinds} = 1..n
  BY <1>1, <1>4
<1>6. born = n /\ n \in Nat
  <2>1. n \in Nat
    BY BoundsAssumption
  <2>2. Cardinality(1..n) = n
    BY <2>1, FS_Interval
  <2> QED
    BY <1>1, <1>5, <2>1, <2>2
<1>7. ASSUME NEW k \in Kinds
      PROVE  /\ running[k] = Registered(k) /\ running[k] \subseteq 1..born
             /\ \A id \in DOMAIN file[k] : file[k][id].inst \in 1..born
  <2>1. /\ relayMap[k] = [id \in DOMAIN file[k] |-> file[k][id].inst]
        /\ running[k] = {file[k][id].inst : id \in DOMAIN file[k]}
    BY <1>1
  <2>2. running[k] = Registered(k)
    BY <2>1 DEF Registered
  <2>3. running[k] \subseteq 1..born
    BY <1>5, <1>6
  <2> QED
    BY <2>1, <2>2, <2>3
<1>8. \A k \in Kinds : EntriesOK(file[k])
  <2> SUFFICES ASSUME NEW k \in Kinds PROVE EntriesOK(file[k])
    OBVIOUS
  <2>1. \A i, j \in DOMAIN file[k] : file[k][i].inst = file[k][j].inst => i = j
    BY <1>1, SituationsAssumption
  <2> QED
    BY <1>7, <2>1 DEF EntriesOK
<1>9. FileInv
  BY <1>3, <1>8 DEF FileInv, Reading
<1>10. Shape /\ DownIdle
  <2>1. running \in [Kinds -> SUBSET Nat]
    <3>1. \A k \in Kinds : running[k] \in SUBSET Nat
      BY <1>6, <1>7
    <3> QED
      BY <1>1, <3>1
  <2> QED
    BY <1>1, <1>3, <1>6, <2>1 DEF Shape, DownIdle
<1>11. Numbered
  <2>1. \A k \in Kinds : running[k] \union Registered(k) \subseteq 1..born
    BY <1>7
  <2> QED
    BY <1>3, <1>6, <2>1 DEF Numbered, Busy
<1>12. Injective
  BY <1>1, <1>8 DEF Injective, EntriesOK
<1>13. MadeInv /\ ServerInv /\ ClientInv /\ StagesInv
  BY <1>3 DEF MadeInv, ServerInv, ClientInv, StagesInv, At2
<1>15. halfMade = {}
  BY DEF Init
<1>14. RegistryMatchesRunning
  <2> SUFFICES ASSUME NEW k \in Kinds
               PROVE  running[k] \union Held("delete", "closed", k) =
                          Registered(k) \union Held("create", "made", k)
                          \union Held("delete", "removed", k) \union HalfMade(k)
    BY DEF RegistryMatchesRunning
  <2>1. /\ Held("delete", "closed", k) = {} /\ Held("create", "made", k) = {}
        /\ Held("delete", "removed", k) = {}
    BY <1>3 DEF Held
  <2>2. HalfMade(k) = {}
    BY <1>15 DEF HalfMade
  <2> QED
    BY <1>7, <2>1, <2>2
<1> QED
  BY <1>9, <1>10, <1>11, <1>12, <1>13, <1>14, <1>15 DEF IInv, MapInv, HalfInv

(* and so does every step.                                                  *)
LEMMA NextIInv == IInv /\ [Next]_vars => IInv'
<1> SUFFICES ASSUME IInv, [Next]_vars PROVE IInv'
  OBVIOUS
<1>1. CASE UNCHANGED vars
  <2>1. Page
    BY <1>1 DEF vars, registryVars, instances, saving, Page, Same, IInv, MapInv, Shape
  <2> QED
    BY <2>1, PageKeeps
<1>2. CASE Next
  BY <1>2, HandleKeeps, PageKeeps, CallbackPage, ClickPage, ProcessKeeps DEF Next
<1> QED
  BY <1>1, <1>2

(* What has a socket open can be managed and what is listed has one, except *)
(* what a handler has in hand and the first socket of a client whose        *)
(* creation failed at the second: unless two requests of a kind worked on   *)
(* one id at once, no other socket is left open that no handler can find    *)
(* (controller.go, utils.go, acvanced_relay_client.go).                     *)
THEOREM SpecRegistryMatchesRunning == Spec => []RegistryMatchesRunning
<1>1. Init => IInv
  BY InitIInv
<1>2. IInv /\ [Next]_vars => IInv'
  BY NextIInv
<1>3. IInv => RegistryMatchesRunning
  BY DEF IInv, MapInv
<1> QED
  BY <1>1, <1>2, <1>3, PTL DEF Spec

-----------------------------------------------------------------------------
Writing(s) == calls[s].op = "save" /\ calls[s].stage \in Reading

(* Two saves are under way at once only when they overlap.                  *)
OneWrites == ~overlapped => \A s, t \in Slots : Writing(s) /\ Writing(t) => s = t

(* The one that has the file open found it empty.                           *)
Emptied ==
    ~overlapped => \A s \in Slots :
        Writing(s) /\ calls[s].stage = "open" => file = Unreadable /\ torn

(* What was there when the save began does not come back once it is gone: a *)
(* new instance is another one.                                             *)
BeforeInv ==
    \A s \in Slots : Writing(s) =>
        \A k \in Kinds : \A id \in DOMAIN calls[s].got.before[k] :
            /\ calls[s].got.before[k][id].inst \in 1..born
            /\ \A t \in Slots : At2(t, "create", "made", k) =>
                   calls[t].inst # calls[s].got.before[k][id].inst

Still(s, k, id) ==
    /\ id \in DOMAIN relayMap[k]
    /\ relayMap[k][id] = calls[s].got.before[k][id].inst

(* What is still there has been read for the file.                          *)
ReadInv ==
    \A s \in Slots : Writing(s) =>
        \A k \in Kinds : k = "client" \/ calls[s].stage \in {"servers", "open"} =>
            \A id \in DOMAIN calls[s].got.before[k] : Still(s, k, id) =>
                /\ id \in DOMAIN calls[s].got[k]
                /\ calls[s].got[k][id].inst = calls[s].got.before[k][id].inst

SavedInv == OneWrites /\ Emptied /\ BeforeInv /\ ReadInv /\ FileHoldsSaved

-----------------------------------------------------------------------------
(* Steps that read and write nothing for the file.                          *)

LEMMA SavedKept ==
    ASSUME IInv, SavedInv, UNCHANGED <<file, torn, kept>>, overlapped => overlapped',
           born' \in Nat, born <= born',
           \A t \in Slots : calls'[t].op = "save" /\ calls'[t].stage \in Reading =>
               /\ Writing(t) /\ calls'[t].stage = calls[t].stage
               /\ calls'[t].got = calls[t].got,
           \A t \in Slots, k \in Kinds :
               calls'[t].op = "create" /\ calls'[t].stage = "made" /\ calls'[t].kind = k =>
                   \/ calls'[t].inst > born
                   \/ At2(t, "create", "made", k) /\ calls'[t].inst = calls[t].inst,
           (\E t \in Slots : calls'[t].op = "save" /\ calls'[t].stage \in Reading) =>
               \A k \in Kinds : \A id \in DOMAIN relayMap'[k] :
                   \/ id \in DOMAIN relayMap[k] /\ relayMap'[k][id] = relayMap[k][id]
                   \/ \E t \in Slots : /\ At2(t, "create", "made", k)
                                       /\ relayMap'[k][id] = calls[t].inst
    PROVE  SavedInv'
<1>1. OneWrites'
  BY DEF SavedInv, OneWrites, Writing
<1>2. Emptied'
  BY DEF SavedInv, Emptied, Writing
<1>3. ASSUME NEW s \in Slots, calls'[s].op = "save", calls'[s].stage \in Reading
      PROVE  /\ Writing(s) /\ calls'[s].stage = calls[s].stage
             /\ calls'[s].got = calls[s].got
  BY <1>3
<1>4. BeforeInv'
  <2> SUFFICES ASSUME NEW s \in Slots, calls'[s].op = "save", calls'[s].stage \in Reading,
                      NEW k \in Kinds, NEW id \in DOMAIN calls'[s].got.before[k]
               PROVE  /\ calls'[s].got.before[k][id].inst \in 1..born'
                      /\ \A t \in Slots :
                             calls'[t].op = "create" /\ calls'[t].stage = "made"
                             /\ calls'[t].kind = k
                             => calls'[t].inst # calls'[s].got.before[k][id].inst
    BY DEF BeforeInv, Writing, At2
  <2>1. Writing(s) /\ calls'[s].got = calls[s].got
    BY <1>3
  <2>2. /\ calls[s].got.before[k][id].inst \in 1..born
        /\ \A t \in Slots : At2(t, "create", "made", k) =>
               calls[t].inst # calls[s].got.before[k][id].inst
    BY <2>1 DEF SavedInv, BeforeInv
  <2>3. born \in Nat
    BY DEF IInv, MapInv, Shape
  <2> QED
    BY <2>1, <2>2, <2>3
<1>5. ReadInv'
  <2> SUFFICES ASSUME NEW s \in Slots, calls'[s].op = "save", calls'[s].stage \in Reading,
                      NEW k \in Kinds, k = "client" \/ calls'[s].stage \in {"servers", "open"},
                      NEW id \in DOMAIN calls'[s].got.before[k],
                      id \in DOMAIN relayMap'[k],
                      relayMap'[k][id] = calls'[s].got.before[k][id].inst
               PROVE  /\ id \in DOMAIN calls'[s].got[k]
                      /\ calls'[s].got[k][id].inst = calls'[s].got.before[k][id].inst
    BY DEF ReadInv, Writing, Still
  <2>1. Writing(s) /\ calls'[s].got = calls[s].got /\ calls'[s].stage = calls[s].stage
    BY <1>3
  <2>2. \A t \in Slots : At2(t, "create", "made", k) =>
            calls[t].inst # calls[s].got.before[k][id].inst
    BY <2>1 DEF SavedInv, BeforeInv
  <2>3. id \in DOMAIN relayMap[k] /\ relayMap'[k][id] = relayMap[k][id]
    BY <2>1, <2>2
  <2>4. Still(s, k, id)
    BY <2>1, <2>3 DEF Still
  <2> QED
    BY <2>1, <2>4 DEF SavedInv, ReadInv
<1>6. FileHoldsSaved'
  BY DEF SavedInv, FileHoldsSaved
<1> QED
  BY <1>1, <1>2, <1>4, <1>5, <1>6 DEF SavedInv

(* What the page does.                                                      *)
LEMMA PageSaved == IInv /\ SavedInv /\ Page => SavedInv'
<1> SUFFICES ASSUME IInv, SavedInv, Page PROVE SavedInv'
  OBVIOUS
<1>1. born \in Nat /\ UNCHANGED <<file, torn, kept, overlapped, born, relayMap>>
  BY DEF Page, saving, IInv, MapInv, Shape
<1>2. \A t \in Slots :
          \/ /\ calls'[t].op = calls[t].op /\ calls'[t].kind = calls[t].kind
             /\ calls'[t].stage = calls[t].stage /\ calls'[t].inst = calls[t].inst
             /\ calls'[t].got = calls[t].got
          \/ calls[t].stage \in Idle /\ calls'[t].stage \in Idle
  BY DEF Page, Same
<1> QED
  BY <1>1, <1>2, SavedKept DEF Writing, At2, Idle, Reading

(* A handler that does not save.                                            *)
LEMMA OneSaved ==
    ASSUME IInv, SavedInv, NEW s \in Slots, UNCHANGED <<file, torn, kept, overlapped>>,
           born' \in Nat, born <= born',
           \A t \in Slots \ {s} : calls'[t] = calls[t],
           calls[s].op # "save" \/ calls[s].stage \notin Reading,
           calls'[s].op # "save" \/ calls'[s].stage \notin Reading,
           calls'[s].op # "create" \/ calls'[s].stage # "made" \/ calls'[s].inst > born,
           \A k \in Kinds : \A id \in DOMAIN relayMap'[k] :
               \/ id \in DOMAIN relayMap[k] /\ relayMap'[k][id] = relayMap[k][id]
               \/ At2(s, "create", "made", k) /\ relayMap'[k][id] = calls[s].inst
    PROVE  SavedInv'
BY SavedKept DEF Writing, At2, Reading

(* A handler that only answers.                                             *)
LEMMA AnsweredSaved ==
    ASSUME IInv, SavedInv, NEW s \in Slots, calls[s].stage = "sent",
           Fail(s) \/ \E got : Answer(s, got),
           UNCHANGED <<up, relayMap, running, halfMade, born, contended, file, torn, kept, overlapped>>
    PROVE  SavedInv'
<1>1. PICK stage \in {"ok", "failed"} : Calls(s, calls[s].id, stage, calls[s].inst)
  BY ToStage, ToAnswer DEF Fail, IInv, MapInv
<1>2. /\ \A t \in Slots \ {s} : calls'[t] = calls[t]
      /\ calls'[s].stage \in {"ok", "failed"}
  BY <1>1 DEF Calls
<1>3. born' \in Nat /\ born <= born'
  BY DEF IInv, MapInv, Shape
<1> QED
  BY <1>2, <1>3, OneSaved DEF Reading

(* A new instance is none of those there before.                            *)
LEMMA CreateSaved ==
    ASSUME IInv, SavedInv, NEW s \in Slots,
           (\E id \in Ids : Make(s, id)) \/ MakeHalf(s) \/ Register(s)
    PROVE  SavedInv'
<1>1. born \in Nat /\ Shape
  BY DEF IInv, MapInv, Shape
<1>4. CASE MakeHalf(s)
  <2>1. /\ \A t \in Slots \ {s} : calls'[t] = calls[t]
        /\ calls[s].op = "create" /\ calls'[s].op = "create" /\ calls'[s].stage = "failed"
        /\ UNCHANGED <<file, torn, kept, overlapped, relayMap>> /\ born' = born + 1
    BY <1>1, <1>4, ToStage DEF MakeHalf, Fail, At, saving, Calls
  <2>2. \A k \in Kinds : \A i \in DOMAIN relayMap'[k] :
            i \in DOMAIN relayMap[k] /\ relayMap'[k][i] = relayMap[k][i]
    BY <2>1
  <2>3. born' \in Nat /\ born <= born'
    BY <1>1, <2>1
  <2> QED
    BY <2>1, <2>2, <2>3, OneSaved
<1>2. ASSUME NEW id, Make(s, id) PROVE SavedInv'
  <2>1. /\ \A t \in Slots \ {s} : calls'[t] = calls[t]
        /\ calls[s].op = "create" /\ calls'[s].op = "create" /\ calls'[s].inst = born + 1
        /\ UNCHANGED <<file, torn, kept, overlapped, relayMap>> /\ born' = born + 1
    <3>1. /\ calls' = [calls EXCEPT ![s].stage = "made", ![s].id = id, ![s].inst = born + 1]
          /\ calls[s].op = "create" /\ calls[s].stage = "sent"
          /\ UNCHANGED <<file, torn, kept, overlapped, relayMap>> /\ born' = born + 1
      BY <1>2 DEF Make, At, saving
    <3>2. Calls(s, id, "made", born + 1)
      BY <1>1, <3>1, ToMade
    <3> QED
      BY <3>1, <3>2 DEF Calls
  <2>2. \A k \in Kinds : \A i \in DOMAIN relayMap'[k] :
            i \in DOMAIN relayMap[k] /\ relayMap'[k][i] = relayMap[k][i]
    BY <2>1
  <2>3. born' \in Nat /\ born <= born' /\ born + 1 > born
    BY <1>1, <2>1
  <2> QED
    BY <2>1, <2>2, <2>3, OneSaved
<1>3. CASE Register(s)
  <2> DEFINE k == calls[s].kind
             id == calls[s].id
             inst == calls[s].inst
  <2>1. /\ \A t \in Slots \ {s} : calls'[t] = calls[t]
        /\ calls'[s].op = "create" /\ calls'[s].stage \in {"ok", "failed"}
    <3>1. calls[s].op = "create" /\ (Fail(s) \/ Answer(s, <<>>))
      BY <1>3 DEF Register, At
    <3>2. \E stage \in {"ok", "failed"} : Calls(s, calls[s].id, stage, calls[s].inst)
      BY <1>1, <3>1, ToStage, ToAnswer DEF Fail
    <3> QED
      BY <3>1, <3>2 DEF Calls
  <2>2. /\ calls[s].op = "create" /\ calls[s].stage = "made"
        /\ UNCHANGED <<file, torn, kept, overlapped, born>>
        /\ relayMap' = [relayMap EXCEPT ![k] = With(@, id, inst)]
    BY <1>3 DEF Register, At, saving
  <2>3. k \in Kinds /\ k = calls[s].kind /\ inst = calls[s].inst
    BY <1>1 DEF Shape, IsCall
  <2> HIDE DEF k, id, inst
  <2>4. /\ relayMap'[k] = With(relayMap[k], id, inst)
        /\ \A j \in Kinds : j # k => relayMap'[j] = relayMap[j]
    BY <1>1, <2>2, <2>3 DEF Shape
  <2>5. \A j \in Kinds : \A i \in DOMAIN relayMap'[j] :
            \/ i \in DOMAIN relayMap[j] /\ relayMap'[j][i] = relayMap[j][i]
            \/ At2(s, "create", "made", j) /\ relayMap'[j][i] = calls[s].inst
    BY <2>2, <2>3, <2>4 DEF With, At2
  <2> QED
    BY <1>1, <2>1, <2>2, <2>5, OneSaved
<1> QED
  BY <1>2, <1>3, <1>4

(* A deletion brings nothing back.                                          *)
LEMMA DeleteSaved ==
    ASSUME IInv, SavedInv, NEW s \in Slots, NEW stage,
           Find(s) \/ Close(s, stage) \/ Remove(s, stage)
    PROVE  SavedInv'
<1>1. born \in Nat /\ Shape
  BY DEF IInv, MapInv, Shape
<1>2. /\ \A t \in Slots \ {s} : calls'[t] = calls[t]
      /\ calls[s].op = "delete" /\ calls'[s].op = "delete"
      /\ UNCHANGED <<file, torn, kept, overlapped, born>>
  <2>1. CASE Find(s)
    BY <1>1, <2>1, ToStage, ToFound DEF Find, Fail, At, instances, saving, Calls
  <2>2. CASE Close(s, stage)
    BY <1>1, <2>2, ToStage, ToAnswer DEF Close, Fail, At, instances, saving, Calls
  <2>3. CASE Remove(s, stage)
    BY <1>1, <2>3, ToStage, ToAnswer DEF Remove, Fail, At, instances, saving, Calls
  <2> QED
    BY <2>1, <2>2, <2>3
<1>3. \A k \in Kinds : \A id \in DOMAIN relayMap'[k] :
          id \in DOMAIN relayMap[k] /\ relayMap'[k][id] = relayMap[k][id]
  <2>1. CASE Find(s) \/ Close(s, stage)
    BY <2>1 DEF Find, Close, instances
  <2>2. CASE Remove(s, stage)
    BY <1>1, <2>2 DEF Remove, Shape, Without
  <2> QED
    BY <2>1, <2>2
<1> QED
  BY <1>1, <1>2, <1>3, OneSaved

(* A crash leaves the file as it is.                                        *)
LEMMA ProcessSaved == IInv /\ SavedInv /\ Process => SavedInv'
<1> SUFFICES ASSUME IInv, SavedInv, Process PROVE SavedInv'
  OBVIOUS
<1>1. born \in Nat
  BY DEF IInv, MapInv, Shape
<1>2. CASE Crash
  <2>1. UNCHANGED <<file, torn, kept, overlapped, born>>
    BY <1>2 DEF Crash, saving
  <2>2. \A t \in Slots : calls'[t].stage \notin Reading \union {"made"}
    <3> SUFFICES ASSUME NEW t \in Slots PROVE calls'[t].stage \in Idle
      BY DEF Idle, Reading
    <3>1. CASE calls[t].stage = "none"
      BY <1>2, <3>1 DEF Crash, Idle
    <3>2. CASE calls[t].stage # "none"
      <4> DEFINE stage == IF calls[t].stage = "ok" THEN "ok" ELSE "failed"
      <4>1. calls'[t] = [calls[t] EXCEPT !.late = TRUE, !.stage = stage]
        BY <1>2, <3>2 DEF Crash
      <4>2. calls'[t].stage = stage
        BY <4>1 DEF IInv, MapInv, Shape, IsCall
      <4> QED
        BY <4>2 DEF Idle
    <3> QED
      BY <3>1, <3>2
  <2>3. \A t \in Slots : calls'[t].stage \notin Reading /\ calls'[t].stage # "made"
    BY <2>2
  <2>4. ASSUME NEW k \in Kinds PROVE DOMAIN relayMap'[k] = {}
    <3>1. relayMap'[k] = <<>>
      BY <1>2 DEF Crash
    <3> QED
      BY <3>1
  <2>5. /\ UNCHANGED <<file, torn, kept>> /\ (overlapped => overlapped')
        /\ born' \in Nat /\ born <= born'
    BY <1>1, <2>1
  <2> QED
    BY <2>3, <2>4, <2>5, SavedKept
<1>3. ASSUME NEW loaded \in [Kinds -> SUBSET Ids], Start(loaded) PROVE SavedInv'
  <2>1. UNCHANGED <<file, torn, kept, overlapped, born, calls>>
    BY <1>3 DEF Start, saving
  <2>2. \A t \in Slots : calls[t].stage \in Idle
    BY <1>3 DEF Start, IInv, MapInv, DownIdle
  <2>3. \A t \in Slots : calls'[t].stage \notin Reading /\ calls'[t].stage # "made"
    BY <2>1, <2>2 DEF Idle, Reading
  <2> QED
    BY <1>1, <2>1, <2>3, SavedKept
<1> QED
  BY <1>2, <1>3 DEF Process

-----------------------------------------------------------------------------
(* The steps of a save.                                                     *)

LEMMA ReadClientsSaved ==
    ASSUME IInv, SavedInv, NEW s \in Slots, ReadClients(s)
    PROVE  SavedInv'
<1> DEFINE got == [client |-> Entries("client"), server |-> <<>>,
                   before |-> [k \in Kinds |-> Entries(k)]]
<1>1. /\ calls[s].op = "save" /\ calls[s].stage = "sent"
      /\ calls' = [calls EXCEPT ![s].stage = "clients", ![s].got = got]
      /\ overlapped' = (overlapped \/ \E t \in Slots : /\ calls[t].op = "save"
                                                 /\ calls[t].stage \notin Answered \union {"sent"})
      /\ UNCHANGED <<file, torn, kept, relayMap, born>>
  BY DEF ReadClients, At, instances
<1>2. born \in Nat /\ Shape /\ MapInv
  BY DEF IInv, MapInv, Shape
<1>3. /\ got["client"] = Entries("client")
      /\ got.before = [k \in Kinds |-> Entries(k)]
  OBVIOUS
<1> HIDE DEF got
<1>4. /\ \A t \in Slots \ {s} : calls'[t] = calls[t]
      /\ calls'[s].op = "save" /\ calls'[s].stage = "clients" /\ calls'[s].got = got
  BY <1>1, <1>2, ToStageGot DEF Calls
<1>5. ~overlapped' => ~overlapped /\ \A t \in Slots : ~Writing(t)
  BY <1>1 DEF Writing, Reading, Answered
<1>6. OneWrites' /\ Emptied'
  BY <1>1, <1>4, <1>5 DEF OneWrites, Emptied, Writing
<1>7. ASSUME NEW k \in Kinds, NEW id \in DOMAIN Entries(k)
      PROVE  /\ id \in DOMAIN relayMap[k] /\ Entries(k)[id].inst = relayMap[k][id]
             /\ relayMap[k][id] \in 1..born
             /\ \A t \in Slots : At2(t, "create", "made", k) => calls[t].inst # relayMap[k][id]
  <2>1. id \in DOMAIN relayMap[k] /\ Entries(k)[id].inst = relayMap[k][id]
    BY <1>7 DEF Entries, Entry
  <2>2. relayMap[k][id] \in Registered(k)
    BY <2>1 DEF Registered
  <2> QED
    BY <1>2, <2>1, <2>2 DEF MapInv, Numbered, MadeInv
<1>8. BeforeInv'
  <2> SUFFICES ASSUME NEW r \in Slots, calls'[r].op = "save", calls'[r].stage \in Reading,
                      NEW k \in Kinds, NEW id \in DOMAIN calls'[r].got.before[k]
               PROVE  /\ calls'[r].got.before[k][id].inst \in 1..born'
                      /\ \A t \in Slots :
                             calls'[t].op = "create" /\ calls'[t].stage = "made"
                             /\ calls'[t].kind = k
                             => calls'[t].inst # calls'[r].got.before[k][id].inst
    BY DEF BeforeInv, Writing, At2
  <2>1. \A t \in Slots : calls'[t].op = "create" => calls'[t] = calls[t]
    BY <1>4
  <2>2. CASE r = s
    <3>1. calls'[r].got.before = [j \in Kinds |-> Entries(j)]
      BY <2>2, <1>3, <1>4
    <3>2. calls'[r].got.before[k] = Entries(k)
      BY <3>1
    <3>3. id \in DOMAIN Entries(k) /\ calls'[r].got.before[k][id].inst = Entries(k)[id].inst
      BY <3>2
    <3>4. /\ Entries(k)[id].inst = relayMap[k][id] /\ relayMap[k][id] \in 1..born
          /\ \A t \in Slots : At2(t, "create", "made", k) => calls[t].inst # relayMap[k][id]
      BY <3>3, <1>7
    <3> QED
      BY <3>3, <3>4, <2>1, <1>1 DEF At2
  <2>3. CASE r # s
    <3>1. Writing(r) /\ calls'[r].got = calls[r].got
      BY <2>3, <1>4 DEF Writing
    <3>2. /\ calls[r].got.before[k][id].inst \in 1..born
          /\ \A t \in Slots : At2(t, "create", "made", k) =>
                 calls[t].inst # calls[r].got.before[k][id].inst
      BY <3>1 DEF SavedInv, BeforeInv
    <3>3. UNCHANGED born
      BY <1>1
    <3> QED
      BY <2>1, <3>1, <3>2, <3>3 DEF At2
  <2> QED
    BY <2>2, <2>3
<1>9. ReadInv'
  <2> SUFFICES ASSUME NEW r \in Slots, calls'[r].op = "save", calls'[r].stage \in Reading,
                      NEW k \in Kinds, k = "client" \/ calls'[r].stage \in {"servers", "open"},
                      NEW id \in DOMAIN calls'[r].got.before[k],
                      id \in DOMAIN relayMap'[k],
                      relayMap'[k][id] = calls'[r].got.before[k][id].inst
               PROVE  /\ id \in DOMAIN calls'[r].got[k]
                      /\ calls'[r].got[k][id].inst = calls'[r].got.before[k][id].inst
    BY DEF ReadInv, Writing, Still
  <2>1. CASE r = s
    <3>1. k = "client" /\ "client" \in Kinds
      BY <2>1, <1>4 DEF Kinds
    <3>2. calls'[r].got = got
      BY <2>1, <1>4
    <3>3. calls'[r].got.before[k] = Entries("client")
      BY <3>1, <3>2, <1>3
    <3>4. calls'[r].got[k] = Entries("client")
      BY <3>1, <3>2, <1>3
    <3> QED
      BY <3>3, <3>4
  <2>2. CASE r # s
    <3>1. /\ Writing(r) /\ calls'[r].got = calls[r].got /\ calls'[r].stage = calls[r].stage
          /\ UNCHANGED relayMap
      BY <2>2, <1>1, <1>4 DEF Writing
    <3>2. Still(r, k, id)
      BY <3>1 DEF Still
    <3> QED
      BY <3>1, <3>2 DEF SavedInv, ReadInv
  <2> QED
    BY <2>1, <2>2
<1>10. FileHoldsSaved'
  BY <1>1, <1>4, <1>5 DEF SavedInv, FileHoldsSaved
<1> QED
  BY <1>6, <1>8, <1>9, <1>10 DEF SavedInv

(* Servers are read after clients; what is still there by now is read.      *)
LEMMA ReadServersSaved ==
    ASSUME IInv, SavedInv, NEW s \in Slots, ReadServers(s)
    PROVE  SavedInv'
<1> DEFINE got == [calls[s].got EXCEPT !.server = Entries("server")]
<1>1. /\ calls[s].op = "save" /\ calls[s].stage = "clients"
      /\ calls' = [calls EXCEPT ![s].stage = "servers", ![s].got = got]
      /\ UNCHANGED <<file, torn, kept, overlapped, relayMap, born>>
  BY DEF ReadServers, At, instances, saving
<1>2. Shape /\ MapInv /\ FileInv /\ Writing(s)
  BY <1>1 DEF IInv, MapInv, Writing, Reading
<1>3. got = [client |-> calls[s].got.client, server |-> Entries("server"),
             before |-> calls[s].got.before]
  <2>1. calls[s].op = "save" /\ calls[s].stage \in Reading
    BY <1>1 DEF Reading
  <2>2. calls[s].got = [client |-> calls[s].got.client, server |-> calls[s].got.server,
                        before |-> calls[s].got.before]
    BY <1>2, <2>1 DEF FileInv
  <2> QED
    BY <2>2
<1> HIDE DEF got
<1>4. /\ got.before = calls[s].got.before /\ got["client"] = calls[s].got["client"]
      /\ got["server"] = Entries("server")
  BY <1>3
<1>5. /\ \A t \in Slots \ {s} : calls'[t] = calls[t]
      /\ calls'[s].op = "save" /\ calls'[s].stage = "servers" /\ calls'[s].got = got
  BY <1>1, <1>2, ToStageGot DEF Calls
<1>6. OneWrites' /\ Emptied'
  BY <1>1, <1>2, <1>5 DEF SavedInv, OneWrites, Emptied, Writing
<1>7. BeforeInv'
  <2> SUFFICES ASSUME NEW r \in Slots, calls'[r].op = "save", calls'[r].stage \in Reading,
                      NEW k \in Kinds, NEW id \in DOMAIN calls'[r].got.before[k]
               PROVE  /\ calls'[r].got.before[k][id].inst \in 1..born'
                      /\ \A t \in Slots :
                             calls'[t].op = "create" /\ calls'[t].stage = "made"
                             /\ calls'[t].kind = k
                             => calls'[t].inst # calls'[r].got.before[k][id].inst
    BY DEF BeforeInv, Writing, At2
  <2>1. \A t \in Slots : calls'[t].op = "create" => calls'[t] = calls[t]
    BY <1>5
  <2>2. Writing(r) /\ calls'[r].got.before = calls[r].got.before
    BY <1>2, <1>4, <1>5 DEF Writing
  <2>3. /\ calls[r].got.before[k][id].inst \in 1..born
        /\ \A t \in Slots : At2(t, "create", "made", k) =>
               calls[t].inst # calls[r].got.before[k][id].inst
    BY <2>2 DEF SavedInv, BeforeInv
  <2>4. UNCHANGED born
    BY <1>1
  <2> QED
    BY <2>1, <2>2, <2>3, <2>4 DEF At2
<1>8. ReadInv'
  <2> SUFFICES ASSUME NEW r \in Slots, calls'[r].op = "save", calls'[r].stage \in Reading,
                      NEW k \in Kinds, k = "client" \/ calls'[r].stage \in {"servers", "open"},
                      NEW id \in DOMAIN calls'[r].got.before[k],
                      id \in DOMAIN relayMap'[k],
                      relayMap'[k][id] = calls'[r].got.before[k][id].inst
               PROVE  /\ id \in DOMAIN calls'[r].got[k]
                      /\ calls'[r].got[k][id].inst = calls'[r].got.before[k][id].inst
    BY DEF ReadInv, Writing, Still
  <2>1. CASE r = s /\ k = "client"
    <3>1. Still(s, k, id)
      BY <2>1, <1>1, <1>4, <1>5 DEF Still
    <3> QED
      BY <2>1, <3>1, <1>2, <1>4, <1>5 DEF SavedInv, ReadInv
  <2>2. CASE r = s /\ k = "server"
    <3>1. UNCHANGED relayMap
      BY <1>1
    <3>2. id \in DOMAIN Entries("server") /\ Entries("server")[id].inst = relayMap[k][id]
      BY <2>2, <3>1 DEF Entries, Entry
    <3>3. calls'[r].got[k] = Entries("server")
      BY <2>2, <1>4, <1>5
    <3>4. relayMap[k][id] = calls'[r].got.before[k][id].inst
      BY <3>1
    <3>5. id \in DOMAIN calls'[r].got[k] /\ calls'[r].got[k][id].inst = Entries("server")[id].inst
      BY <3>2, <3>3
    <3> QED
      BY <3>2, <3>4, <3>5
  <2>3. CASE r # s
    <3>1. /\ Writing(r) /\ calls'[r].got = calls[r].got /\ calls'[r].stage = calls[r].stage
          /\ UNCHANGED relayMap
      BY <2>3, <1>1, <1>5 DEF Writing
    <3>2. Still(r, k, id)
      BY <3>1 DEF Still
    <3> QED
      BY <3>1, <3>2 DEF SavedInv, ReadInv
  <2> QED
    BY <2>1, <2>2, <2>3 DEF Kinds
<1>9. FileHoldsSaved'
  BY <1>1, <1>5 DEF SavedInv, FileHoldsSaved
<1> QED
  BY <1>6, <1>7, <1>8, <1>9 DEF SavedInv

(* The file is emptied, and holds what was read, or is left torn.           *)
LEMMA WriteSaved ==
    ASSUME IInv, SavedInv, NEW s \in Slots,
           Truncate(s) \/ OpenFails(s) \/ Write(s) \/ WriteFails(s)
    PROVE  SavedInv'
<1>1. /\ calls[s].op = "save" /\ calls[s].stage \in {"servers", "open"}
      /\ UNCHANGED <<overlapped, relayMap, born>>
  BY DEF Truncate, OpenFails, Write, WriteFails, At, instances, saving
<1>2. Shape /\ Writing(s)
  BY <1>1 DEF IInv, MapInv, Writing, Reading
<1>3. /\ \A t \in Slots \ {s} : calls'[t] = calls[t]
      /\ calls'[s].op = "save"
      /\ \/ Truncate(s) /\ calls'[s].stage = "open" /\ calls'[s].got = calls[s].got
         \/ OpenFails(s) /\ calls'[s].stage = "failed"
         \/ Write(s) /\ calls'[s].stage = "ok"
         \/ WriteFails(s) /\ calls'[s].stage = "failed"
  <2>1. CASE Truncate(s)
    BY <1>1, <1>2, <2>1, ToStage DEF Truncate, Calls
  <2>3. CASE OpenFails(s) \/ WriteFails(s)
    BY <1>1, <1>2, <2>3, ToStage DEF OpenFails, WriteFails, Fail, Calls
  <2>2. CASE Write(s)
    <3>1. Answer(s, <<>>)
      BY <2>2 DEF Write
    <3> QED
      BY <1>1, <1>2, <2>2, <3>1, ToAnswer DEF Calls
  <2> QED
    BY <2>1, <2>2, <2>3
<1>4. \A t \in Slots : calls'[t].op = "save" /\ calls'[t].stage \in Reading =>
          /\ Writing(t) /\ calls'[t].got = calls[t].got
          /\ calls'[t].stage \in {"servers", "open"} => t = s \/ calls'[t].stage = calls[t].stage
  BY <1>2, <1>3 DEF Writing, Reading
<1>5. OneWrites'
  BY <1>1, <1>4 DEF SavedInv, OneWrites, Writing
<1>6. Emptied'
  <2>1. CASE Truncate(s)
    BY <2>1 DEF Truncate, Emptied
  <2>2. CASE ~Truncate(s)
    <3>1. calls'[s].stage \in {"ok", "failed"}
      BY <1>3, <2>2
    <3>2. ~overlapped => \A t \in Slots \ {s} : ~Writing(t)
      BY <1>2 DEF SavedInv, OneWrites
    <3>3. ASSUME ~overlapped, NEW t \in Slots, calls'[t].op = "save", calls'[t].stage = "open"
          PROVE  FALSE
      <4>1. t # s
        BY <3>1, <3>3
      <4>2. calls'[t] = calls[t]
        BY <1>3, <4>1
      <4>3. Writing(t)
        BY <3>3, <4>2 DEF Writing, Reading
      <4> QED
        BY <3>2, <3>3, <4>1, <4>3
    <3>4. UNCHANGED overlapped
      BY <1>1
    <3> QED
      BY <3>3, <3>4 DEF Emptied, Writing
  <2> QED
    BY <2>1, <2>2
<1>7. BeforeInv'
  <2> SUFFICES ASSUME NEW r \in Slots, calls'[r].op = "save", calls'[r].stage \in Reading,
                      NEW k \in Kinds, NEW id \in DOMAIN calls'[r].got.before[k]
               PROVE  /\ calls'[r].got.before[k][id].inst \in 1..born'
                      /\ \A t \in Slots :
                             calls'[t].op = "create" /\ calls'[t].stage = "made"
                             /\ calls'[t].kind = k
                             => calls'[t].inst # calls'[r].got.before[k][id].inst
    BY DEF BeforeInv, Writing, At2
  <2>1. \A t \in Slots : calls'[t].op = "create" => calls'[t] = calls[t]
    BY <1>3
  <2>2. Writing(r) /\ calls'[r].got = calls[r].got
    BY <1>4
  <2> QED
    BY <2>1, <2>2, <1>1 DEF SavedInv, BeforeInv, At2
<1>8. ReadInv'
  <2> SUFFICES ASSUME NEW r \in Slots, calls'[r].op = "save", calls'[r].stage \in Reading,
                      NEW k \in Kinds, k = "client" \/ calls'[r].stage \in {"servers", "open"},
                      NEW id \in DOMAIN calls'[r].got.before[k],
                      id \in DOMAIN relayMap'[k],
                      relayMap'[k][id] = calls'[r].got.before[k][id].inst
               PROVE  /\ id \in DOMAIN calls'[r].got[k]
                      /\ calls'[r].got[k][id].inst = calls'[r].got.before[k][id].inst
    BY DEF ReadInv, Writing, Still
  <2>1. Writing(r) /\ calls'[r].got = calls[r].got
    BY <1>4
  <2>2. Still(r, k, id)
    BY <2>1, <1>1 DEF Still
  <2>3. k = "client" \/ calls[r].stage \in {"servers", "open"}
    BY <1>1, <1>4
  <2> QED
    BY <2>1, <2>2, <2>3 DEF SavedInv, ReadInv
<1>9. FileHoldsSaved'
  <2>1. CASE Truncate(s)
    BY <2>1 DEF Truncate, FileHoldsSaved
  <2>3. CASE OpenFails(s)
    BY <2>3 DEF OpenFails, saving, SavedInv, FileHoldsSaved
  <2>4. CASE WriteFails(s)
    <3>1. ~overlapped => torn
      BY <1>2, <2>4 DEF WriteFails, At, SavedInv, Emptied
    <3> QED
      BY <2>4, <3>1 DEF WriteFails, FileHoldsSaved
  <2>2. CASE Write(s)
    <3> SUFFICES ASSUME ~overlapped, NEW k \in Kinds, NEW id \in DOMAIN kept'[k]
                 PROVE  id \in DOMAIN file'[k] /\ file'[k][id].inst = kept'[k][id]
      BY <1>1 DEF FileHoldsSaved
    <3> DEFINE still == {i \in DOMAIN calls[s].got.before[k] : Still(s, k, i)}
    <3>1. calls[s].stage = "open"
      BY <2>2 DEF Write, At
    <3>2. file = Unreadable
      BY <1>2, <3>1 DEF SavedInv, Emptied
    <3>3. file' = [j \in Kinds |-> calls[s].got[j]]
      BY <2>2, <3>2 DEF Write, Text
    <3>4. kept'[k] = [i \in still |-> relayMap[k][i]]
      BY <2>2 DEF Write, Still
    <3>5. id \in DOMAIN calls[s].got.before[k] /\ Still(s, k, id) /\ kept'[k][id] = relayMap[k][id]
      BY <3>4
    <3>6. id \in DOMAIN calls[s].got[k]
          /\ calls[s].got[k][id].inst = calls[s].got.before[k][id].inst
      BY <1>1, <1>2, <3>5 DEF SavedInv, ReadInv
    <3> QED
      BY <3>3, <3>5, <3>6 DEF Still
  <2> QED
    BY <2>1, <2>2, <2>3, <2>4
<1> QED
  BY <1>5, <1>6, <1>7, <1>8, <1>9 DEF SavedInv

-----------------------------------------------------------------------------

(* Every handler, the initial states, and every step.                       *)
LEMMA HandleSaved == IInv /\ SavedInv /\ (\E s \in Slots : Handle(s)) => SavedInv'
<1> SUFFICES ASSUME IInv, SavedInv, NEW s \in Slots, Handle(s) PROVE SavedInv'
  OBVIOUS
<1> USE DEF At, instances, saving
<1>1. CASE CreateRefused(s)
  BY <1>1, AnsweredSaved DEF CreateRefused
<1>2. CASE (\E id \in Ids : Make(s, id)) \/ MakeHalf(s) \/ Register(s)
  BY <1>2, CreateSaved
<1>3. CASE DeleteServer(s) \/ DeleteClient(s)
  BY <1>3, DeleteSaved DEF DeleteServer, DeleteClient
<1>4. CASE List(s)
  BY <1>4, AnsweredSaved DEF List
<1>5. CASE \E op \in Queries : Query(s, op)
  BY <1>5, AnsweredSaved DEF Query
<1>6. CASE SetTracker(s)
  BY <1>6, AnsweredSaved DEF SetTracker
<1>7. CASE Save(s)
  BY <1>7, ReadClientsSaved, ReadServersSaved, WriteSaved DEF Save
<1>8. CASE Unreachable(s)
  BY <1>8, AnsweredSaved DEF Unreachable
<1> QED
  BY <1>1, <1>2, <1>3, <1>4, <1>5, <1>6, <1>7, <1>8 DEF Handle

(* Nothing has been saved at the beginning.                                 *)
LEMMA InitSaved == Init => SavedInv
<1> SUFFICES ASSUME Init PROVE SavedInv
  OBVIOUS
<1>1. PICK r \in Slots :
          calls = [t \in Slots |-> IF t = r THEN Request("list", "client", 0, NoConfig, {})
                                    ELSE Nothing]
  BY DEF Init
<1>2. \A t \in Slots : calls[t].stage \in {"none", "sent"}
  BY <1>1, RequestIsCall, NothingIsCall DEF Kinds
<1>3. kept = [k \in Kinds |-> <<>>]
  BY DEF Init, Unreadable
<1>4. \A k \in Kinds : DOMAIN kept[k] = {}
  BY <1>3
<1> QED
  BY <1>2, <1>4
  DEF SavedInv, OneWrites, Emptied, BeforeInv, ReadInv, FileHoldsSaved, Writing, Reading

(* Every step keeps the invariant.                                          *)
LEMMA NextSaved == IInv /\ SavedInv /\ [Next]_vars => SavedInv'
<1> SUFFICES ASSUME IInv, SavedInv, [Next]_vars PROVE SavedInv'
  OBVIOUS
<1>1. CASE UNCHANGED vars
  <2>1. Page
    BY <1>1 DEF vars, registryVars, instances, saving, Page, Same, IInv, MapInv, Shape
  <2> QED
    BY <2>1, PageSaved
<1>2. CASE Next
  BY <1>2, HandleSaved, PageSaved, CallbackPage, ClickPage, ProcessSaved DEF Next
<1> QED
  BY <1>1, <1>2

(* Unless two saves overlapped, or a later save has opened the file and not *)
(* ended well, the configuration file holds every instance that was there   *)
(* from the beginning of the last successful save to its end (config.go).   *)
THEOREM SpecFileHoldsSaved == Spec => []FileHoldsSaved
<1>1. Init => IInv /\ SavedInv
  BY InitIInv, InitSaved
<1>2. IInv /\ SavedInv /\ [Next]_vars => (IInv /\ SavedInv)'
  BY NextIInv, NextSaved
<1>3. IInv /\ SavedInv => FileHoldsSaved
  BY DEF SavedInv
<1> QED
  BY <1>1, <1>2, <1>3, PTL DEF Spec

-----------------------------------------------------------------------------
(* The lists of the page.                                                   *)

(* "earlier" holds requests of the same kind that were under way when this  *)
(* one was sent, and all that were so for any of them.                      *)
Order ==
    \A t \in Slots : \A s \in Slots \intersect calls[t].earlier :
        /\ calls[s].stage # "none" /\ calls[s].op = calls[t].op /\ calls[s].kind = calls[t].kind
        /\ t \notin calls[s].earlier
        /\ Slots \intersect calls[s].earlier \subseteq calls[t].earlier

(* A request that has changed the instances of a kind, and whose answer     *)
(* will have them listed again,                                             *)
Changes(b, k) ==
    /\ calls[b].kind = k
    /\ \/ calls[b].op = "create" /\ calls[b].stage \in {"ok", "failed"}
       \/ calls[b].op = "delete" /\ calls[b].stage \in {"ok", "removed"}

(* and one whose answer will be, or is, the list as it is.                  *)
Lists(b, k) ==
    /\ calls[b].op = "list" /\ calls[b].kind = k /\ ~calls[b].late
    /\ calls[b].stage = "sent" \/ (calls[b].stage = "ok" /\ calls[b].got = relayMap[k])
    /\ \A f \in Slots : b \in calls[f].earlier => calls[f].stage # "failed"

Outdated(t, k) ==
    /\ calls[t].op = "list" /\ calls[t].kind = k /\ calls[t].stage = "ok" /\ ~calls[t].late
    /\ calls[t].got # relayMap[k]

(* While the page, or an answer on its way to it, has an old list of a      *)
(* kind, a newer one is under way or will be asked for.                     *)
Drawn(k) ==
    listed[k] /\ ~stale[k] /\ list[k] # relayMap[k] =>
        \E b \in Slots : Changes(b, k) \/ Lists(b, k)
Answers(k) ==
    \A t \in Slots : Outdated(t, k) =>
        \E b \in Slots : Changes(b, k) \/ (Lists(b, k) /\ t \in calls[b].earlier)

(* A program that died has left no list that counts.                        *)
DownStale ==
    ~up => /\ \A k \in Kinds : stale[k]
           /\ \A s \in Slots : calls[s].op = "list" /\ calls[s].stage = "ok" => calls[s].late

Tables ==
    /\ list = [k \in Kinds |-> list[k]] /\ listed = [k \in Kinds |-> listed[k]]
    /\ stale \in [Kinds -> BOOLEAN]

ListInv ==
    Tables /\ Order /\ DownStale /\ (up => \A k \in Kinds : Drawn(k) /\ Answers(k))

(* The page is right once nothing is under way.                             *)
LEMMA ListInvSettles == ListInv => ListSettles
<1> SUFFICES ASSUME ListInv, NEW k \in Kinds, up, listed[k], ~stale[k],
                    InFlight(k, {"create", "delete", "list"}) = {}
             PROVE  list[k] = relayMap[k]
  BY DEF ListSettles
<1>1. \A b \in Slots : ~Changes(b, k) /\ ~Lists(b, k)
  BY DEF InFlight, Changes, Lists
<1> QED
  BY <1>1 DEF ListInv, Drawn

(* A handler takes one step that does not list.                             *)
LEMMA OneLists ==
    ASSUME ListInv, up, NEW s \in Slots, NEW k \in Kinds, UNCHANGED <<up, tables>>,
           \A t \in Slots \ {s} : calls'[t] = calls[t],
           calls'[s].op = calls[s].op, calls[s].kind = k, calls'[s].kind = k,
           calls'[s].earlier = calls[s].earlier, calls'[s].stage # "none",
           calls[s].op # "list",
           \A j \in Kinds \ {k} : relayMap'[j] = relayMap[j],
           relayMap'[k] = relayMap[k] \/ Changes(s, k)',
           Changes(s, k) => Changes(s, k)'
    PROVE  ListInv'
<1>1. Order' /\ Tables'
  BY DEF ListInv, Order, Tables, tables
<1>2. ASSUME NEW j \in Kinds, NEW b \in Slots, Changes(b, j)
      PROVE  Changes(b, j)'
  BY <1>2 DEF Changes
<1>3. ASSUME NEW j \in Kinds, NEW b \in Slots, Lists(b, j), relayMap'[j] = relayMap[j]
      PROVE  Lists(b, j)' /\ b # s
  BY <1>3 DEF Lists, ListInv, Order
<1>4. ASSUME NEW j \in Kinds, relayMap'[j] = relayMap[j]
      PROVE  Drawn(j)' /\ Answers(j)'
  <2>1. Drawn(j)'
    BY <1>2, <1>3, <1>4 DEF ListInv, Drawn, tables
  <2>2. ASSUME NEW t \in Slots, Outdated(t, j)'
        PROVE  \E b \in Slots : Changes(b, j)' \/ (Lists(b, j)' /\ t \in calls'[b].earlier)
    <3>1. Outdated(t, j)
      BY <1>4, <2>2 DEF Outdated
    <3> QED
      BY <1>2, <1>3, <1>4, <3>1 DEF ListInv, Answers
  <2> QED
    BY <2>1, <2>2 DEF Answers
<1>5. CASE Changes(s, k)'
  BY <1>1, <1>4, <1>5 DEF ListInv, Drawn, Answers, DownStale
<1>6. CASE relayMap'[k] = relayMap[k]
  BY <1>1, <1>4, <1>6 DEF ListInv, DownStale
<1> QED
  BY <1>5, <1>6

(* A program that does not run answers no list.                             *)
LEMMA DownLists ==
    ASSUME ListInv, ~up, NEW s \in Slots, UNCHANGED <<up, tables>>,
           \A t \in Slots \ {s} : calls'[t] = calls[t],
           calls'[s].op = calls[s].op, calls'[s].kind = calls[s].kind,
           calls'[s].earlier = calls[s].earlier, calls'[s].stage = "failed"
    PROVE  ListInv'
<1>1. Order' /\ Tables'
  BY DEF ListInv, Order, Tables, tables
<1>2. DownStale'
  BY DEF ListInv, DownStale, tables
<1> QED
  BY <1>1, <1>2 DEF ListInv

(* The list of a kind is read.                                              *)
LEMMA ListLists ==
    ASSUME IInv, ListInv, NEW s \in Slots, List(s), UNCHANGED tables
    PROVE  ListInv'
<1> DEFINE k == calls[s].kind
<1>1. /\ up /\ calls[s].op = "list" /\ calls[s].stage = "sent"
      /\ UNCHANGED <<up, relayMap>> /\ k \in Kinds
      /\ Calls(s, calls[s].id, "ok", calls[s].inst) /\ calls'[s].got = relayMap[k]
  <2>1. Answer(s, relayMap[k]) /\ Shape
    BY DEF List, IInv, MapInv
  <2> QED
    BY <2>1, ToAnswer DEF List, At, instances, Shape, IsCall
<1> HIDE DEF k
<1>2. k = calls[s].kind
  BY DEF k
<1>3. /\ \A t \in Slots : /\ calls'[t].op = calls[t].op /\ calls'[t].kind = calls[t].kind
                          /\ calls'[t].earlier = calls[t].earlier /\ calls'[t].late = calls[t].late
                          /\ calls'[t].stage = "failed" => calls[t].stage = "failed"
                          /\ calls'[t].stage # "none" <=> calls[t].stage # "none"
      /\ \A t \in Slots \ {s} : calls'[t] = calls[t]
      /\ calls'[s].stage = "ok" /\ calls'[s].got = relayMap[k]
  BY <1>1 DEF Calls
<1>4. Order' /\ Tables'
  BY <1>3 DEF ListInv, Order, Tables, tables
<1>5. ASSUME NEW j \in Kinds, NEW b \in Slots
      PROVE  /\ Changes(b, j) => Changes(b, j)'
             /\ Lists(b, j) => Lists(b, j)'
             /\ Outdated(b, j)' => Outdated(b, j)
  <2>1. CASE b = s
    BY <1>1, <1>2, <1>3, <2>1 DEF Changes, Lists, Outdated
  <2>2. CASE b # s
    BY <1>1, <1>3, <2>2 DEF Changes, Lists, Outdated
  <2> QED
    BY <2>1, <2>2
<1>6. \A j \in Kinds : Drawn(j)' /\ Answers(j)'
  BY <1>1, <1>3, <1>5 DEF ListInv, Drawn, Answers, tables
<1> QED
  BY <1>1, <1>4, <1>6 DEF ListInv, DownStale

-----------------------------------------------------------------------------

(* A handler that neither lists, nor creates, nor deletes.                  *)
LEMMA AsideLists ==
    ASSUME IInv, ListInv, NEW s \in Slots, UNCHANGED <<up, relayMap, tables>>,
           calls[s].op \notin {"list", "create", "delete"}, up,
           NEW id, NEW stage, NEW inst, Calls(s, id, stage, inst), stage # "none"
    PROVE  ListInv'
<1>1. calls[s].kind \in Kinds /\ ~Changes(s, calls[s].kind)
  BY DEF IInv, MapInv, Shape, IsCall, Changes
<1> QED
  BY <1>1, OneLists DEF Calls

(* A handler that creates an instance.                                      *)
LEMMA CreateLists ==
    ASSUME IInv, ListInv, NEW s \in Slots, UNCHANGED tables,
           CreateRefused(s) \/ MakeHalf(s) \/ (\E id \in Ids : Make(s, id)) \/ Register(s)
    PROVE  ListInv'
<1>1. PICK k \in Kinds : Shape /\ k = calls[s].kind
  BY DEF IInv, MapInv, Shape, IsCall
<1>2. CASE CreateRefused(s) \/ MakeHalf(s)
  <2>1. up /\ calls[s].op = "create" /\ calls[s].stage = "sent" /\ UNCHANGED <<up, relayMap>>
        /\ Goto(s, "failed")
    BY <1>2 DEF CreateRefused, MakeHalf, At, Fail, instances
  <2>2. Calls(s, calls[s].id, "failed", calls[s].inst)
    BY <1>1, <2>1, ToStage
  <2> QED
    BY <1>1, <2>1, <2>2, OneLists DEF Calls, Changes
<1>3. ASSUME NEW id \in Ids, Make(s, id) PROVE ListInv'
  <2>1. up /\ calls[s].op = "create" /\ calls[s].stage = "sent" /\ UNCHANGED <<up, relayMap>>
        /\ calls' = [calls EXCEPT ![s].stage = "made", ![s].id = id, ![s].inst = born + 1]
    BY <1>3 DEF Make, At
  <2>2. Calls(s, id, "made", born + 1)
    BY <1>1, <2>1, ToMade
  <2> QED
    BY <1>1, <2>1, <2>2, OneLists DEF Calls, Changes
<1>4. CASE Register(s)
  <2>1. /\ up /\ calls[s].op = "create" /\ calls[s].stage = "made" /\ UNCHANGED up
        /\ Goto(s, "failed") \/ Answer(s, <<>>)
        /\ relayMap' = [relayMap EXCEPT ![k] = With(@, calls[s].id, calls[s].inst)]
    BY <1>1, <1>4 DEF Register, At, Fail
  <2>2. PICK stage \in {"failed", "ok"} : Calls(s, calls[s].id, stage, calls[s].inst)
    BY <1>1, <2>1, ToStage, ToAnswer
  <2>3. \A j \in Kinds \ {k} : relayMap'[j] = relayMap[j]
    BY <1>1, <2>1 DEF Shape
  <2>4. Changes(s, k)'
    BY <1>1, <2>1, <2>2 DEF Calls, Changes
  <2>5. /\ \A t \in Slots \ {s} : calls'[t] = calls[t]
        /\ calls'[s].op = calls[s].op /\ calls'[s].kind = k
        /\ calls'[s].earlier = calls[s].earlier /\ calls'[s].stage # "none"
    BY <1>1, <2>2 DEF Calls
  <2> QED
    BY <1>1, <2>1, <2>3, <2>4, <2>5, OneLists
<1> QED
  BY <1>2, <1>3, <1>4

(* A handler that deletes one.                                              *)
LEMMA DeleteLists ==
    ASSUME IInv, ListInv, NEW s \in Slots, UNCHANGED tables,
           DeleteServer(s) \/ DeleteClient(s)
    PROVE  ListInv'
<1>1. PICK k \in Kinds : Shape /\ k = calls[s].kind
  BY DEF IInv, MapInv, Shape, IsCall
<1>2. CASE Find(s)
  <2>1. /\ up /\ calls[s].op = "delete" /\ calls[s].stage = "sent" /\ UNCHANGED <<up, relayMap>>
        /\ \/ Goto(s, "failed")
           \/ calls' = [calls EXCEPT ![s].stage = "found", ![s].inst = relayMap[k][calls[s].id]]
    BY <1>1, <1>2 DEF Find, At, Fail, instances
  <2>2. \E stage \in {"failed", "found"}, inst \in {calls[s].inst, relayMap[k][calls[s].id]} :
            Calls(s, calls[s].id, stage, inst)
    BY <1>1, <2>1, ToStage, ToFound
  <2> QED
    BY <1>1, <2>1, <2>2, OneLists DEF Calls, Changes
<1>3. ASSUME NEW stage \in {"found", "removed"}, Close(s, stage), k = "server" => stage = "found"
      PROVE  ListInv'
  <2>1. /\ up /\ calls[s].op = "delete" /\ calls[s].stage = stage /\ UNCHANGED <<up, relayMap>>
        /\ IF k = "client" THEN Answer(s, <<>>) ELSE Goto(s, "closed") \/ Goto(s, "failed")
    BY <1>1, <1>3 DEF Close, At, Fail
  <2>2. \E after \in {"ok", "closed", "failed"} :
            Calls(s, calls[s].id, after, calls[s].inst) /\ (k = "client" => after = "ok")
    BY <1>1, <2>1, ToStage, ToAnswer DEF Kinds
  <2>3. k \in {"server", "client"}
    BY <1>1 DEF Kinds
  <2>4. Changes(s, k) => Changes(s, k)'
    BY <1>1, <1>3, <2>1, <2>2, <2>3 DEF Calls, Changes
  <2>5. /\ \A t \in Slots \ {s} : calls'[t] = calls[t]
        /\ calls'[s].op = calls[s].op /\ calls'[s].kind = k
        /\ calls'[s].earlier = calls[s].earlier /\ calls'[s].stage # "none"
    BY <1>1, <2>2 DEF Calls
  <2> QED
    BY <1>1, <2>1, <2>4, <2>5, OneLists
<1>4. ASSUME NEW stage, Remove(s, stage) PROVE ListInv'
  <2>1. /\ up /\ calls[s].op = "delete" /\ UNCHANGED up
        /\ Answer(s, <<>>) \/ Goto(s, "removed")
        /\ relayMap' = [relayMap EXCEPT ![k] = Without(@, calls[s].id)]
    BY <1>1, <1>4 DEF Remove, At
  <2>2. PICK after \in {"ok", "removed"} : Calls(s, calls[s].id, after, calls[s].inst)
    BY <1>1, <2>1, ToStage, ToAnswer
  <2>3. \A j \in Kinds \ {k} : relayMap'[j] = relayMap[j]
    BY <1>1, <2>1 DEF Shape
  <2>4. Changes(s, k)'
    BY <1>1, <2>1, <2>2 DEF Calls, Changes
  <2>5. /\ \A t \in Slots \ {s} : calls'[t] = calls[t]
        /\ calls'[s].op = calls[s].op /\ calls'[s].kind = k
        /\ calls'[s].earlier = calls[s].earlier /\ calls'[s].stage # "none"
    BY <1>1, <2>2 DEF Calls
  <2> QED
    BY <1>1, <2>1, <2>3, <2>4, <2>5, OneLists
<1> QED
  BY <1>1, <1>2, <1>3, <1>4 DEF DeleteServer, DeleteClient

(* Every handler.                                                           *)
LEMMA HandleLists ==
    ASSUME IInv, ListInv, NEW s \in Slots, Handle(s), UNCHANGED pageVars
    PROVE  ListInv'
<1>1. Shape /\ UNCHANGED tables
  BY DEF IInv, MapInv, pageVars
<1>2. CASE CreateRefused(s) \/ MakeHalf(s) \/ (\E id \in Ids : Make(s, id)) \/ Register(s)
  BY <1>1, <1>2, CreateLists
<1>3. CASE DeleteServer(s) \/ DeleteClient(s)
  BY <1>1, <1>3, DeleteLists
<1>4. CASE List(s)
  BY <1>1, <1>4, ListLists
<1>5. ASSUME NEW op \in Queries, Query(s, op) PROVE ListInv'
  <2>1. /\ up /\ calls[s].op = op /\ UNCHANGED <<up, relayMap>>
        /\ (\E got : Answer(s, got)) \/ Goto(s, "failed")
    BY <1>5 DEF Query, At, Fail, instances
  <2>2. \E stage \in {"ok", "failed"} : Calls(s, calls[s].id, stage, calls[s].inst)
    BY <1>1, <2>1, ToStage, ToAnswer
  <2> QED
    BY <1>1, <2>1, <2>2, AsideLists DEF Queries
<1>6. CASE SetTracker(s)
  <2>1. /\ up /\ calls[s].op = "tracker/set" /\ UNCHANGED <<up, relayMap>>
        /\ (\E got : Answer(s, got)) \/ Goto(s, "failed")
    BY <1>6 DEF SetTracker, At, Fail
  <2>2. \E stage \in {"ok", "failed"} : Calls(s, calls[s].id, stage, calls[s].inst)
    BY <1>1, <2>1, ToStage, ToAnswer
  <2> QED
    BY <1>1, <2>1, <2>2, AsideLists
<1>7. CASE Save(s)
  <2>1. up /\ calls[s].op = "save" /\ UNCHANGED <<up, relayMap>>
    BY <1>7
    DEF Save, ReadClients, ReadServers, Truncate, OpenFails, Write, WriteFails, At, instances
  <2>2. \E stage \in Reading \union Answered : Calls(s, calls[s].id, stage, calls[s].inst)
    <3>1. CASE ReadClients(s)
      BY <1>1, <3>1, ToStageGot DEF ReadClients, Reading
    <3>2. CASE ReadServers(s)
      BY <1>1, <3>2, ToStageGot DEF ReadServers, Reading
    <3>3. CASE Truncate(s)
      BY <1>1, <3>3, ToStage DEF Truncate, Reading
    <3>4. CASE Write(s)
      <4>1. Answer(s, <<>>)
        BY <3>4 DEF Write
      <4> QED
        BY <1>1, <4>1, ToAnswer DEF Answered
    <3>5. CASE OpenFails(s) \/ WriteFails(s)
      BY <1>1, <3>5, ToStage DEF OpenFails, WriteFails, Fail, Answered
    <3> QED
      BY <1>7, <3>1, <3>2, <3>3, <3>4, <3>5 DEF Save
  <2> QED
    BY <1>1, <2>1, <2>2, AsideLists DEF Reading, Answered
<1>8. CASE Unreachable(s)
  <2>1. ~up /\ UNCHANGED up /\ Goto(s, "failed")
    BY <1>8 DEF Unreachable, Fail
  <2>2. Calls(s, calls[s].id, "failed", calls[s].inst)
    BY <1>1, <2>1, ToStage
  <2> QED
    BY <1>1, <2>1, <2>2, DownLists DEF Calls
<1> QED
  BY <1>2, <1>3, <1>4, <1>5, <1>6, <1>7, <1>8 DEF Handle

-----------------------------------------------------------------------------
(* What the page does with its requests, in detail.                         *)

(* The others hear of the answer that s has got,                            *)
Hears(s) ==
    \A t \in Slots \ {s} :
        /\ calls'[t].op = calls[t].op /\ calls'[t].kind = calls[t].kind
        /\ calls'[t].id = calls[t].id /\ calls'[t].data = calls[t].data
        /\ calls'[t].stage = calls[t].stage /\ calls'[t].inst = calls[t].inst
        /\ calls'[t].got = calls[t].got
        /\ calls'[t].earlier = calls[t].earlier \ {s}
TakenBy(s) ==
    /\ Hears(s)
    /\ \A t \in Slots \ {s} : calls'[t].late = (calls[t].late \/ t \in calls[s].earlier)

(* or of its failure.                                                       *)
FailedBy(s, k) ==
    /\ Hears(s)
    /\ \A t \in Slots \ {s} :
           calls'[t].late = (\/ calls[t].late \/ t \in calls[s].earlier
                             \/ calls[s].op = "create" /\ t \in InFlight(k, {"list"}))

(* There is a new request, or a free slot.                                  *)
Sends(s, op, k, id, data, earlier) ==
    /\ calls'[s].op = op /\ calls'[s].kind = k /\ calls'[s].id = id /\ calls'[s].data = data
    /\ calls'[s].stage = "sent" /\ calls'[s].got = <<>> /\ calls'[s].late = FALSE
    /\ calls'[s].earlier = earlier
Frees(s) ==
    /\ calls'[s].op = "none" /\ calls'[s].stage = "none" /\ calls'[s].earlier = {}
    /\ calls'[s].data = NoConfig /\ calls'[s].late = FALSE

(* What Nothing and Request are.                                            *)
LEMMA NothingFields ==
    /\ Nothing.op = "none" /\ Nothing.stage = "none" /\ Nothing.earlier = {}
    /\ Nothing.data = NoConfig /\ Nothing.late = FALSE /\ Nothing.id = 0
<1> DEFINE r == Request("none", "server", 0, NoConfig, {})
<1>1. r = [op |-> "none", kind |-> "server", id |-> 0, data |-> NoConfig, stage |-> "sent",
           inst |-> NoInstance, got |-> <<>>, earlier |-> {}, late |-> FALSE]
  BY DEF Request
<1>2. Nothing = [r EXCEPT !.stage = "none"]
  BY DEF Nothing
<1> HIDE DEF r
<1> QED
  BY <1>1, <1>2

(* The success function ends.                                               *)
LEMMA DoneCalls ==
    ASSUME Shape, NEW s \in Slots, Done(s)
    PROVE  TakenBy(s) /\ Frees(s)
BY TakenCalls, NothingFields DEF Done, TakenBy, Hears, Frees

(* It makes a request of its own.                                           *)
LEMMA ThenCalls ==
    ASSUME Shape, NEW s \in Slots, NEW op, NEW k, Then(s, op, k)
    PROVE  /\ TakenBy(s)
           /\ Sends(s, op, k, instance_id[k], NoConfig, InFlight(k, {op}) \ {s})
<1> DEFINE r == Request(op, k, instance_id[k], NoConfig, InFlight(k, {op}) \ {s})
           d == Taken(s)
<1>1. calls' = [d EXCEPT ![s] = r] /\ d = [t \in Slots |-> d[t]]
  BY TakenCalls DEF Then
<1>2. calls'[s] = r /\ \A t \in Slots \ {s} : calls'[t] = Taken(s)[t]
  <2> HIDE DEF r
  <2>1. calls'[s] = r /\ \A t \in Slots \ {s} : calls'[t] = d[t]
    <3> HIDE DEF d
    <3> QED
      BY <1>1
  <2> QED
    BY <2>1
<1>3. Sends(s, op, k, instance_id[k], NoConfig, InFlight(k, {op}) \ {s})
  BY <1>2 DEF Request, Sends
<1> HIDE DEF r, d
<1> QED
  BY <1>2, <1>3, TakenCalls DEF TakenBy, Hears

(* A click makes a request.                                                 *)
LEMMA AjaxCalls ==
    ASSUME Shape, NEW op, NEW k, NEW id, NEW data, Ajax(op, k, id, data)
    PROVE  \E s \in Slots : /\ calls[s].stage = "none"
                            /\ \A t \in Slots \ {s} : calls'[t] = calls[t]
                            /\ Sends(s, op, k, id, data, InFlight(k, {op}))
<1>1. PICK s \in Slots : /\ calls[s].stage = "none"
                         /\ calls' = [calls EXCEPT ![s] = Request(op, k, id, data, InFlight(k, {op}))]
  BY DEF Ajax
<1> DEFINE r == Request(op, k, id, data, InFlight(k, {op}))
<1>2. calls' = [calls EXCEPT ![s] = r]
  BY <1>1
<1>3. calls'[s] = r /\ \A t \in Slots \ {s} : calls'[t] = calls[t]
  <2> HIDE DEF r
  <2> QED
    BY <1>2 DEF Shape
<1>4. Sends(s, op, k, id, data, InFlight(k, {op}))
  BY <1>3 DEF Request, Sends
<1> QED
  BY <1>1, <1>3, <1>4

-----------------------------------------------------------------------------

(* Requests that are made while others are under way are in order.          *)
LEMMA TakenOrder ==
    ASSUME Order, NEW s \in Slots, Hears(s),
           \/ Frees(s)
           \/ \E op, k, id, data : Sends(s, op, k, id, data, InFlight(k, {op}) \ {s})
    PROVE  Order'
<1> SUFFICES ASSUME NEW t \in Slots, NEW a \in Slots, a \in calls'[t].earlier
             PROVE  /\ calls'[a].stage # "none" /\ calls'[a].op = calls'[t].op
                    /\ calls'[a].kind = calls'[t].kind /\ t \notin calls'[a].earlier
                    /\ \A r \in Slots : r \in calls'[a].earlier => r \in calls'[t].earlier
  BY DEF Order
<1>1. CASE t # s
  BY <1>1 DEF Order, TakenBy, Hears
<1>2. CASE t = s
  <2>1. PICK op, k, id, data : Sends(s, op, k, id, data, InFlight(k, {op}) \ {s})
    BY <1>2 DEF Frees
  <2>2. a # s /\ calls[a].stage # "none" /\ calls[a].kind = k /\ calls[a].op = op
    BY <1>2, <2>1 DEF Sends, InFlight
  <2>3. ASSUME NEW r \in Slots, r \in calls'[a].earlier PROVE r \in calls'[t].earlier
    <3>1. r \in calls[a].earlier /\ r # s
      BY <2>2, <2>3 DEF TakenBy, Hears
    <3>2. calls[r].stage # "none" /\ calls[r].kind = k /\ calls[r].op = op
      BY <2>2, <3>1 DEF Order
    <3> QED
      BY <1>2, <2>1, <3>1, <3>2 DEF Sends, InFlight
  <2> QED
    BY <1>2, <2>1, <2>2, <2>3 DEF TakenBy, Hears, Sends
<1> QED
  BY <1>1, <1>2

(* A click leaves the lists under way as they are.                          *)
LEMMA AjaxLists ==
    ASSUME IInv, ListInv, NEW op, NEW k, NEW id, NEW data, Ajax(op, k, id, data),
           UNCHANGED tables
    PROVE  ListInv'
<1>1. PICK s \in Slots : /\ calls[s].stage = "none"
                         /\ \A t \in Slots \ {s} : calls'[t] = calls[t]
                         /\ Sends(s, op, k, id, data, InFlight(k, {op}))
  BY AjaxCalls DEF IInv, MapInv
<1>2. UNCHANGED <<up, relayMap>>
  BY DEF Ajax, instances
<1>3. \A t \in Slots : s \notin calls[t].earlier
  BY <1>1 DEF ListInv, Order
<1>4. Order'
  <2> SUFFICES ASSUME NEW t \in Slots, NEW a \in Slots, a \in calls'[t].earlier
               PROVE  /\ calls'[a].stage # "none" /\ calls'[a].op = calls'[t].op
                      /\ calls'[a].kind = calls'[t].kind /\ t \notin calls'[a].earlier
                      /\ \A r \in Slots : r \in calls'[a].earlier => r \in calls'[t].earlier
    BY DEF Order
  <2>1. CASE t # s
    BY <1>1, <1>3, <2>1 DEF ListInv, Order
  <2>2. CASE t = s
    BY <1>1, <1>3, <2>2 DEF ListInv, Order, Sends, InFlight
  <2> QED
    BY <2>1, <2>2
<1>5. ASSUME NEW j \in Kinds, NEW b \in Slots
      PROVE  /\ Changes(b, j) => Changes(b, j)'
             /\ Lists(b, j) => Lists(b, j)' /\ b # s
             /\ Outdated(b, j)' => Outdated(b, j) /\ b # s
  BY <1>1, <1>2 DEF Changes, Lists, Outdated, Sends
<1>6. ASSUME NEW j \in Kinds, up PROVE Drawn(j)' /\ Answers(j)'
  <2>1. Drawn(j)'
    BY <1>2, <1>5, <1>6 DEF ListInv, Drawn, tables
  <2>2. ASSUME NEW t \in Slots, Outdated(t, j)'
        PROVE  \E b \in Slots : Changes(b, j)' \/ (Lists(b, j)' /\ t \in calls'[b].earlier)
    BY <1>1, <1>5, <1>6, <2>2 DEF ListInv, Answers
  <2> QED
    BY <2>1, <2>2 DEF Answers
<1>7. DownStale'
  BY <1>1, <1>2 DEF ListInv, DownStale, tables, Sends
<1>8. Tables'
  BY DEF ListInv, Tables, tables
<1> QED
  BY <1>2, <1>4, <1>6, <1>7, <1>8 DEF ListInv

(* A list that is under way is overtaken by lists alone.                    *)
LEMMA TakenLists ==
    ASSUME IInv, ListInv, NEW s \in Slots, TakenBy(s), calls'[s].stage \in {"none", "sent"},
           UNCHANGED <<up, relayMap>>, NEW j \in Kinds, NEW b \in Slots \ {s}
    PROVE  /\ Changes(b, j) => Changes(b, j)'
           /\ Lists(b, j) /\ b \notin calls[s].earlier => Lists(b, j)'
           /\ b \in calls[s].earlier => /\ calls[b].op = calls[s].op
                                        /\ calls[b].kind = calls[s].kind
           /\ Outdated(b, j)' => Outdated(b, j) /\ b \notin calls[s].earlier
           /\ Lists(b, j) /\ calls[s].stage = "failed" => b \notin calls[s].earlier
<1>1. b \in calls[s].earlier => calls[b].op = calls[s].op /\ calls[b].kind = calls[s].kind
  BY DEF ListInv, Order
<1>2. ASSUME Lists(b, j), b \notin calls[s].earlier PROVE Lists(b, j)'
  <2>1. ~calls'[b].late
    BY <1>2 DEF Lists, TakenBy, Hears
  <2>2. ASSUME NEW f \in Slots, b \in calls'[f].earlier PROVE calls'[f].stage # "failed"
    <3>1. CASE f = s
      BY <3>1
    <3>2. CASE f # s
      BY <1>2, <2>2, <3>2 DEF Lists, TakenBy, Hears
    <3> QED
      BY <3>1, <3>2
  <2> QED
    BY <1>2, <2>1, <2>2 DEF Lists, TakenBy, Hears
<1>3. Changes(b, j) => Changes(b, j)'
  BY DEF Changes, TakenBy, Hears
<1>4. Outdated(b, j)' => Outdated(b, j) /\ b \notin calls[s].earlier
  BY DEF Outdated, TakenBy, Hears
<1>5. Lists(b, j) /\ calls[s].stage = "failed" => b \notin calls[s].earlier
  BY DEF Lists
<1> QED
  BY <1>1, <1>2, <1>3, <1>4, <1>5

(* A callback that has nothing to do with lists.                            *)
LEMMA OtherTaken ==
    ASSUME IInv, ListInv, NEW s \in Slots, UNCHANGED <<up, relayMap, tables>>, TakenBy(s),
           \A k \in Kinds : ~Changes(s, k) /\ ~Lists(s, k),
           calls[s].stage = "failed" \/ calls[s].op # "list",
           \/ Frees(s)
           \/ \E op, k, id, data : Sends(s, op, k, id, data, InFlight(k, {op}) \ {s})
    PROVE  ListInv'
<1>1. Order' /\ Tables'
  BY TakenOrder DEF ListInv, TakenBy, Tables, tables
<1>2. calls'[s].stage \in {"none", "sent"}
  BY DEF Frees, Sends
<1>3. ASSUME NEW j \in Kinds, up PROVE Drawn(j)' /\ Answers(j)'
  <2>1. ASSUME NEW b \in Slots, Changes(b, j) PROVE Changes(b, j)'
    BY <1>2, <2>1, TakenLists
  <2>2. ASSUME NEW b \in Slots, Lists(b, j) PROVE Lists(b, j)' /\ b # s
    <3>1. b # s /\ calls[b].op = "list"
      BY <2>2 DEF Lists
    <3>2. b \notin calls[s].earlier
      BY <1>2, <2>2, <3>1, TakenLists
    <3> QED
      BY <1>2, <2>2, <3>1, <3>2, TakenLists
  <2>3. Drawn(j)'
    BY <1>3, <2>1, <2>2 DEF ListInv, Drawn, tables
  <2>4. ASSUME NEW t \in Slots, Outdated(t, j)'
        PROVE  \E b \in Slots : Changes(b, j)' \/ (Lists(b, j)' /\ t \in calls'[b].earlier)
    <3>1. t # s
      BY <1>2, <2>4 DEF Outdated
    <3>2. Outdated(t, j)
      BY <1>2, <2>4, <3>1, TakenLists
    <3>3. PICK b \in Slots : Changes(b, j) \/ (Lists(b, j) /\ t \in calls[b].earlier)
      BY <1>3, <3>2 DEF ListInv, Answers
    <3>4. b # s => calls'[b].earlier = calls[b].earlier \ {s}
      BY DEF TakenBy, Hears
    <3> QED
      BY <2>1, <2>2, <3>1, <3>3, <3>4
  <2> QED
    BY <2>3, <2>4 DEF Answers
<1>4. DownStale'
  BY <1>2 DEF ListInv, DownStale, tables, TakenBy, Hears
<1> QED
  BY <1>1, <1>3, <1>4 DEF ListInv

(* A callback that asks for a list.                                         *)
LEMMA ListTaken ==
    ASSUME IInv, ListInv, NEW s \in Slots, UNCHANGED <<up, relayMap, tables>>, TakenBy(s),
           NEW k \in Kinds, NEW id, NEW data,
           calls[s].op # "list", calls[s].op \in {"create", "delete"} => calls[s].kind = k,
           Sends(s, "list", k, id, data, InFlight(k, {"list"}) \ {s})
    PROVE  ListInv'
<1>1. Order' /\ Tables'
  BY TakenOrder DEF ListInv, TakenBy, Tables, tables
<1>2. calls'[s].stage = "sent"
  BY DEF Sends
<1>3. \A f \in Slots : s \notin calls'[f].earlier
  BY DEF TakenBy, Hears, Sends
<1>4. Lists(s, k)'
  BY <1>3 DEF Lists, Sends
<1>5. Drawn(k)'
  BY <1>4 DEF Drawn
<1>6. Answers(k)'
  <2> SUFFICES ASSUME NEW t \in Slots, Outdated(t, k)' PROVE t \in calls'[s].earlier
    BY <1>4 DEF Answers
  <2>1. t # s /\ calls[t].stage = "ok" /\ calls[t].kind = k /\ calls[t].op = "list"
    BY <1>2 DEF Outdated, TakenBy, Hears
  <2> QED
    BY <2>1 DEF Sends, InFlight
<1>7. ASSUME NEW j \in Kinds \ {k}, up PROVE Drawn(j)' /\ Answers(j)'
  <2>1. ASSUME NEW b \in Slots, Changes(b, j) PROVE Changes(b, j)' /\ b # s
    <3>1. b # s
      BY <1>7, <2>1 DEF Changes
    <3> QED
      BY <1>2, <2>1, <3>1, TakenLists
  <2>2. ASSUME NEW b \in Slots, Lists(b, j) PROVE Lists(b, j)' /\ b # s
    <3>1. b # s /\ calls[b].op = "list"
      BY <2>2 DEF Lists
    <3>2. b \notin calls[s].earlier
      BY <1>2, <3>1, TakenLists
    <3> QED
      BY <1>2, <2>2, <3>1, <3>2, TakenLists
  <2>3. Drawn(j)'
    BY <1>7, <2>1, <2>2 DEF ListInv, Drawn, tables
  <2>4. ASSUME NEW t \in Slots, Outdated(t, j)'
        PROVE  \E b \in Slots : Changes(b, j)' \/ (Lists(b, j)' /\ t \in calls'[b].earlier)
    <3>1. t # s
      BY <1>2, <2>4 DEF Outdated
    <3>2. Outdated(t, j)
      BY <1>2, <2>4, <3>1, TakenLists
    <3>3. PICK b \in Slots : Changes(b, j) \/ (Lists(b, j) /\ t \in calls[b].earlier)
      BY <1>7, <3>2 DEF ListInv, Answers
    <3>4. b # s => calls'[b].earlier = calls[b].earlier \ {s}
      BY DEF TakenBy, Hears
    <3> QED
      BY <2>1, <2>2, <3>1, <3>3, <3>4
  <2> QED
    BY <2>3, <2>4 DEF Answers
<1>8. DownStale'
  BY <1>2 DEF ListInv, DownStale, tables, TakenBy, Hears
<1> QED
  BY <1>1, <1>5, <1>6, <1>7, <1>8 DEF ListInv

(* A list is drawn. If it is old by now, a newer one is on its way.         *)
LEMMA ListDrawn ==
    ASSUME IInv, ListInv, NEW s \in Slots, ListAnswered(s)
    PROVE  ListInv'
<1>1. PICK k \in Kinds : Shape /\ k = calls[s].kind
  BY DEF IInv, MapInv, Shape, IsCall
<1>2. /\ calls[s].op = "list" /\ calls[s].stage = "ok" /\ TakenBy(s) /\ Frees(s)
      /\ list' = [list EXCEPT ![k] = calls[s].got]
      /\ stale' = [stale EXCEPT ![k] = calls[s].late]
      /\ listed' = [listed EXCEPT ![k] = TRUE]
      /\ UNCHANGED <<up, relayMap>>
  BY <1>1, DoneCalls DEF ListAnswered, Success, Quiet, instances
<1>3. Order'
  BY <1>2, TakenOrder DEF ListInv, TakenBy
<1>9. Tables'
  <2>1. calls[s].late \in BOOLEAN
    BY <1>1 DEF Shape, IsCall
  <2> QED
    BY <1>2, <2>1 DEF ListInv, Tables
<1>4. calls'[s].stage \in {"none", "sent"}
  BY <1>2 DEF Frees
<1>5. ASSUME NEW j \in Kinds, up PROVE Answers(j)'
  <2> SUFFICES ASSUME NEW t \in Slots, Outdated(t, j)'
               PROVE  \E b \in Slots : Changes(b, j)' \/ (Lists(b, j)' /\ t \in calls'[b].earlier)
    BY DEF Answers
  <2>1. t # s
    BY <1>4 DEF Outdated
  <2>2. Outdated(t, j) /\ t \notin calls[s].earlier
    BY <1>2, <1>4, <2>1, TakenLists
  <2>3. PICK b \in Slots : Changes(b, j) \/ (Lists(b, j) /\ t \in calls[b].earlier)
    BY <1>5, <2>2 DEF ListInv, Answers
  <2>4. CASE Changes(b, j)
    <3>1. b # s
      BY <1>2, <2>4 DEF Changes
    <3> QED
      BY <1>2, <1>4, <2>4, <3>1, TakenLists
  <2>5. CASE Lists(b, j) /\ t \in calls[b].earlier
    <3>1. b # s
      BY <2>2, <2>5
    <3>2. b \notin calls[s].earlier
      BY <2>2, <2>5 DEF ListInv, Order
    <3> QED
      BY <1>2, <1>4, <2>1, <2>5, <3>1, <3>2, TakenLists DEF TakenBy, Hears
  <2> QED
    BY <2>3, <2>4, <2>5
<1>6. ASSUME NEW j \in Kinds \ {k}, up PROVE Drawn(j)'
  <2> SUFFICES ASSUME listed'[j], ~stale'[j], list'[j] # relayMap'[j]
               PROVE  \E b \in Slots : Changes(b, j)' \/ Lists(b, j)'
    BY DEF Drawn
  <2>1. listed[j] /\ ~stale[j] /\ list[j] # relayMap[j]
    BY <1>2, <1>6 DEF ListInv, Tables
  <2>2. PICK b \in Slots : Changes(b, j) \/ Lists(b, j)
    BY <1>6, <2>1 DEF ListInv, Drawn
  <2>3. b # s /\ calls[b].kind = j
    BY <1>1, <1>6, <2>2 DEF Changes, Lists
  <2> QED
    BY <1>1, <1>2, <1>4, <1>6, <2>2, <2>3, TakenLists
<1>7. ASSUME up PROVE Drawn(k)'
  <2> SUFFICES ASSUME ~stale'[k], list'[k] # relayMap'[k]
               PROVE  \E b \in Slots : Changes(b, k)' \/ Lists(b, k)'
    BY DEF Drawn
  <2>1. Outdated(s, k)
    <3>1. stale'[k] = calls[s].late /\ list'[k] = calls[s].got
      BY <1>2 DEF ListInv, Tables
    <3> QED
      BY <1>1, <1>2, <3>1 DEF Outdated
  <2>2. PICK b \in Slots : Changes(b, k) \/ (Lists(b, k) /\ s \in calls[b].earlier)
    BY <1>7, <2>1 DEF ListInv, Answers
  <2>3. CASE Changes(b, k)
    <3>1. b # s
      BY <1>2, <2>3 DEF Changes
    <3> QED
      BY <1>2, <1>4, <2>3, <3>1, TakenLists
  <2>4. CASE Lists(b, k) /\ s \in calls[b].earlier
    <3>1. b # s /\ b \notin calls[s].earlier
      BY <2>4 DEF ListInv, Order
    <3> QED
      BY <1>2, <1>4, <2>4, <3>1, TakenLists
  <2> QED
    BY <2>2, <2>3, <2>4
<1>8. DownStale'
  <2> SUFFICES ASSUME ~up
               PROVE  /\ \A j \in Kinds : stale'[j]
                      /\ \A t \in Slots : calls'[t].op = "list" /\ calls'[t].stage = "ok"
                                              => calls'[t].late
    BY <1>2 DEF DownStale
  <2>1. calls[s].late /\ \A j \in Kinds : stale[j]
    BY <1>2 DEF ListInv, DownStale
  <2>2. \A j \in Kinds : stale'[j]
    BY <1>2, <2>1
  <2> QED
    BY <1>2, <1>4, <2>2 DEF ListInv, DownStale, TakenBy, Hears
<1> QED
  BY <1>2, <1>3, <1>5, <1>6, <1>7, <1>8, <1>9 DEF ListInv

(* An error is shown: a creation that failed is an excuse for the lists.    *)
LEMMA ErrorCalls ==
    ASSUME Shape, NEW s \in Slots, ErrorShown(s)
    PROVE  /\ Frees(s)
           /\ FailedBy(s, calls[s].kind)
<1> DEFINE late(t) == Taken(s)[t].late
                      \/ (calls[s].op = "create" /\ t \in InFlight(calls[s].kind, {"list"}))
           d == Taken(s)
<1>1. calls' = [t \in Slots |-> [d[t] EXCEPT !.late = late(t)]]
  BY DEF ErrorShown
<1>2. /\ \A t \in Slots : IsCall(d[t])
      /\ \A t \in Slots \ {s} :
             /\ d[t].op = calls[t].op /\ d[t].kind = calls[t].kind
             /\ d[t].id = calls[t].id /\ d[t].stage = calls[t].stage
             /\ d[t].inst = calls[t].inst /\ d[t].got = calls[t].got
             /\ d[t].data = calls[t].data /\ d[t].earlier = calls[t].earlier \ {s}
      /\ d[s].op = "none" /\ d[s].stage = "none" /\ d[s].earlier = {} /\ d[s].data = NoConfig
  BY TakenCalls, NothingFields
<1>7. late(s) = FALSE
  BY TakenCalls, NothingFields DEF InFlight
<1>8. ASSUME NEW t \in Slots \ {s}
      PROVE  late(t) = (\/ calls[t].late \/ t \in calls[s].earlier
                        \/ /\ calls[s].op = "create"
                           /\ t \in InFlight(calls[s].kind, {"list"}))
  BY TakenCalls
<1> HIDE DEF d, late
<1>3. ASSUME NEW t \in Slots
      PROVE  /\ calls'[t].op = d[t].op /\ calls'[t].kind = d[t].kind
             /\ calls'[t].id = d[t].id /\ calls'[t].stage = d[t].stage
             /\ calls'[t].inst = d[t].inst /\ calls'[t].got = d[t].got
             /\ calls'[t].data = d[t].data /\ calls'[t].earlier = d[t].earlier
             /\ calls'[t].late = late(t)
  <2>1. calls'[t] = [d[t] EXCEPT !.late = late(t)]
    BY <1>1
  <2> DEFINE c == d[t]
  <2>2. IsCall(c)
    BY <1>2
  <2> HIDE DEF c
  <2> QED
    BY <2>1, <2>2 DEF IsCall, c
<1>4. Hears(s)
  BY <1>2, <1>3 DEF Hears
<1>5. ASSUME NEW t \in Slots \ {s}
      PROVE  calls'[t].late = (\/ calls[t].late \/ t \in calls[s].earlier
                               \/ /\ calls[s].op = "create"
                                  /\ t \in InFlight(calls[s].kind, {"list"}))
  <2>1. calls'[t].late = late(t)
    BY <1>3
  <2> QED
    BY <1>8, <2>1
<1>6. Frees(s)
  BY <1>2, <1>3, <1>7 DEF Frees
<1> QED
  BY <1>4, <1>5, <1>6 DEF FailedBy

(* What it is to the lists.                                                 *)
LEMMA ErrorLists ==
    ASSUME IInv, ListInv, NEW s \in Slots, ErrorShown(s)
    PROVE  ListInv'
<1>1. PICK k \in Kinds : Shape /\ k = calls[s].kind
  BY DEF IInv, MapInv, Shape, IsCall
<1>2. /\ calls[s].stage = "failed" /\ UNCHANGED <<up, relayMap, list, listed>> /\ Frees(s)
      /\ stale' = [stale EXCEPT ![k] = @ \/ calls[s].op = "create"]
      /\ FailedBy(s, k)
  BY <1>1, ErrorCalls DEF ErrorShown, Quiet, instances
<1>5. Hears(s)
  BY <1>2 DEF FailedBy
<1>6. ASSUME NEW t \in Slots \ {s}
      PROVE  calls'[t].late <=>
                 \/ calls[t].late \/ t \in calls[s].earlier
                 \/ /\ calls[s].op = "create" /\ calls[t].op = "list" /\ calls[t].kind = k
                    /\ calls[t].stage # "none"
  BY <1>2 DEF FailedBy, InFlight
<1>3. CASE calls[s].op # "create"
  <2>1. TakenBy(s)
    BY <1>2, <1>3 DEF TakenBy, FailedBy
  <2>2. UNCHANGED tables
    BY <1>2, <1>3 DEF ListInv, Tables, tables
  <2>3. \A j \in Kinds : ~Changes(s, j) /\ ~Lists(s, j)
    BY <1>2, <1>3 DEF Changes, Lists
  <2> QED
    BY <1>2, <2>1, <2>2, <2>3, OtherTaken
<1>4. CASE calls[s].op = "create"
  <2>1. Order'
    BY <1>2, TakenOrder DEF ListInv, FailedBy
  <2>2. Tables' /\ stale'[k] = TRUE /\ \A j \in Kinds \ {k} : stale'[j] = stale[j]
    BY <1>2, <1>4 DEF ListInv, Tables
  <2>3. ASSUME NEW t \in Slots, calls'[t].op = "list"
        PROVE  /\ t # s /\ calls[t].op = "list" /\ calls'[t].kind = calls[t].kind
               /\ calls'[t].stage = calls[t].stage /\ calls'[t].got = calls[t].got
               /\ calls[t].late => calls'[t].late
    BY <1>2, <1>5, <1>6, <2>3 DEF Frees, Hears
  <2>4. DownStale'
    BY <1>2, <2>2, <2>3 DEF ListInv, DownStale
  <2>5. Drawn(k)'
    BY <2>2 DEF Drawn
  <2>6. Answers(k)'
    <3>1. \A t \in Slots : ~Outdated(t, k)'
      <4> SUFFICES ASSUME NEW t \in Slots, Outdated(t, k)' PROVE FALSE
        OBVIOUS
      <4>1. /\ calls'[t].op = "list" /\ calls'[t].kind = k /\ calls'[t].stage = "ok"
            /\ ~calls'[t].late
        BY DEF Outdated
      <4>2. t \in Slots \ {s} /\ calls[t].op = "list" /\ calls[t].kind = k /\ calls[t].stage = "ok"
        BY <2>3, <4>1
      <4> QED
        BY <1>4, <1>6, <4>1, <4>2
    <3> QED
      BY <3>1 DEF Answers
  <2>7. ASSUME NEW j \in Kinds \ {k}, up PROVE Drawn(j)' /\ Answers(j)'
    <3>1. ASSUME NEW b \in Slots, Changes(b, j) PROVE Changes(b, j)' /\ b # s
      BY <1>1, <1>5, <2>7, <3>1 DEF Changes, Hears
    <3>2. ASSUME NEW b \in Slots, Lists(b, j) PROVE Lists(b, j)' /\ b # s
      <4>1. b # s /\ b \notin calls[s].earlier /\ calls[b].kind # k
        BY <1>1, <1>2, <1>4, <2>7, <3>2 DEF Lists, ListInv, Order
      <4>2. ~calls'[b].late
        BY <1>6, <3>2, <4>1 DEF Lists
      <4>3. ASSUME NEW f \in Slots, b \in calls'[f].earlier PROVE calls'[f].stage # "failed"
        BY <1>2, <1>5, <3>2, <4>3 DEF Lists, Frees, Hears
      <4> QED
        BY <1>2, <1>5, <3>2, <4>1, <4>2, <4>3 DEF Lists, Hears
    <3>3. Drawn(j)'
      BY <1>2, <2>2, <2>7, <3>1, <3>2 DEF ListInv, Drawn
    <3>4. ASSUME NEW t \in Slots, Outdated(t, j)'
          PROVE  \E b \in Slots : Changes(b, j)' \/ (Lists(b, j)' /\ t \in calls'[b].earlier)
      <4>1. t # s /\ Outdated(t, j)
        BY <1>2, <2>3, <3>4 DEF Outdated
      <4>2. PICK b \in Slots : Changes(b, j) \/ (Lists(b, j) /\ t \in calls[b].earlier)
        BY <2>7, <4>1 DEF ListInv, Answers
      <4>3. b # s => calls'[b].earlier = calls[b].earlier \ {s}
        BY <1>5 DEF Hears
      <4> QED
        BY <3>1, <3>2, <4>1, <4>2, <4>3
    <3> QED
      BY <3>3, <3>4 DEF Answers
  <2> QED
    BY <1>2, <2>1, <2>2, <2>4, <2>5, <2>6, <2>7 DEF ListInv
<1> QED
  BY <1>3, <1>4

(* The answers that the page takes, and what is clicked.                    *)
LEMMA CallbackLists ==
    ASSUME IInv, ListInv, NEW s \in Slots, Callback(s)
    PROVE  ListInv'
<1>1. Shape /\ calls[s].kind \in Kinds /\ "client" \in Kinds /\ "server" \in Kinds
  BY DEF IInv, MapInv, Shape, IsCall, Kinds
<1> DEFINE NewList == \E k \in Kinds :
                          /\ calls[s].op # "list"
                          /\ calls[s].op \in {"create", "delete"} => calls[s].kind = k
                          /\ Then(s, "list", k)
           Other == /\ calls[s].stage = "ok" /\ calls[s].op \notin {"create", "delete", "list"}
                    /\ Done(s) \/ \E op, k : Then(s, op, k)
<1>2. ASSUME NewList, UNCHANGED <<up, relayMap, tables>> PROVE ListInv'
  <2>1. PICK k \in Kinds : /\ calls[s].op # "list"
                           /\ calls[s].op \in {"create", "delete"} => calls[s].kind = k
                           /\ Then(s, "list", k)
    BY <1>2
  <2>2. /\ TakenBy(s)
        /\ Sends(s, "list", k, instance_id[k], NoConfig, InFlight(k, {"list"}) \ {s})
    BY <1>1, <2>1, ThenCalls
  <2> QED
    BY <1>2, <2>1, <2>2, ListTaken
<1>3. ASSUME Other, UNCHANGED <<up, relayMap, tables>> PROVE ListInv'
  <2>1. TakenBy(s) /\ (\/ Frees(s)
                       \/ \E op, k, id, data : Sends(s, op, k, id, data, InFlight(k, {op}) \ {s}))
    <3>1. CASE Done(s)
      BY <1>1, <3>1, DoneCalls
    <3>2. ASSUME NEW op, NEW k, Then(s, op, k)
          PROVE  TakenBy(s) /\ \E id, data : Sends(s, op, k, id, data, InFlight(k, {op}) \ {s})
      BY <1>1, <3>2, ThenCalls
    <3> QED
      BY <1>3, <3>1, <3>2
  <2>2. \A k \in Kinds : ~Changes(s, k) /\ ~Lists(s, k)
    BY <1>3 DEF Changes, Lists
  <2> QED
    BY <1>3, <2>1, <2>2, OtherTaken
<1>4. CASE Created(s) \/ Deleted(s) \/ Restarted(s) \/ Saved(s)
  <2>1. NewList /\ UNCHANGED <<up, relayMap, tables>>
    BY <1>1, <1>4 DEF Created, Deleted, Restarted, Saved, Success, Quiet, instances, pageVars
  <2> QED
    BY <1>2, <2>1
<1>5. CASE Connected(s) \/ ServerAddrUpdated(s) \/ ConnectionsAnswered(s) \/ SessionsAnswered(s)
           \/ ServerTrackerAnswered(s) \/ ClientTrackerAnswered(s) \/ TrackerSet(s)
  <2>1. Other /\ UNCHANGED <<up, relayMap, tables>>
    BY <1>5 DEF Connected, ServerAddrUpdated, ConnectionsAnswered, SessionsAnswered,
                ServerTrackerAnswered, ClientTrackerAnswered, TrackerAnswered, TrackerSet,
                Success, Quiet, instances, pageVars, tables
  <2> QED
    BY <1>3, <2>1
<1>6. CASE ListAnswered(s)
  BY <1>6, ListDrawn
<1>7. CASE ErrorShown(s)
  BY <1>7, ErrorLists
<1> QED
  BY <1>4, <1>5, <1>6, <1>7 DEF Callback

(* A click draws no list.                                                   *)
LEMMA ClickLists ==
    ASSUME IInv, ListInv, (\E k \in Kinds : Click(k)) \/ Buttons
    PROVE  ListInv'
<1> DEFINE Asked == \E op, k, id, data : Ajax(op, k, id, data)
<1>1. ASSUME Asked, UNCHANGED tables PROVE ListInv'
  BY <1>1, AjaxLists
<1>2. ASSUME UNCHANGED <<calls, tables, up, relayMap>> PROVE ListInv'
  <2>1. Order' /\ DownStale' /\ Tables'
    BY <1>2 DEF ListInv, Order, DownStale, Tables, tables
  <2>2. ASSUME NEW k \in Kinds, up PROVE Drawn(k)' /\ Answers(k)'
    BY <1>2, <2>2 DEF ListInv, Drawn, Answers, Outdated, Changes, Lists, tables
  <2> QED
    BY <1>2, <2>1, <2>2 DEF ListInv
<1>3. UNCHANGED tables /\ (Asked \/ UNCHANGED <<calls, up, relayMap>>)
  <2>1. ASSUME NEW k \in Kinds, Click(k)
        PROVE  UNCHANGED tables /\ (Asked \/ UNCHANGED <<calls, up, relayMap>>)
    <3>1. CASE ClickList(k) \/ Delete(k) \/ ClickConnections(k) \/ ClickSessions(k)
               \/ ClickTracker(k) \/ ClickSetTracker(k)
      BY <3>1 DEF ClickList, Delete, ClickConnections, ClickSessions, ClickTracker, ClickSetTracker
    <3>2. CASE ShowCreate(k) \/ CreateByLink(k) \/ \E id \in Ids : Show(k, id)
      BY <3>2 DEF ShowCreate, CreateByLink, Show, Quiet, instances
    <3>3. ASSUME NEW id, NEW config, Create(k, id, config) PROVE UNCHANGED tables /\ Asked
      BY <3>3 DEF Create
    <3> QED
      BY <2>1, <3>1, <3>2, <3>3 DEF Click
  <2>2. CASE Buttons
    BY <2>2 DEF Buttons, CloseModal, Connect, Restart, UpdateServerAddr, SaveConfig, Quiet, instances
  <2> QED
    BY <2>1, <2>2
<1> QED
  BY <1>1, <1>2, <1>3

(* A program that dies or starts is an excuse for every list.               *)
LEMMA ProcessLists == IInv /\ ListInv /\ Process => ListInv'
<1> SUFFICES ASSUME IInv, ListInv, Process PROVE ListInv'
  OBVIOUS
<1>1. stale' = [k \in Kinds |-> TRUE] /\ UNCHANGED <<list, listed>>
  BY DEF Process
<1>2. /\ \A t \in Slots : /\ calls'[t].op = calls[t].op /\ calls'[t].kind = calls[t].kind
                          /\ calls'[t].earlier = calls[t].earlier
                          /\ calls'[t].stage = "none" <=> calls[t].stage = "none"
                          /\ calls'[t].op = "list" /\ calls'[t].stage = "ok" => calls'[t].late
  <2> SUFFICES ASSUME NEW t \in Slots
               PROVE  /\ calls'[t].op = calls[t].op /\ calls'[t].kind = calls[t].kind
                      /\ calls'[t].earlier = calls[t].earlier
                      /\ calls'[t].stage = "none" <=> calls[t].stage = "none"
                      /\ calls'[t].op = "list" /\ calls'[t].stage = "ok" => calls'[t].late
    OBVIOUS
  <2>1. CASE Crash
    <3>1. CASE calls[t].stage = "none"
      BY <2>1, <3>1 DEF Crash
    <3>2. CASE calls[t].stage # "none"
      <4> DEFINE stage == IF calls[t].stage = "ok" THEN "ok" ELSE "failed"
      <4>1. calls'[t] = [calls[t] EXCEPT !.late = TRUE, !.stage = stage]
        BY <2>1, <3>2 DEF Crash
      <4>2. IsCall(calls[t])
        BY DEF IInv, MapInv, Shape
      <4>3. calls'[t] = [op |-> calls[t].op, kind |-> calls[t].kind, id |-> calls[t].id,
                         data |-> calls[t].data, stage |-> stage, inst |-> calls[t].inst,
                         got |-> calls[t].got, earlier |-> calls[t].earlier, late |-> TRUE]
        BY <4>1, <4>2 DEF IsCall
      <4> QED
        BY <3>2, <4>3
    <3> QED
      BY <3>1, <3>2
  <2>2. CASE ~Crash
    BY <2>2 DEF Process, Start, ListInv, DownStale
  <2> QED
    BY <2>1, <2>2
<1>3. Order'
  BY <1>2 DEF ListInv, Order
<1>4. Tables' /\ \A k \in Kinds : stale'[k]
  BY <1>1 DEF ListInv, Tables
<1>5. DownStale'
  BY <1>2, <1>4 DEF DownStale
<1>6. \A k \in Kinds : Drawn(k)' /\ Answers(k)'
  BY <1>2, <1>4 DEF Drawn, Answers, Outdated
<1> QED
  BY <1>3, <1>4, <1>5, <1>6 DEF ListInv

(* At first one list is asked for, and none is there.                       *)
LEMMA InitLists == Init => ListInv
<1> SUFFICES ASSUME Init PROVE ListInv
  OBVIOUS
<1>1. PICK r \in Slots :
          calls = [t \in Slots |-> IF t = r THEN Request("list", "client", 0, NoConfig, {})
                                    ELSE Nothing]
  BY DEF Init
<1>2. \A t \in Slots : calls[t].earlier = {} /\ calls[t].stage \in {"none", "sent"}
  BY <1>1, NothingFields DEF Request
<1>3. Order /\ DownStale /\ \A k \in Kinds : Answers(k)
  BY <1>2 DEF Init, Order, DownStale, Answers, Outdated
<1>4. Tables /\ \A k \in Kinds : Drawn(k)
  BY DEF Init, Tables, Drawn
<1> QED
  BY <1>3, <1>4 DEF ListInv

(* Every step keeps the invariant.                                          *)
LEMMA NextLists == IInv /\ ListInv /\ [Next]_vars => ListInv'
<1> SUFFICES ASSUME IInv, ListInv, [Next]_vars PROVE ListInv'
  OBVIOUS
<1>1. CASE UNCHANGED vars
  <2>1. Order' /\ DownStale' /\ Tables'
    BY <1>1 DEF ListInv, Order, DownStale, Tables, tables, vars, registryVars, pageVars
  <2>2. ASSUME NEW k \in Kinds, up PROVE Drawn(k)' /\ Answers(k)'
    BY <1>1, <2>2 DEF ListInv, Drawn, Answers, Outdated, Changes, Lists, tables,
                      vars, registryVars, instances, pageVars
  <2> QED
    BY <1>1, <2>1, <2>2 DEF ListInv, vars, registryVars
<1>2. CASE Next
  BY <1>2, HandleLists, CallbackLists, ClickLists, ProcessLists DEF Next
<1> QED
  BY <1>1, <1>2

(* When nothing that changes or lists the instances of a kind is under way, *)
(* the page shows what there is, whatever the order of requests and answers *)
(* was: index.js asks for the list again after each of them (58-109,        *)
(* 313-422, 480-514).                                                       *)
THEOREM SpecListSettles == Spec => []ListSettles
<1>1. Init => IInv /\ ListInv
  BY InitIInv, InitLists
<1>2. IInv /\ ListInv /\ [Next]_vars => (IInv /\ ListInv)'
  BY NextIInv, NextLists
<1> QED
  BY <1>1, <1>2, ListInvSettles, PTL DEF Spec

-----------------------------------------------------------------------------
(* Types, and the two kinds of instances.                                   *)

Typed(es) == \A id \in DOMAIN es : id \in Ids /\ es[id].config \in AllConfigs

RegistryTyped ==
    /\ born \in 0..MaxBorn
    /\ trackerConfig \in [Instances -> AllConfigs]
    /\ \A k \in Kinds : DOMAIN relayMap[k] \subseteq Ids /\ Typed(file[k])

CallTyped(c) ==
    /\ c.data \in AllConfigs
    /\ c.op = "create" /\ c.stage = "made" => c.id \in Ids
    /\ c.op = "list" /\ c.stage = "ok" => DOMAIN c.got \subseteq Ids
    /\ c.op \in Queries /\ c.stage = "ok" =>
           c.got.inst \in Instances /\ c.got.config \in AllConfigs
    /\ c.op = "save" /\ c.stage \in Reading => \A k \in Kinds : Typed(c.got[k])

PageTyped ==
    /\ situation \in Situations /\ modal \in Modals /\ draft \in AllConfigs
    /\ form \in [Kinds -> AllConfigs]
    /\ instance_id \in [Kinds -> Ids \union {0}]
    /\ table \in [Kinds -> Instances \union {NoInstance}]
    /\ link = [k \in Kinds |-> link[k]]
    /\ \A k \in Kinds : link[k].config \in AllConfigs /\ DOMAIN list[k] \subseteq Ids

(* Where an instance of a kind may be.                                      *)
ToWrite(s, k) == {calls[s].got[k][id].inst : id \in DOMAIN calls[s].got[k]}
Places(k) ==
    running[k] \union Registered(k)
    \union {file[k][id].inst : id \in DOMAIN file[k]}
    \union {calls[s].inst : s \in {t \in Slots : calls[t].kind = k /\ calls[t].stage \in Busy}}
    \union UNION {ToWrite(s, k) : s \in {t \in Slots : /\ calls[t].op = "save"
                                                     /\ calls[t].stage \in Reading}}

Apart == Places("server") \intersect Places("client") = {}

TypeInv == RegistryTyped /\ (\A s \in Slots : CallTyped(calls[s])) /\ Apart

(* What is needed of the other invariants.                                  *)
LEMMA TypeCorrectOf == IInv /\ ListInv /\ TypeInv /\ PageTyped => TypeOK
<1> SUFFICES ASSUME IInv, ListInv, TypeInv, PageTyped PROVE TypeOK
  OBVIOUS
<1>1. /\ up \in BOOLEAN /\ born \in 0..MaxBorn
      /\ trackerConfig \in [Instances -> AllConfigs] /\ modal \in Modals
  BY DEF IInv, MapInv, Shape, TypeInv, RegistryTyped, PageTyped
<1>2. ASSUME NEW k \in Kinds
      PROVE  /\ DOMAIN relayMap[k] \subseteq Ids
             /\ Registered(k) \union running[k] \subseteq 1..born
             /\ DOMAIN list[k] \subseteq Ids
             /\ instance_id[k] \in Ids \union {0}
             /\ table[k] \in Instances \union {NoInstance}
             /\ form[k] \in AllConfigs /\ link[k].config \in AllConfigs
             /\ contended[k] \in BOOLEAN /\ stale[k] \in BOOLEAN
  <2>1. Registered(k) \union running[k] \subseteq 1..born
    BY DEF IInv, MapInv, Numbered
  <2>2. contended[k] \in BOOLEAN /\ stale[k] \in BOOLEAN
    BY DEF IInv, MapInv, Shape, ListInv, Tables
  <2> QED
    BY <2>1, <2>2 DEF TypeInv, RegistryTyped, PageTyped
<1>3. Shown \subseteq AllConfigs
  <2>1. \A k \in Kinds : {form[k], link[k].config} \subseteq AllConfigs
    BY <1>2
  <2>2. {draft} \subseteq AllConfigs
    BY DEF PageTyped
  <2> HIDE DEF AllConfigs
  <2>3. UNION {{form[k], link[k].config} : k \in Kinds} \subseteq AllConfigs
    <3> SUFFICES ASSUME NEW c \in UNION {{form[k], link[k].config} : k \in Kinds}
                 PROVE  c \in AllConfigs
      OBVIOUS
    <3>1. PICK k \in Kinds : c \in {form[k], link[k].config}
      OBVIOUS
    <3> QED
      BY <2>1, <3>1
  <2> QED
    BY <2>2, <2>3 DEF Shown
<1>4. \A s \in Slots : calls[s].stage \in {"made", "found", "closed", "removed"} =>
          calls[s].inst \in 1..born
  BY <1>1 DEF IInv, MapInv, Numbered, Busy
<1>5. running["server"] \intersect running["client"] = {}
  <2>1. running["server"] \subseteq Places("server") /\ running["client"] \subseteq Places("client")
    BY DEF Places
  <2> QED
    BY <2>1 DEF TypeInv, Apart
<1>6. {contended[k] : k \in Kinds} \union {stale[k] : k \in Kinds} \subseteq BOOLEAN
  <2>1. \A k \in Kinds : contended[k] \in BOOLEAN /\ stale[k] \in BOOLEAN
    BY <1>2
  <2> QED
    BY <2>1
<1> QED
  BY <1>1, <1>2, <1>3, <1>4, <1>5, <1>6 DEF TypeOK

(* The places of instances that were made.                                  *)
LEMMA PlacesMade ==
    ASSUME IInv, NEW k \in Kinds
    PROVE  Places(k) \subseteq 1..born
<1> SUFFICES ASSUME NEW i \in Places(k) PROVE i \in 1..born
  OBVIOUS
<1>1. born \in Nat
  BY DEF IInv, MapInv, Shape
<1>2. CASE i \in running[k] \union Registered(k)
  BY <1>2 DEF IInv, MapInv, Numbered
<1>3. CASE \E id \in DOMAIN file[k] : i = file[k][id].inst
  BY <1>3 DEF IInv, FileInv, EntriesOK
<1>4. CASE \E s \in Slots : calls[s].stage \in Busy /\ i = calls[s].inst
  BY <1>1, <1>4 DEF IInv, MapInv, Numbered
<1>5. CASE \E s \in Slots : /\ calls[s].op = "save" /\ calls[s].stage \in Reading
                            /\ \E id \in DOMAIN calls[s].got[k] : i = calls[s].got[k][id].inst
  <2>1. PICK s \in Slots : /\ calls[s].op = "save" /\ calls[s].stage \in Reading
                           /\ \E id \in DOMAIN calls[s].got[k] : i = calls[s].got[k][id].inst
    BY <1>5
  <2>2. EntriesOK(calls[s].got["client"]) /\ EntriesOK(calls[s].got["server"])
    BY <2>1 DEF IInv, FileInv
  <2> QED
    BY <2>1, <2>2 DEF EntriesOK, Kinds
<1> QED
  BY <1>2, <1>3, <1>4, <1>5 DEF Places, ToWrite

(* The same instance is in no place of the other kind as long as none moves *)
(* to a place of another kind.                                              *)
LEMMA PlacesKept ==
    ASSUME NEW k \in Kinds, NEW M,
           running'[k] \subseteq M, Registered(k)' \subseteq M,
           \A id \in DOMAIN file'[k] : file'[k][id].inst \in M,
           \A s \in Slots : calls'[s].kind = k /\ calls'[s].stage \in Busy => calls'[s].inst \in M,
           \A s \in Slots : calls'[s].op = "save" /\ calls'[s].stage \in Reading =>
               \A id \in DOMAIN calls'[s].got[k] : calls'[s].got[k][id].inst \in M
    PROVE  Places(k)' \subseteq M
BY DEF Places, ToWrite

(* What is in the places.                                                   *)
LEMMA InPlaces ==
    ASSUME NEW k \in Kinds
    PROVE  /\ running[k] \subseteq Places(k) /\ Registered(k) \subseteq Places(k)
           /\ \A id \in DOMAIN file[k] : file[k][id].inst \in Places(k)
           /\ \A s \in Slots : calls[s].kind = k /\ calls[s].stage \in Busy =>
                  calls[s].inst \in Places(k)
           /\ \A s \in Slots : calls[s].op = "save" /\ calls[s].stage \in Reading =>
                  \A id \in DOMAIN calls[s].got[k] : calls[s].got[k][id].inst \in Places(k)
<1>1. running[k] \subseteq Places(k) /\ Registered(k) \subseteq Places(k)
  BY DEF Places
<1>2. \A id \in DOMAIN file[k] : file[k][id].inst \in Places(k)
  BY DEF Places
<1>3. \A s \in Slots : calls[s].kind = k /\ calls[s].stage \in Busy => calls[s].inst \in Places(k)
  BY DEF Places
<1>4. ASSUME NEW s \in Slots, calls[s].op = "save", calls[s].stage \in Reading,
             NEW id \in DOMAIN calls[s].got[k]
      PROVE  calls[s].got[k][id].inst \in Places(k)
  <2>1. calls[s].got[k][id].inst \in ToWrite(s, k)
    BY DEF ToWrite
  <2> QED
    BY <1>4, <2>1 DEF Places
<1> QED
  BY <1>1, <1>2, <1>3, <1>4

(* Nothing but the request of s, and what is not written yet, moves.        *)
LEMMA OneTyped ==
    ASSUME IInv, TypeInv, NEW s \in Slots, RegistryTyped',
           \A t \in Slots \ {s} : calls'[t] = calls[t], CallTyped(calls'[s]),
           calls'[s].kind = calls[s].kind,
           \A k \in Kinds :
               /\ running'[k] \subseteq Places(k) /\ Registered(k)' \subseteq Places(k)
               /\ \A id \in DOMAIN file'[k] : file'[k][id].inst \in Places(k)
               /\ calls[s].kind = k /\ calls'[s].stage \in Busy => calls'[s].inst \in Places(k)
               /\ calls'[s].op = "save" /\ calls'[s].stage \in Reading =>
                      \A id \in DOMAIN calls'[s].got[k] : calls'[s].got[k][id].inst \in Places(k)
    PROVE  TypeInv'
<1>1. ASSUME NEW k \in Kinds PROVE Places(k)' \subseteq Places(k)
  <2>1. \A t \in Slots : calls'[t].kind = k /\ calls'[t].stage \in Busy =>
            calls'[t].inst \in Places(k)
    BY InPlaces
  <2>2. \A t \in Slots : calls'[t].op = "save" /\ calls'[t].stage \in Reading =>
            \A id \in DOMAIN calls'[t].got[k] : calls'[t].got[k][id].inst \in Places(k)
    BY InPlaces
  <2> HIDE DEF Places
  <2> QED
    BY <2>1, <2>2, PlacesKept
<1>2. Apart'
  BY <1>1 DEF TypeInv, Apart, Kinds
<1>3. \A t \in Slots : CallTyped(calls[t])'
  BY DEF TypeInv, CallTyped
<1> QED
  BY <1>2, <1>3 DEF TypeInv

-----------------------------------------------------------------------------
(* The handlers.                                                            *)

(* The answer to a request that changes no instance.                        *)
LEMMA AnsweredTyped ==
    ASSUME IInv, TypeInv, NEW s \in Slots, RegistryTyped',
           UNCHANGED <<relayMap, running, file>>,
           NEW stage \in {"ok", "failed"}, Calls(s, calls[s].id, stage, calls[s].inst),
           stage = "failed" \/ CallTyped(calls'[s])
    PROVE  TypeInv'
<1>1. CallTyped(calls'[s])
  BY DEF Calls, TypeInv, CallTyped, Reading
<1>2. \A k \in Kinds : Registered(k)' = Registered(k)
  BY DEF Registered
<1> QED
  BY <1>1, <1>2, InPlaces, OneTyped DEF Calls, Busy, Reading

(* Creations. The new instance is in no other place.                        *)
LEMMA CreateTyped ==
    ASSUME IInv, TypeInv, NEW s \in Slots,
           CreateRefused(s) \/ MakeHalf(s) \/ (\E id \in Ids : Make(s, id)) \/ Register(s)
    PROVE  TypeInv'
<1>1. PICK k \in Kinds : Shape /\ k = calls[s].kind /\ born \in Nat
  BY DEF IInv, MapInv, Shape, IsCall
<1>2. RegistryTyped /\ CallTyped(calls[s])
  BY DEF TypeInv
<1>3. CASE CreateRefused(s)
  <2>1. /\ UNCHANGED <<relayMap, running, file, born, trackerConfig>>
        /\ Calls(s, calls[s].id, "failed", calls[s].inst)
    BY <1>1, <1>3, ToStage DEF CreateRefused, Fail, instances, saving
  <2> QED
    BY <1>2, <2>1, AnsweredTyped DEF RegistryTyped
<1>4. ASSUME NEW stage, NEW id,
             \/ Make(s, id) /\ stage = "made" /\ id \in Ids
             \/ MakeHalf(s) /\ stage = "failed" /\ id = calls[s].id
      PROVE  TypeInv'
  <2> DEFINE inst == born + 1
  <2>1. /\ calls[s].op = "create" /\ inst \in Instances /\ born' = inst
        /\ running' = [running EXCEPT ![k] = @ \union {inst}]
        /\ UNCHANGED <<relayMap, trackerConfig, file>>
        /\ \E after \in {inst, calls[s].inst} : Calls(s, id, stage, after)
        /\ stage = "made" => Calls(s, id, stage, inst) /\ id \in Ids
        /\ stage \in {"made", "failed"}
    <3>1. CASE Make(s, id) /\ stage = "made" /\ id \in Ids
      BY <1>1, <3>1, ToMade DEF Make, At, saving
    <3>2. CASE MakeHalf(s) /\ stage = "failed" /\ id = calls[s].id
      BY <1>1, <3>2, ToStage DEF MakeHalf, Fail, At, saving
    <3> QED
      BY <1>4, <3>1, <3>2
  <2>2. inst \notin 1..born
    BY <1>1
  <2> HIDE DEF inst
  <2>3. RegistryTyped'
    BY <1>2, <2>1, BoundsAssumption DEF RegistryTyped, Instances
  <2>4. \A t \in Slots : CallTyped(calls[t])'
    BY <2>1 DEF TypeInv, CallTyped, Calls, Reading, Queries
  <2>5. ASSUME NEW j \in Kinds
        PROVE  Places(j)' \subseteq Places(j) \union (IF j = k THEN {inst} ELSE {})
    <3> DEFINE M == Places(j) \union (IF j = k THEN {inst} ELSE {})
    <3>1. running'[j] \subseteq M
      BY <1>1, <2>1, InPlaces DEF Shape
    <3>2. Registered(j)' \subseteq M
      BY <2>1, InPlaces DEF Registered
    <3>3. \A i \in DOMAIN file'[j] : file'[j][i].inst \in M
      BY <2>1, InPlaces
    <3>4. \A t \in Slots : calls'[t].kind = j /\ calls'[t].stage \in Busy => calls'[t].inst \in M
      BY <1>1, <2>1, InPlaces DEF Calls, Busy
    <3>5. \A t \in Slots : calls'[t].op = "save" /\ calls'[t].stage \in Reading =>
              \A i \in DOMAIN calls'[t].got[j] : calls'[t].got[j][i].inst \in M
      BY <2>1, InPlaces DEF Calls
    <3> HIDE DEF M
    <3>6. Places(j)' \subseteq M
      BY <3>1, <3>2, <3>3, <3>4, <3>5, PlacesKept
    <3> QED
      BY <3>6 DEF M
  <2>6. inst \notin Places("server") /\ inst \notin Places("client")
    BY <2>2, PlacesMade DEF Kinds
  <2>7. Apart'
    <3>1. Places("server") \intersect Places("client") = {}
      BY DEF TypeInv, Apart
    <3> QED
      BY <2>5, <2>6, <3>1 DEF Apart, Kinds
  <2> QED
    BY <2>3, <2>4, <2>7 DEF TypeInv
<1>5. CASE Register(s)
  <2>1. /\ calls[s].op = "create" /\ calls[s].stage = "made"
        /\ relayMap' = [relayMap EXCEPT ![k] = With(@, calls[s].id, calls[s].inst)]
        /\ \/ UNCHANGED trackerConfig
           \/ trackerConfig' = [trackerConfig EXCEPT ![calls[s].inst] = calls[s].data]
        /\ UNCHANGED <<running, born, file>> /\ (Fail(s) \/ Answer(s, <<>>))
    BY <1>1, <1>5 DEF Register, At, saving
  <2>2. PICK stage \in {"ok", "failed"} : Calls(s, calls[s].id, stage, calls[s].inst)
    BY <1>1, <2>1, ToStage, ToAnswer DEF Fail
  <2>3. calls[s].id \in Ids /\ calls[s].data \in AllConfigs /\ calls[s].inst \in Places(k)
    BY <1>1, <1>2, <2>1, InPlaces DEF CallTyped, Busy
  <2>4. /\ relayMap'[k] = With(relayMap[k], calls[s].id, calls[s].inst)
        /\ \A j \in Kinds \ {k} : relayMap'[j] = relayMap[j]
    BY <1>1, <2>1 DEF Shape
  <2>5. \A j \in Kinds : DOMAIN relayMap'[j] \subseteq Ids
    BY <1>2, <2>3, <2>4 DEF RegistryTyped, With
  <2>6. trackerConfig' \in [Instances -> AllConfigs]
    BY <1>2, <2>1, <2>3 DEF RegistryTyped
  <2>7. RegistryTyped'
    BY <1>2, <2>1, <2>5, <2>6 DEF RegistryTyped
  <2>8. \A j \in Kinds : Registered(j)' \subseteq Places(j)
    BY <2>3, <2>4, InPlaces DEF Registered, With
  <2>9. CallTyped(calls'[s])
    BY <1>2, <2>1, <2>2 DEF Calls, CallTyped, Queries
  <2> QED
    BY <2>1, <2>2, <2>7, <2>8, <2>9, InPlaces, OneTyped DEF Calls, Busy
<1> QED
  BY <1>3, <1>4, <1>5

(* Deletions: an instance that was found was registered.                    *)
LEMMA DeleteTyped ==
    ASSUME IInv, TypeInv, NEW s \in Slots, NEW stage \in Busy,
           Find(s) \/ Close(s, stage) \/ Remove(s, stage)
    PROVE  TypeInv'
<1>1. PICK k \in Kinds : Shape /\ k = calls[s].kind
  BY DEF IInv, MapInv, Shape, IsCall
<1>2. RegistryTyped /\ CallTyped(calls[s])
  BY DEF TypeInv
<1>3. CASE Find(s)
  <2>1. /\ calls[s].op = "delete" /\ UNCHANGED <<relayMap, running, file, born, trackerConfig>>
        /\ \/ Goto(s, "failed")
           \/ /\ calls[s].id \in DOMAIN relayMap[k]
              /\ calls' = [calls EXCEPT ![s].stage = "found", ![s].inst = relayMap[k][calls[s].id]]
    BY <1>1, <1>3 DEF Find, At, Fail, instances, saving
  <2>2. PICK after, inst :
            /\ after \in {"failed", "found"} /\ Calls(s, calls[s].id, after, inst)
            /\ after = "found" => calls[s].id \in DOMAIN relayMap[k] /\ inst = relayMap[k][calls[s].id]
    BY <1>1, <2>1, ToStage, ToFound
  <2>3. after = "found" => inst \in Places(k)
    BY <2>2, InPlaces DEF Registered
  <2>4. CallTyped(calls'[s])
    BY <1>2, <2>1, <2>2 DEF Calls, CallTyped, Queries
  <2>5. RegistryTyped'
    BY <1>2, <2>1 DEF RegistryTyped
  <2>6. \A j \in Kinds : Registered(j)' = Registered(j)
    BY <2>1 DEF Registered
  <2> QED
    BY <1>1, <2>1, <2>2, <2>3, <2>4, <2>5, <2>6, InPlaces, OneTyped DEF Calls, Busy
<1>4. CASE Close(s, stage) \/ Remove(s, stage)
  <2>1. /\ calls[s].op = "delete" /\ calls[s].stage = stage /\ UNCHANGED <<file, born, trackerConfig>>
        /\ Answer(s, <<>>) \/ Goto(s, "closed") \/ Goto(s, "removed") \/ Goto(s, "failed")
        /\ \/ relayMap' = relayMap /\ running' = [running EXCEPT ![k] = @ \ {calls[s].inst}]
           \/ /\ relayMap' = [relayMap EXCEPT ![k] = Without(@, calls[s].id)]
              /\ running' = running
    BY <1>1, <1>4 DEF Close, Remove, At, Fail, saving
  <2>2. PICK after \in {"ok", "closed", "removed", "failed"} :
            Calls(s, calls[s].id, after, calls[s].inst)
    BY <1>1, <2>1, ToStage, ToAnswer
  <2>3. \A j \in Kinds : /\ running'[j] \subseteq running[j]
                          /\ DOMAIN relayMap'[j] \subseteq DOMAIN relayMap[j]
                          /\ \A i \in DOMAIN relayMap'[j] : relayMap'[j][i] = relayMap[j][i]
    BY <1>1, <2>1 DEF Shape, Without
  <2>4. \A j \in Kinds : Registered(j)' \subseteq Registered(j)
    BY <2>3 DEF Registered
  <2>5. CallTyped(calls'[s])
    BY <1>2, <2>1, <2>2 DEF Calls, CallTyped, Queries
  <2>6. RegistryTyped'
    BY <1>2, <2>1, <2>3 DEF RegistryTyped
  <2>7. calls[s].inst \in Places(k)
    BY <1>1, <2>1, InPlaces
  <2> QED
    BY <1>1, <2>1, <2>2, <2>3, <2>4, <2>5, <2>6, <2>7, InPlaces, OneTyped DEF Calls
<1> QED
  BY <1>3, <1>4

(* A save writes what is registered, or what has been read.                 *)
LEMMA SaveTyped ==
    ASSUME IInv, TypeInv, NEW s \in Slots, Save(s)
    PROVE  TypeInv'
<1>1. Shape /\ RegistryTyped /\ CallTyped(calls[s])
  BY DEF IInv, MapInv, TypeInv
<1>2. ASSUME NEW k \in Kinds
      PROVE  /\ Typed(Entries(k))
             /\ \A id \in DOMAIN Entries(k) : Entries(k)[id].inst \in Places(k)
  <2>1. \A id \in DOMAIN relayMap[k] : relayMap[k][id] \in Registered(k)
    BY DEF Registered
  <2>2. \A id \in DOMAIN relayMap[k] : relayMap[k][id] \in Instances
    BY <1>1, <2>1, BoundsAssumption DEF IInv, MapInv, Numbered, RegistryTyped, Instances
  <2>3. \A id \in DOMAIN relayMap[k] : trackerConfig[relayMap[k][id]] \in AllConfigs
    BY <1>1, <2>2 DEF RegistryTyped
  <2> QED
    BY <1>1, <2>1, <2>3, InPlaces DEF RegistryTyped, Typed, Entries, Entry
<1>3. \A k \in Kinds : /\ Typed(<<>>) /\ DOMAIN <<>> = {}
  BY DEF Typed
<1>4. calls[s].stage \in Reading => Typed(calls[s].got["client"]) /\ Typed(calls[s].got["server"])
  BY <1>1 DEF Save, ReadClients, ReadServers, Truncate, OpenFails, Write, WriteFails, At,
              CallTyped, Kinds
<1>5. /\ calls[s].op = "save" /\ UNCHANGED <<relayMap, running, born, trackerConfig>>
  BY DEF Save, ReadClients, ReadServers, Truncate, OpenFails, Write, WriteFails, At, instances
<1>6. \A k \in Kinds : Registered(k)' \subseteq Places(k) /\ running'[k] \subseteq Places(k)
  BY <1>5, InPlaces DEF Registered
<1>7. CASE ReadClients(s)
  <2> DEFINE got == [client |-> Entries("client"), server |-> <<>>,
                     before |-> [k \in Kinds |-> Entries(k)]]
  <2>1. UNCHANGED file /\ Calls(s, calls[s].id, "clients", calls[s].inst) /\ calls'[s].got = got
    <3>1. UNCHANGED file /\ calls' = [calls EXCEPT ![s].stage = "clients", ![s].got = got]
      BY <1>7 DEF ReadClients
    <3> HIDE DEF got
    <3> QED
      BY <1>1, <3>1, ToStageGot
  <2>2. got["client"] = Entries("client") /\ got["server"] = <<>>
    OBVIOUS
  <2> HIDE DEF got
  <2>3. /\ \A k \in Kinds : Typed(got[k])
        /\ \A k \in Kinds : \A id \in DOMAIN got[k] : got[k][id].inst \in Places(k)
    BY <1>2, <1>3, <2>2 DEF Kinds
  <2>4. CallTyped(calls'[s])
    BY <1>1, <1>5, <2>1, <2>3 DEF Calls, CallTyped, Queries
  <2>5. RegistryTyped'
    BY <1>1, <1>5, <2>1 DEF RegistryTyped
  <2> QED
    BY <1>6, <2>1, <2>3, <2>4, <2>5, InPlaces, OneTyped DEF Calls, Busy
<1>8. CASE ReadServers(s)
  <2> DEFINE got == [calls[s].got EXCEPT !.server = Entries("server")]
  <2>1. /\ UNCHANGED file /\ calls[s].stage = "clients"
        /\ Calls(s, calls[s].id, "servers", calls[s].inst) /\ calls'[s].got = got
    <3>1. /\ UNCHANGED file /\ calls[s].stage = "clients"
          /\ calls' = [calls EXCEPT ![s].stage = "servers", ![s].got = got]
      BY <1>8 DEF ReadServers, At, saving
    <3> HIDE DEF got
    <3> QED
      BY <1>1, <3>1, ToStageGot
  <2>2. got["client"] = calls[s].got["client"] /\ got["server"] = Entries("server")
    <3>1. calls[s].op = "save" /\ calls[s].stage \in Reading
      BY <1>5, <2>1 DEF Reading
    <3>2. calls[s].got = [client |-> calls[s].got.client, server |-> calls[s].got.server,
                          before |-> calls[s].got.before]
      BY <3>1 DEF IInv, FileInv
    <3> QED
      BY <3>2
  <2> HIDE DEF got
  <2>3. \A id \in DOMAIN calls[s].got["client"] :
            calls[s].got["client"][id].inst \in Places("client")
    BY <1>5, <2>1, InPlaces DEF Reading, Kinds
  <2>4. /\ \A k \in Kinds : Typed(got[k])
        /\ \A k \in Kinds : \A id \in DOMAIN got[k] : got[k][id].inst \in Places(k)
    BY <1>2, <1>4, <2>1, <2>2, <2>3 DEF Kinds, Reading
  <2>5. CallTyped(calls'[s])
    BY <1>1, <1>5, <2>1, <2>4 DEF Calls, CallTyped, Queries
  <2>6. RegistryTyped'
    BY <1>1, <1>5, <2>1 DEF RegistryTyped
  <2> QED
    BY <1>6, <2>1, <2>4, <2>5, <2>6, InPlaces, OneTyped DEF Calls, Busy
<1>9. CASE Truncate(s)
  <2>1. /\ calls[s].stage = "servers" /\ file' = [k \in Kinds |-> <<>>]
        /\ Calls(s, calls[s].id, "open", calls[s].inst) /\ calls'[s].got = calls[s].got
    BY <1>1, <1>9, ToStage DEF Truncate, At, Unreadable
  <2>2. \A k \in Kinds : Typed(file'[k]) /\ DOMAIN file'[k] = {}
    BY <1>3, <2>1
  <2>3. RegistryTyped'
    BY <1>1, <1>5, <2>2 DEF RegistryTyped
  <2>4. CallTyped(calls'[s])
    BY <1>1, <1>5, <2>1 DEF Calls, CallTyped, Queries, Reading
  <2>5. \A k \in Kinds : \A id \in DOMAIN calls[s].got[k] : calls[s].got[k][id].inst \in Places(k)
    BY <1>5, <2>1, InPlaces DEF Reading
  <2> QED
    BY <1>6, <2>1, <2>2, <2>3, <2>4, <2>5, InPlaces, OneTyped DEF Calls, Busy
<1>11. CASE OpenFails(s)
  <2>1. UNCHANGED file /\ Calls(s, calls[s].id, "failed", calls[s].inst)
    BY <1>1, <1>11, ToStage DEF OpenFails, Fail, saving
  <2>2. RegistryTyped'
    BY <1>1, <1>5, <2>1 DEF RegistryTyped
  <2> QED
    BY <1>5, <2>1, <2>2, AnsweredTyped
<1>10. CASE Write(s) \/ WriteFails(s)
  <2>1. /\ calls[s].stage = "open" /\ (Answer(s, <<>>) \/ Goto(s, "failed"))
        /\ \/ file' = [k \in Kinds |-> calls[s].got[k]] \/ file' = [k \in Kinds |-> <<>>]
           \/ file' = file
    BY <1>10 DEF Write, WriteFails, Text, Fail, At, Unreadable
  <2>2. PICK stage \in {"ok", "failed"} : Calls(s, calls[s].id, stage, calls[s].inst)
    BY <1>1, <2>1, ToAnswer, ToStage
  <2>3. \A k \in Kinds : \A id \in DOMAIN calls[s].got[k] : calls[s].got[k][id].inst \in Places(k)
    BY <1>5, <2>1, InPlaces DEF Reading
  <2>4. \A k \in Kinds : /\ Typed(file'[k])
                          /\ \A id \in DOMAIN file'[k] : file'[k][id].inst \in Places(k)
    <3>1. CASE file' = [k \in Kinds |-> calls[s].got[k]]
      BY <1>4, <2>1, <2>3, <3>1 DEF Kinds, Reading
    <3>2. CASE file' = [k \in Kinds |-> <<>>]
      BY <1>3, <3>2
    <3>3. CASE file' = file
      BY <1>1, <3>3, InPlaces DEF RegistryTyped
    <3> QED
      BY <2>1, <3>1, <3>2, <3>3
  <2>5. RegistryTyped'
    BY <1>1, <1>5, <2>4 DEF RegistryTyped
  <2>6. CallTyped(calls'[s])
    BY <1>1, <1>5, <2>2 DEF Calls, CallTyped, Queries, Reading
  <2> QED
    BY <1>6, <2>2, <2>4, <2>5, <2>6, InPlaces, OneTyped DEF Calls, Busy, Reading
<1> QED
  BY <1>7, <1>8, <1>9, <1>10, <1>11 DEF Save

(* Every handler.                                                           *)
LEMMA HandleTyped ==
    ASSUME IInv, TypeInv, NEW s \in Slots, Handle(s)
    PROVE  TypeInv'
<1>1. PICK k \in Kinds : Shape /\ k = calls[s].kind
  BY DEF IInv, MapInv, Shape, IsCall
<1>2. RegistryTyped /\ CallTyped(calls[s])
  BY DEF TypeInv
<1>3. \A id \in DOMAIN relayMap[k] : relayMap[k][id] \in Instances
  <2>1. \A id \in DOMAIN relayMap[k] : relayMap[k][id] \in Registered(k)
    BY DEF Registered
  <2> QED
    BY <1>2, <2>1, BoundsAssumption DEF IInv, MapInv, Numbered, RegistryTyped, Instances
<1>4. CASE CreateRefused(s) \/ MakeHalf(s) \/ (\E id \in Ids : Make(s, id)) \/ Register(s)
  BY <1>4, CreateTyped
<1>5. CASE DeleteServer(s) \/ DeleteClient(s)
  BY <1>5, DeleteTyped DEF DeleteServer, DeleteClient, Busy
<1>6. CASE List(s)
  <2>1. /\ calls[s].op = "list" /\ Answer(s, relayMap[k])
        /\ UNCHANGED <<relayMap, running, file, born, trackerConfig>>
    BY <1>1, <1>6 DEF List, At, instances, saving
  <2>2. Calls(s, calls[s].id, "ok", calls[s].inst) /\ calls'[s].got = relayMap[k]
    BY <1>1, <2>1, ToAnswer
  <2>3. CallTyped(calls'[s]) /\ RegistryTyped'
    BY <1>2, <2>1, <2>2 DEF Calls, CallTyped, Queries, Reading, RegistryTyped
  <2> QED
    BY <2>1, <2>2, <2>3, AnsweredTyped
<1>7. ASSUME NEW op \in Queries, Query(s, op) PROVE TypeInv'
  <2>1. /\ calls[s].op = op /\ UNCHANGED <<relayMap, running, file, born, trackerConfig>>
        /\ \/ calls[s].id \in DOMAIN relayMap[k] /\ Answer(s, Entry(k, calls[s].id))
           \/ Goto(s, "failed")
    BY <1>1, <1>7 DEF Query, At, Fail, instances, saving
  <2>2. RegistryTyped'
    BY <1>2, <2>1 DEF RegistryTyped
  <2>3. CASE Goto(s, "failed")
    <3>1. Calls(s, calls[s].id, "failed", calls[s].inst)
      BY <1>1, <2>3, ToStage
    <3> QED
      BY <2>1, <2>2, <3>1, AnsweredTyped
  <2>4. CASE calls[s].id \in DOMAIN relayMap[k] /\ Answer(s, Entry(k, calls[s].id))
    <3>1. /\ Calls(s, calls[s].id, "ok", calls[s].inst)
          /\ calls'[s].got = Entry(k, calls[s].id)
      BY <1>1, <2>4, ToAnswer
    <3>2. /\ Entry(k, calls[s].id).inst \in Instances
          /\ Entry(k, calls[s].id).config \in AllConfigs
      BY <1>2, <1>3, <2>4 DEF Entry, RegistryTyped
    <3>3. CallTyped(calls'[s])
      BY <1>2, <2>1, <3>1, <3>2 DEF Calls, CallTyped, Queries, Reading
    <3> QED
      BY <2>1, <2>2, <3>1, <3>3, AnsweredTyped
  <2> QED
    BY <2>1, <2>3, <2>4
<1>8. CASE SetTracker(s)
  <2>1. /\ calls[s].op = "tracker/set" /\ UNCHANGED <<relayMap, running, file, born>>
        /\ Goto(s, "failed") \/ Answer(s, <<>>)
        /\ \/ UNCHANGED trackerConfig
           \/ /\ calls[s].id \in DOMAIN relayMap[k]
              /\ trackerConfig' = [trackerConfig EXCEPT ![relayMap[k][calls[s].id]] = calls[s].data]
    BY <1>1, <1>8 DEF SetTracker, At, Fail, saving
  <2>2. PICK stage \in {"ok", "failed"} : Calls(s, calls[s].id, stage, calls[s].inst)
    BY <1>1, <2>1, ToStage, ToAnswer
  <2>3. RegistryTyped'
    BY <1>2, <1>3, <2>1 DEF RegistryTyped, CallTyped
  <2>4. CallTyped(calls'[s])
    BY <1>2, <2>1, <2>2 DEF Calls, CallTyped, Queries, Reading
  <2> QED
    BY <2>1, <2>2, <2>3, <2>4, AnsweredTyped
<1>9. CASE Save(s)
  BY <1>9, SaveTyped
<1>10. CASE Unreachable(s)
  <2>1. /\ UNCHANGED <<relayMap, running, file, born, trackerConfig>>
        /\ Calls(s, calls[s].id, "failed", calls[s].inst)
    BY <1>1, <1>10, ToStage DEF Unreachable, Fail, instances, saving
  <2> QED
    BY <1>2, <2>1, AnsweredTyped DEF RegistryTyped
<1> QED
  BY <1>4, <1>5, <1>6, <1>7, <1>8, <1>9, <1>10 DEF Handle

-----------------------------------------------------------------------------
(* The page and the process.                                                *)

(* What the page does with its requests moves no instance.                  *)
LEMMA PageCallsTyped ==
    ASSUME IInv, TypeInv, NEW s \in Slots,
           UNCHANGED <<relayMap, running, file, born, trackerConfig>>,
           \A t \in Slots \ {s} : Same(t) /\ calls'[t].data = calls[t].data,
           calls'[s].stage \in {"none", "sent"}, calls'[s].data \in AllConfigs
    PROVE  TypeInv'
<1>1. RegistryTyped'
  BY DEF TypeInv, RegistryTyped
<1>2. ASSUME NEW t \in Slots PROVE CallTyped(calls[t])'
  <2>1. CASE t = s
    BY <2>1 DEF CallTyped, Reading
  <2>2. CASE t # s
    <3>1. CallTyped(calls[t])
      BY DEF TypeInv
    <3> QED
      BY <2>2, <3>1 DEF CallTyped, Same
  <2> QED
    BY <2>1, <2>2
<1>3. ASSUME NEW k \in Kinds PROVE Places(k)' \subseteq Places(k)
  <2>1. running'[k] \subseteq Places(k) /\ Registered(k)' \subseteq Places(k)
    BY InPlaces DEF Registered
  <2>2. \A id \in DOMAIN file'[k] : file'[k][id].inst \in Places(k)
    BY InPlaces
  <2>3. \A t \in Slots : calls'[t].kind = k /\ calls'[t].stage \in Busy =>
            calls'[t].inst \in Places(k)
    BY InPlaces DEF Same, Busy
  <2>4. \A t \in Slots : calls'[t].op = "save" /\ calls'[t].stage \in Reading =>
            \A id \in DOMAIN calls'[t].got[k] : calls'[t].got[k][id].inst \in Places(k)
    BY InPlaces DEF Same, Reading
  <2> QED
    BY <2>1, <2>2, <2>3, <2>4, PlacesKept
<1>4. Apart'
  BY <1>3 DEF TypeInv, Apart, Kinds
<1> QED
  BY <1>1, <1>2, <1>4 DEF TypeInv

(* It ends, asks again, or asks.                                            *)
LEMMA TakenTyped ==
    ASSUME IInv, TypeInv, NEW s \in Slots, Quiet,
           Done(s) \/ (\E op, k : Then(s, op, k)) \/ ErrorShown(s)
    PROVE  TypeInv'
<1>1. Shape /\ NoConfig \in AllConfigs
  BY DEF IInv, MapInv, AllConfigs
<1>2. Hears(s) /\ calls'[s].stage \in {"none", "sent"} /\ calls'[s].data = NoConfig
  <2>1. CASE Done(s)
    BY <1>1, <2>1, DoneCalls DEF TakenBy, Frees
  <2>2. ASSUME NEW op, NEW k, Then(s, op, k)
        PROVE  Hears(s) /\ calls'[s].stage \in {"none", "sent"} /\ calls'[s].data = NoConfig
    BY <1>1, <2>2, ThenCalls DEF TakenBy, Sends
  <2>3. CASE ErrorShown(s)
    BY <1>1, <2>3, ErrorCalls DEF FailedBy, Frees
  <2> QED
    BY <2>1, <2>2, <2>3
<1>3. \A t \in Slots \ {s} : Same(t) /\ calls'[t].data = calls[t].data
  BY <1>2 DEF Hears, Same
<1> QED
  BY <1>1, <1>2, <1>3, PageCallsTyped DEF Quiet, instances, saving

(* A click asks for something that is typed.                                *)
LEMMA AjaxTyped ==
    ASSUME IInv, TypeInv, NEW op, NEW k, NEW id, NEW data \in AllConfigs, Ajax(op, k, id, data)
    PROVE  TypeInv'
<1>1. PICK s \in Slots : /\ calls[s].stage = "none"
                         /\ \A t \in Slots \ {s} : calls'[t] = calls[t]
                         /\ Sends(s, op, k, id, data, InFlight(k, {op}))
  BY AjaxCalls DEF IInv, MapInv
<1>2. \A t \in Slots \ {s} : Same(t) /\ calls'[t].data = calls[t].data
  BY <1>1 DEF Same
<1>3. calls'[s].stage \in {"none", "sent"} /\ calls'[s].data \in AllConfigs
  BY <1>1 DEF Sends
<1> QED
  BY <1>2, <1>3, PageCallsTyped DEF Ajax, instances, saving

(* A crash and a start only lose instances.                                 *)
LEMMA ProcessTyped == IInv /\ TypeInv /\ Process => TypeInv'
<1> SUFFICES ASSUME IInv, TypeInv, Process PROVE TypeInv'
  OBVIOUS
<1>1. RegistryTyped
  BY DEF TypeInv
<1>2. CASE Crash
  <2>1. ASSUME NEW t \in Slots
        PROVE  /\ calls'[t].op = calls[t].op /\ calls'[t].data = calls[t].data
               /\ calls'[t].got = calls[t].got
               /\ calls'[t].stage \in {"none", "ok", "failed"}
               /\ calls'[t].stage = "ok" => calls[t].stage = "ok"
    <3>1. CASE calls[t].stage = "none"
      BY <1>2, <3>1 DEF Crash
    <3>2. CASE calls[t].stage # "none"
      <4> DEFINE stage == IF calls[t].stage = "ok" THEN "ok" ELSE "failed"
      <4>1. calls'[t] = [calls[t] EXCEPT !.late = TRUE, !.stage = stage]
        BY <1>2, <3>2 DEF Crash
      <4>2. IsCall(calls[t])
        BY DEF IInv, MapInv, Shape
      <4>3. calls'[t] = [op |-> calls[t].op, kind |-> calls[t].kind, id |-> calls[t].id,
                         data |-> calls[t].data, stage |-> stage, inst |-> calls[t].inst,
                         got |-> calls[t].got, earlier |-> calls[t].earlier, late |-> TRUE]
        BY <4>1, <4>2 DEF IsCall
      <4> QED
        BY <4>3
    <3> QED
      BY <3>1, <3>2
  <2>2. ASSUME NEW k \in Kinds
        PROVE  DOMAIN relayMap'[k] = {} /\ running'[k] = {} /\ Registered(k)' = {}
    <3>1. relayMap'[k] = <<>> /\ running'[k] = {}
      BY <1>2 DEF Crash
    <3>2. DOMAIN relayMap'[k] = {}
      BY <3>1
    <3> QED
      BY <3>1, <3>2 DEF Registered
  <2>3. UNCHANGED <<file, born, trackerConfig>>
    BY <1>2 DEF Crash, saving
  <2>4. RegistryTyped'
    BY <1>1, <2>2, <2>3 DEF RegistryTyped
  <2>5. ASSUME NEW t \in Slots PROVE CallTyped(calls[t])'
    <3>1. CallTyped(calls[t])
      BY DEF TypeInv
    <3> QED
      BY <2>1, <3>1 DEF CallTyped, Reading
  <2>6. ASSUME NEW k \in Kinds PROVE Places(k)' \subseteq Places(k)
    <3>1. \A id \in DOMAIN file'[k] : file'[k][id].inst \in Places(k)
      BY <2>3, InPlaces
    <3>2. \A t \in Slots : calls'[t].stage \notin Busy /\ calls'[t].stage \notin Reading
      BY <2>1 DEF Busy, Reading
    <3> QED
      BY <2>2, <3>1, <3>2, PlacesKept
  <2>7. Apart'
    BY <2>6 DEF TypeInv, Apart, Kinds
  <2> QED
    BY <2>4, <2>5, <2>7 DEF TypeInv
<1>3. ASSUME NEW loaded \in [Kinds -> SUBSET Ids], Start(loaded) PROVE TypeInv'
  <2>1. /\ \A k \in Kinds : loaded[k] \subseteq DOMAIN file[k]
        /\ relayMap' = [k \in Kinds |-> [id \in loaded[k] |-> file[k][id].inst]]
        /\ running' = [k \in Kinds |-> {file[k][id].inst : id \in loaded[k]} \union HalfMade(k)']
        /\ UNCHANGED <<file, born, calls>>
    BY <1>3 DEF Start, saving
  <2>8. ASSUME NEW k \in Kinds PROVE HalfMade(k)' \subseteq Places(k)
    <3>1. PICK half \in SUBSET (DOMAIN file["client"] \ loaded["client"]) :
              halfMade' = {file["client"][id].inst : id \in half}
      BY <1>3 DEF Start
    <3>2. k = "client" => \A id \in half : file["client"][id].inst \in Places(k)
      BY InPlaces
    <3> QED
      BY <3>1, <3>2 DEF HalfMade
  <2>2. trackerConfig' \in [Instances -> AllConfigs]
    <3> DEFINE saved(i) == UNION {{file[k][id].config :
                                id \in {j \in loaded[k] : file[k][j].inst = i}} : k \in Kinds}
               chosen(i) == IF saved(i) = {} THEN NoConfig ELSE CHOOSE config \in saved(i) : TRUE
    <3>1. trackerConfig' = [i \in Instances |-> chosen(i)]
      BY <1>3 DEF Start
    <3>2. ASSUME NEW i, NEW c \in saved(i) PROVE c \in AllConfigs
      <4>1. PICK k \in Kinds : c \in {file[k][id].config :
                                          id \in {j \in loaded[k] : file[k][j].inst = i}}
        BY <3>2
      <4>2. PICK id \in loaded[k] : c = file[k][id].config
        BY <4>1
      <4> QED
        BY <1>1, <2>1, <4>2 DEF RegistryTyped, Typed
    <3>3. NoConfig \in AllConfigs
      BY DEF AllConfigs
    <3> HIDE DEF saved
    <3>4. ASSUME NEW i PROVE chosen(i) \in AllConfigs
      <4>1. CASE saved(i) = {}
        BY <3>3, <4>1
      <4>2. CASE saved(i) # {}
        <5>1. (CHOOSE config \in saved(i) : TRUE) \in saved(i)
          BY <4>2
        <5> QED
          BY <3>2, <4>2, <5>1
      <4> QED
        BY <4>1, <4>2
    <3> HIDE DEF chosen
    <3> QED
      BY <3>1, <3>4
  <2>3. ASSUME NEW k \in Kinds
        PROVE  /\ DOMAIN relayMap'[k] \subseteq Ids
               /\ running'[k] \subseteq Places(k) /\ Registered(k)' \subseteq Places(k)
    <3>1. /\ relayMap'[k] = [id \in loaded[k] |-> file[k][id].inst]
          /\ running'[k] = {file[k][id].inst : id \in loaded[k]} \union HalfMade(k)'
          /\ loaded[k] \subseteq DOMAIN file[k] /\ loaded[k] \subseteq Ids
      BY <2>1
    <3>2. \A id \in loaded[k] : file[k][id].inst \in Places(k)
      BY <3>1, InPlaces
    <3> QED
      BY <2>8, <3>1, <3>2 DEF Registered
  <2>4. RegistryTyped'
    BY <1>1, <2>1, <2>2, <2>3 DEF RegistryTyped
  <2>5. ASSUME NEW t \in Slots PROVE CallTyped(calls[t])'
    BY <2>1 DEF TypeInv
  <2>6. ASSUME NEW k \in Kinds PROVE Places(k)' \subseteq Places(k)
    BY <2>1, <2>3, InPlaces, PlacesKept
  <2>7. Apart'
    BY <2>6 DEF TypeInv, Apart, Kinds
  <2> QED
    BY <2>4, <2>5, <2>7 DEF TypeInv
<1> QED
  BY <1>2, <1>3 DEF Process

-----------------------------------------------------------------------------
(* The page's own fields.                                                   *)

shownVars == <<list, instance_id, modal, form, link, draft, table, situation>>

(* As long as nothing of it changes,                                        *)
LEMMA PageStays == PageTyped /\ UNCHANGED shownVars => PageTyped'
BY DEF PageTyped, shownVars

(* What an answer brings.                                                   *)
LEMMA LinkTyped ==
    ASSUME IInv, TypeInv, PageTyped, NEW s \in Slots, NEW k \in Kinds, NEW scheme,
           TrackerAnswered(s, k, scheme),
           scheme \in {calls[s].got.config.scheme, ClientUrl(calls[s].got.config.scheme)}
    PROVE  PageTyped'
<1> DEFINE got == calls[s].got
           new == LinkFrom(k, got, scheme)
<1>1. /\ form' = [form EXCEPT ![k] = got.config] /\ link' = [link EXCEPT ![k] = new]
      /\ calls[s].op = "tracker" /\ calls[s].stage = "ok"
      /\ UNCHANGED <<list, instance_id, modal, draft, table, situation>>
  BY DEF TrackerAnswered, Success, tables, details, Quiet, limits
<1>2. got.config \in AllConfigs
  BY <1>1 DEF TypeInv, CallTyped, Queries
<1>3. new.config \in AllConfigs
  <2> DEFINE c == got.config
  <2>1. c \in AllConfigs /\ scheme \in {c.scheme, ClientUrl(c.scheme)}
    BY <1>2
  <2> HIDE DEF c
  <2>2. /\ c = [id |-> c.id, scheme |-> c.scheme]
        /\ [c EXCEPT !.scheme = ClientUrl(c.scheme)] \in AllConfigs
    BY <2>1, UrlsAssumption
  <2>3. [c EXCEPT !.scheme = c.scheme] = c
    BY <2>2
  <2>4. [c EXCEPT !.scheme = scheme] \in AllConfigs
    BY <2>1, <2>2, <2>3
  <2>5. CASE instance_id[k] \in DOMAIN list[k]
    <3>1. new = [settings |-> list[k][instance_id[k]], of |-> got.inst,
                 config |-> [c EXCEPT !.scheme = scheme]]
      BY <2>5 DEF LinkFrom, c
    <3> QED
      BY <2>4, <3>1
  <2>6. CASE instance_id[k] \notin DOMAIN list[k]
    BY <2>6 DEF LinkFrom, PageTyped
  <2> QED
    BY <2>5, <2>6
<1> HIDE DEF got, new
<1>4. form' \in [Kinds -> AllConfigs]
  BY <1>1, <1>2 DEF PageTyped
<1>5. link' = [j \in Kinds |-> link'[j]] /\ \A j \in Kinds : link'[j].config \in AllConfigs
  BY <1>1, <1>3 DEF PageTyped
<1> QED
  BY <1>1, <1>4, <1>5 DEF PageTyped

(* Every answer is of the right type.                                       *)
LEMMA CallbackTyped ==
    ASSUME IInv, ListInv, TypeInv, PageTyped, NEW s \in Slots, Callback(s)
    PROVE  TypeInv' /\ PageTyped'
<1>1. PICK k \in Kinds : Shape /\ k = calls[s].kind
  BY DEF IInv, MapInv, Shape, IsCall
<1>2. CallTyped(calls[s])
  BY DEF TypeInv
<1>3. CASE Created(s) \/ Deleted(s) \/ Connected(s) \/ Restarted(s) \/ ServerAddrUpdated(s)
           \/ Saved(s) \/ TrackerSet(s) \/ ErrorShown(s)
  <2>1. /\ Quiet /\ UNCHANGED shownVars
        /\ Done(s) \/ (\E op, j : Then(s, op, j)) \/ ErrorShown(s)
    BY <1>3 DEF Created, Deleted, Connected, Restarted, ServerAddrUpdated, Saved, TrackerSet,
                ErrorShown, shownVars, pageVars, tables, tracker, details, Quiet, limits
  <2> QED
    BY <2>1, TakenTyped, PageStays
<1>4. CASE ListAnswered(s)
  <2>1. /\ Done(s) /\ Quiet /\ list' = [list EXCEPT ![k] = calls[s].got]
        /\ calls[s].op = "list" /\ calls[s].stage = "ok"
        /\ UNCHANGED <<instance_id, modal, form, link, draft, table, situation>>
    BY <1>1, <1>4 DEF ListAnswered, Success, tracker, details, Quiet, limits
  <2>2. DOMAIN calls[s].got \subseteq Ids
    BY <1>2, <2>1 DEF CallTyped
  <2>3. \A j \in Kinds : DOMAIN list'[j] \subseteq Ids
    BY <2>1, <2>2 DEF PageTyped, ListInv, Tables
  <2> QED
    BY <2>1, <2>3, TakenTyped DEF PageTyped
<1>5. CASE ConnectionsAnswered(s)
  <2>1. /\ Done(s) /\ Quiet /\ calls[s].op = "connection" /\ calls[s].stage = "ok"
        /\ \E inst \in {calls[s].got.inst, NoInstance} : table' = [table EXCEPT ![k] = inst]
        /\ UNCHANGED <<list, instance_id, modal, form, link, draft, situation>>
    BY <1>1, <1>5 DEF ConnectionsAnswered, Success, tables, tracker, Quiet, limits
  <2>2. calls[s].got.inst \in Instances
    BY <1>2, <2>1 DEF CallTyped, Queries
  <2>3. table' \in [Kinds -> Instances \union {NoInstance}]
    BY <2>1, <2>2 DEF PageTyped
  <2> QED
    BY <2>1, <2>3, TakenTyped DEF PageTyped
<1>6. CASE SessionsAnswered(s)
  <2>1. Done(s) /\ Quiet /\ UNCHANGED shownVars
    BY <1>6 DEF SessionsAnswered, shownVars, tables, tracker, Quiet, limits
  <2> QED
    BY <2>1, TakenTyped, PageStays
<1>7. CASE ServerTrackerAnswered(s) \/ ClientTrackerAnswered(s)
  <2>1. PICK j \in Kinds, scheme \in {calls[s].got.config.scheme,
                                     ClientUrl(calls[s].got.config.scheme)} :
            TrackerAnswered(s, j, scheme)
    BY <1>7 DEF ServerTrackerAnswered, ClientTrackerAnswered, Kinds
  <2>2. Done(s) /\ Quiet
    BY <2>1 DEF TrackerAnswered
  <2> QED
    BY <2>1, <2>2, LinkTyped, TakenTyped
<1> QED
  BY <1>3, <1>4, <1>5, <1>6, <1>7 DEF Callback

(* What is clicked.                                                         *)
LEMMA ClickTyped ==
    ASSUME IInv, TypeInv, PageTyped, (\E k \in Kinds : Click(k)) \/ Buttons
    PROVE  TypeInv' /\ PageTyped'
<1> DEFINE Asked == \E op, k, id : \E data \in AllConfigs : Ajax(op, k, id, data)
<1>1. NoConfig \in AllConfigs /\ situation.typed \subseteq AllConfigs
  BY SituationsAssumption DEF AllConfigs, PageTyped
<1>2. Asked => TypeInv' /\ situation' = situation
  BY AjaxTyped DEF Ajax
<1>3. ASSUME UNCHANGED calls, Quiet PROVE TypeInv' /\ situation' = situation
  <2>1. UNCHANGED <<calls, relayMap, running, file, born, trackerConfig>>
    BY <1>3 DEF Quiet, instances, saving
  <2>2. \A k \in Kinds : Places(k)' = Places(k)
    BY <2>1 DEF Places, ToWrite, Registered
  <2>3. RegistryTyped' /\ \A t \in Slots : CallTyped(calls[t])'
    BY <2>1 DEF TypeInv, RegistryTyped
  <2> QED
    BY <1>3, <2>2, <2>3 DEF TypeInv, Apart, Kinds, Quiet, limits
<1> HIDE DEF Asked
<1>4. ASSUME NEW k \in Kinds, Click(k) PROVE TypeInv' /\ PageTyped'
  <2>1. CASE ClickList(k) \/ ClickConnections(k) \/ ClickSessions(k) \/ ClickTracker(k)
    <3>1. Asked /\ UNCHANGED <<list, instance_id, modal, form, link, draft, table>>
      BY <1>1, <2>1 DEF ClickList, ClickConnections, ClickSessions, ClickTracker, Asked,
                        tables, details
    <3> QED
      BY <1>2, <3>1, PageStays DEF shownVars
  <2>2. CASE Delete(k)
    <3>1. /\ Asked /\ modal' = "none"
          /\ UNCHANGED <<list, instance_id, form, link, draft, table>>
      BY <1>1, <2>2 DEF Delete, Asked, tables, details
    <3> QED
      BY <1>2, <3>1 DEF PageTyped, Modals
  <2>3. CASE ClickSetTracker(k)
    <3>1. PICK config \in {form[k]} \union situation.typed :
              /\ Ajax("tracker/set", k, instance_id[k], config)
              /\ form' = [form EXCEPT ![k] = config]
              /\ UNCHANGED <<list, instance_id, modal, link, draft, table>>
      BY <2>3 DEF ClickSetTracker, tables, details
    <3>2. config \in AllConfigs
      BY <1>1 DEF PageTyped
    <3>3. Asked
      BY <3>1, <3>2 DEF Asked
    <3> QED
      BY <1>2, <3>1, <3>2, <3>3 DEF PageTyped
  <2>4. CASE ShowCreate(k)
    <3>1. /\ UNCHANGED calls /\ Quiet /\ modal' \in {"create server", "create client"}
          /\ UNCHANGED <<list, instance_id, form, link, draft, table>>
      BY <2>4 DEF ShowCreate, tables, tracker, details
    <3> QED
      BY <1>3, <3>1 DEF PageTyped, Modals
  <2>5. CASE CreateByLink(k)
    <3>1. /\ UNCHANGED calls /\ Quiet /\ modal' = "create client" /\ draft' = link[k].config
          /\ UNCHANGED <<list, instance_id, form, link, table>>
      BY <2>5 DEF CreateByLink, tables, details
    <3> QED
      BY <1>3, <3>1 DEF PageTyped, Modals
  <2>6. ASSUME NEW id \in Ids, Show(k, id) PROVE TypeInv' /\ PageTyped'
    <3>1. /\ UNCHANGED calls /\ Quiet /\ modal' = k
          /\ instance_id' = [instance_id EXCEPT ![k] = id]
          /\ UNCHANGED <<list, form, link, draft, table>>
      BY <2>6 DEF Show, tables, details
    <3> QED
      BY <1>3, <3>1 DEF PageTyped, Modals
  <2>7. ASSUME NEW id, NEW config \in AllConfigs, Create(k, id, config)
        PROVE  TypeInv' /\ PageTyped'
    <3>1. /\ Asked /\ modal' = "none"
          /\ UNCHANGED <<list, instance_id, form, link, draft, table>>
      BY <2>7 DEF Create, Asked, tables, details
    <3> QED
      BY <1>2, <3>1 DEF PageTyped, Modals
  <2>8. draft \in AllConfigs /\ situation.typed \subseteq AllConfigs
    BY <1>1 DEF PageTyped
  <2> QED
    BY <1>4, <2>1, <2>2, <2>3, <2>4, <2>5, <2>6, <2>7, <2>8 DEF Click
<1>5. CASE CloseModal
  <2>1. /\ UNCHANGED calls /\ Quiet /\ modal' = "none"
        /\ UNCHANGED <<list, instance_id, form, link, draft, table>>
    BY <1>5 DEF CloseModal, tables, tracker, details
  <2> QED
    BY <1>3, <2>1 DEF PageTyped, Modals
<1>6. CASE Connect \/ Restart \/ UpdateServerAddr \/ SaveConfig
  <2>1. /\ Asked /\ modal' \in {modal, "none"}
        /\ UNCHANGED <<list, instance_id, form, link, draft, table>>
    BY <1>1, <1>6 DEF Connect, Restart, UpdateServerAddr, SaveConfig, Asked, tables, details
  <2> QED
    BY <1>2, <2>1 DEF PageTyped, Modals
<1> QED
  BY <1>4, <1>5, <1>6 DEF Buttons

-----------------------------------------------------------------------------
(* A situation is typed.                                                    *)

LEMMA InitTyped == Init => TypeInv /\ PageTyped
<1> SUFFICES ASSUME Init PROVE TypeInv /\ PageTyped
  OBVIOUS
<1>1. /\ situation \in Situations /\ file = situation.file
      /\ relayMap = [k \in Kinds |-> [id \in DOMAIN file[k] |-> file[k][id].inst]]
      /\ running = [k \in Kinds |-> {file[k][id].inst : id \in DOMAIN file[k]}]
  BY DEF Init
<1>2. PICK r \in Slots :
          calls = [t \in Slots |-> IF t = r THEN Request("list", "client", 0, NoConfig, {})
                                    ELSE Nothing]
  BY DEF Init
<1>3. \A t \in Slots : calls[t].stage \in {"none", "sent"} /\ calls[t].data = NoConfig
  BY <1>2, NothingFields DEF Request
<1>4. NoConfig \in AllConfigs
  BY DEF AllConfigs
<1>5. \A k \in Kinds : Typed(file[k])
  BY <1>1, SituationsAssumption DEF Typed
<1>6. IInv
  BY InitIInv
<1>7. born \in 0..MaxBorn
  <2>1. PICK n \in 0..MaxBorn :
            UNION {{file[k][id].inst : id \in DOMAIN file[k]} : k \in Kinds} = 1..n
    BY <1>1, SituationsAssumption
  <2>2. UNION {running[k] : k \in Kinds} = 1..n
    BY <1>1, <2>1
  <2>3. n \in Nat
    BY BoundsAssumption
  <2>4. Cardinality(1..n) = n
    BY <2>3, FS_Interval
  <2>5. born = Cardinality(UNION {running[k] : k \in Kinds})
    BY DEF Init
  <2> QED
    BY <2>2, <2>4, <2>5
<1>8. trackerConfig \in [Instances -> AllConfigs]
  <2> DEFINE es == UNION {{file[k][id] : id \in DOMAIN file[k]} : k \in Kinds}
             config(i) == IF \E k \in Kinds : i \in running[k]
                          THEN (CHOOSE e \in es : e.inst = i).config ELSE NoConfig
  <2>1. trackerConfig = [i \in Instances |-> config(i)]
    BY DEF Init
  <2>2. ASSUME NEW e \in es PROVE e.config \in AllConfigs
    <3>1. PICK k \in Kinds : e \in {file[k][id] : id \in DOMAIN file[k]}
      BY <2>2
    <3> QED
      BY <1>5, <3>1 DEF Typed
  <2>3. ASSUME NEW i, NEW k \in Kinds, i \in running[k]
        PROVE  (CHOOSE e \in es : e.inst = i).config \in AllConfigs
    <3>1. PICK id \in DOMAIN file[k] : file[k][id].inst = i
      BY <1>1, <2>3
    <3>2. file[k][id] \in es
      OBVIOUS
    <3> HIDE DEF es
    <3>3. (CHOOSE e \in es : e.inst = i) \in es
      BY <3>1, <3>2
    <3> QED
      BY <2>2, <3>3
  <2>4. \A i \in Instances : config(i) \in AllConfigs
    BY <1>4, <2>3
  <2> HIDE DEF config
  <2> QED
    BY <2>1, <2>4
<1>9. RegistryTyped
  <2>1. \A k \in Kinds : DOMAIN relayMap[k] = DOMAIN file[k]
    BY <1>1
  <2> QED
    BY <1>5, <1>7, <1>8, <2>1 DEF RegistryTyped, Typed
<1>10. \A t \in Slots : CallTyped(calls[t])
  BY <1>3, <1>4 DEF CallTyped, Reading
<1>11. Apart
  <2>1. ASSUME NEW k \in Kinds
        PROVE  Places(k) = {file[k][id].inst : id \in DOMAIN file[k]}
    <3>1. running[k] = {file[k][id].inst : id \in DOMAIN file[k]}
      BY <1>1
    <3>2. Registered(k) = {file[k][id].inst : id \in DOMAIN file[k]}
      BY <1>1 DEF Registered
    <3>3. \A t \in Slots : calls[t].stage \notin Busy /\ calls[t].stage \notin Reading
      BY <1>3 DEF Busy, Reading
    <3> QED
      BY <3>1, <3>2, <3>3 DEF Places
  <2>2. \A i \in DOMAIN file["server"], j \in DOMAIN file["client"] :
            file["server"][i].inst # file["client"][j].inst
    BY <1>1, SituationsAssumption DEF Kinds
  <2> QED
    BY <2>1, <2>2 DEF Apart, Kinds
<1>12. PageTyped
  <2>1. link = [k \in Kinds |-> NoLink] /\ NoLink.config = NoConfig
    BY DEF Init, NoLink
  <2>2. \A k \in Kinds : DOMAIN list[k] = {}
    BY DEF Init
  <2>3. /\ modal \in Modals /\ draft \in AllConfigs /\ form \in [Kinds -> AllConfigs]
        /\ instance_id \in [Kinds -> Ids \union {0}]
        /\ table \in [Kinds -> Instances \union {NoInstance}]
    BY <1>4 DEF Init, Modals
  <2> QED
    BY <1>1, <1>4, <2>1, <2>2, <2>3 DEF PageTyped
<1> QED
  BY <1>9, <1>10, <1>11, <1>12 DEF TypeInv

(* and every step keeps it so.                                              *)
LEMMA NextTyped == IInv /\ ListInv /\ TypeInv /\ PageTyped /\ [Next]_vars => (TypeInv /\ PageTyped)'
<1> SUFFICES ASSUME IInv, ListInv, TypeInv, PageTyped, [Next]_vars
             PROVE  TypeInv' /\ PageTyped'
  OBVIOUS
<1>1. CASE UNCHANGED vars
  <2>1. UNCHANGED <<calls, relayMap, running, file, born, trackerConfig>> /\ UNCHANGED shownVars
    BY <1>1 DEF vars, registryVars, instances, saving, pageVars, tables, tracker, details, limits,
                shownVars
  <2>2. \A k \in Kinds : Places(k)' = Places(k)
    BY <2>1 DEF Places, ToWrite, Registered
  <2>3. RegistryTyped' /\ \A t \in Slots : CallTyped(calls[t])'
    BY <2>1 DEF TypeInv, RegistryTyped
  <2> QED
    BY <2>1, <2>2, <2>3, PageStays DEF TypeInv, Apart, Kinds
<1>2. ASSUME NEW s \in Slots, Handle(s), UNCHANGED <<pageVars, limits>>
      PROVE  TypeInv' /\ PageTyped'
  <2>1. UNCHANGED shownVars
    BY <1>2 DEF shownVars, pageVars, tables, tracker, details, limits
  <2> QED
    BY <1>2, <2>1, HandleTyped, PageStays
<1>3. CASE Process
  <2>1. UNCHANGED shownVars
    BY <1>3 DEF Process, shownVars, details
  <2> QED
    BY <1>3, <2>1, ProcessTyped, PageStays
<1> QED
  BY <1>1, <1>2, <1>3, CallbackTyped, ClickTyped DEF Next

(* Types, and that no server is a client: the registry keeps instances of   *)
(* the two kinds apart, ids in range and what the page shows well formed,   *)
(* whatever is clicked, saved, loaded and in whatever order it is answered  *)
(* (controller.go, config.go, index.js).                                    *)
THEOREM SpecTypeOK == Spec => []TypeOK
<1>1. Init => IInv /\ ListInv /\ TypeInv /\ PageTyped
  BY InitIInv, InitLists, InitTyped
<1>2. IInv /\ ListInv /\ TypeInv /\ PageTyped /\ [Next]_vars =>
          (IInv /\ ListInv /\ TypeInv /\ PageTyped)'
  BY NextIInv, NextLists, NextTyped
<1> QED
  BY <1>1, <1>2, TypeCorrectOf, PTL DEF Spec

-----------------------------------------------------------------------------
(* The quick configuration link.                                            *)

(* A request for the tracker's fields is under way,                         *)
Asks(s, k) ==
    calls[s].stage # "none" /\ calls[s].kind = k /\ calls[s].op \in {"tracker", "tracker/set"}

(* and nothing changes the instances of its kind, nor what is known of them,*)
Steady(k) ==
    /\ \A t \in Slots : ~(/\ calls[t].stage # "none" /\ calls[t].kind = k
                          /\ calls[t].op \in {"create", "delete"})
    /\ listed[k] /\ ~stale[k] => list[k] = relayMap[k]
    /\ \A t \in Slots : ~Outdated(t, k)

(* so that its answer is about the instance that is open.                   *)
OfOpen(s, k) ==
    /\ calls[s].id = instance_id[k]
    /\ calls[s].op = "tracker" /\ calls[s].stage = "ok" =>
           /\ up /\ calls[s].id \in DOMAIN relayMap[k]
           /\ calls[s].got.inst = relayMap[k][calls[s].id]

AsksInv(k) == ~mixed[k] => \A s \in Slots : Asks(s, k) => Steady(k) /\ OfOpen(s, k)
Askable(k) == link[k].config.scheme \notin {"ws", "wss"}

LinkInv ==
    /\ mixed \in [Kinds -> BOOLEAN]
    /\ \A k \in Kinds : /\ ~listed[k] => DOMAIN list[k] = {}
                        /\ ~mixed[k] => link[k].settings = link[k].of
                        /\ AsksInv(k)
    /\ Askable("server")

(* It says what the link is.                                                *)
LEMMA LinkInvOfOne == LinkInv => LinkOfOneInstance
BY DEF LinkInv, Askable, LinkOfOneInstance

-----------------------------------------------------------------------------
(* Handlers.                                                                *)

(* What a handler does that matters here.                                   *)
Works(s) ==
    /\ calls[s].stage # "none" /\ calls'[s].stage # "none"
    /\ \A t \in Slots \ {s} : calls'[t] = calls[t]
    /\ calls'[s].op = calls[s].op /\ calls'[s].kind = calls[s].kind
    /\ calls'[s].late = calls[s].late
    /\ calls[s].op # "create" => calls'[s].id = calls[s].id
    /\ UNCHANGED up
    /\ \A k \in Kinds : \/ relayMap'[k] = relayMap[k]
                        \/ calls[s].op \in {"create", "delete"} /\ calls[s].kind = k
    /\ calls[s].op = "list" /\ calls'[s].stage = "ok" => calls'[s].got = relayMap[calls[s].kind]
    /\ calls[s].op = "tracker" /\ calls'[s].stage = "ok" =>
           /\ up /\ calls[s].id \in DOMAIN relayMap[calls[s].kind]
           /\ calls'[s].got.inst = relayMap[calls[s].kind][calls[s].id]

(* Every handler does.                                                      *)
LEMMA HandleWorks == ASSUME IInv, NEW s \in Slots, Handle(s) PROVE Works(s)
<1>1. PICK k \in Kinds : Shape /\ k = calls[s].kind
  BY DEF IInv, MapInv, Shape, IsCall
<1>2. ASSUME UNCHANGED <<up, relayMap>>, NEW stage \in {"failed", "ok", "clients", "servers", "open"},
             Calls(s, calls[s].id, stage, calls[s].inst), calls[s].stage # "none",
             stage = "ok" => calls[s].op \notin {"list", "tracker"}
      PROVE  Works(s)
  BY <1>2 DEF Works, Calls
<1>3. CASE CreateRefused(s) \/ MakeHalf(s)
  <2>1. UNCHANGED <<up, relayMap>> /\ calls[s].stage # "none" /\ Goto(s, "failed")
    BY <1>3 DEF CreateRefused, MakeHalf, At, Fail, instances
  <2> QED
    BY <1>1, <1>2, <2>1, ToStage
<1>4. ASSUME NEW id \in Ids, Make(s, id) PROVE Works(s)
  <2>1. /\ calls[s].op = "create" /\ calls[s].stage = "sent" /\ UNCHANGED <<up, relayMap>>
        /\ calls' = [calls EXCEPT ![s].stage = "made", ![s].id = id, ![s].inst = born + 1]
    BY <1>4 DEF Make, At
  <2>2. Calls(s, id, "made", born + 1)
    BY <1>1, <2>1, ToMade
  <2> QED
    BY <2>1, <2>2 DEF Works, Calls
<1>5. CASE Register(s)
  <2>1. /\ calls[s].op = "create" /\ calls[s].stage = "made" /\ UNCHANGED up
        /\ Goto(s, "failed") \/ Answer(s, <<>>)
        /\ relayMap' = [relayMap EXCEPT ![k] = With(@, calls[s].id, calls[s].inst)]
    BY <1>1, <1>5 DEF Register, At, Fail
  <2>2. PICK stage \in {"failed", "ok"} : Calls(s, calls[s].id, stage, calls[s].inst)
    BY <1>1, <2>1, ToStage, ToAnswer
  <2>3. \A j \in Kinds \ {k} : relayMap'[j] = relayMap[j]
    BY <1>1, <2>1 DEF Shape
  <2> QED
    BY <1>1, <2>1, <2>2, <2>3 DEF Works, Calls
<1>6. CASE DeleteServer(s) \/ DeleteClient(s)
  <2>1. PICK stage \in {"sent"} \union Busy : Find(s) \/ Close(s, stage) \/ Remove(s, stage)
    BY <1>6 DEF DeleteServer, DeleteClient, Busy
  <2>2. /\ calls[s].op = "delete" /\ calls[s].stage # "none" /\ UNCHANGED up
        /\ \A j \in Kinds \ {k} : relayMap'[j] = relayMap[j]
    BY <1>1, <2>1 DEF Find, Close, Remove, At, instances, Shape, Busy
  <2>3. \E after \in {"ok", "failed", "found", "closed", "removed"} : \E inst :
            Calls(s, calls[s].id, after, inst)
    <3>1. \/ Goto(s, "failed") \/ Goto(s, "closed") \/ Goto(s, "removed") \/ Answer(s, <<>>)
          \/ \E inst : calls' = [calls EXCEPT ![s].stage = "found", ![s].inst = inst]
      BY <2>1 DEF Find, Close, Remove, Fail
    <3> QED
      BY <1>1, <3>1, ToStage, ToAnswer, ToFound
  <2> QED
    BY <1>1, <2>2, <2>3 DEF Works, Calls
<1>7. CASE List(s)
  <2>1. /\ calls[s].op = "list" /\ calls[s].stage = "sent" /\ UNCHANGED <<up, relayMap>>
        /\ Answer(s, relayMap[k])
    BY <1>1, <1>7 DEF List, At, instances
  <2>2. Calls(s, calls[s].id, "ok", calls[s].inst) /\ calls'[s].got = relayMap[k]
    BY <1>1, <2>1, ToAnswer
  <2> QED
    BY <1>1, <2>1, <2>2 DEF Works, Calls
<1>8. ASSUME NEW op \in Queries, Query(s, op) PROVE Works(s)
  <2>1. /\ up /\ calls[s].op \in Queries /\ calls[s].stage = "sent" /\ UNCHANGED <<up, relayMap>>
        /\ \/ calls[s].id \in DOMAIN relayMap[k] /\ Answer(s, Entry(k, calls[s].id))
           \/ Goto(s, "failed")
    BY <1>1, <1>8 DEF Query, At, instances, Fail
  <2>2. CASE Goto(s, "failed")
    BY <1>1, <1>2, <2>1, <2>2, ToStage
  <2>3. CASE calls[s].id \in DOMAIN relayMap[k] /\ Answer(s, Entry(k, calls[s].id))
    <3>1. /\ Calls(s, calls[s].id, "ok", calls[s].inst)
          /\ calls'[s].got = Entry(k, calls[s].id)
      BY <1>1, <2>3, ToAnswer
    <3>2. Entry(k, calls[s].id).inst = relayMap[k][calls[s].id]
      BY DEF Entry
    <3>3. calls[s].op \notin {"create", "list"}
      BY <2>1 DEF Queries
    <3> QED
      BY <1>1, <2>1, <2>3, <3>1, <3>2, <3>3 DEF Works, Calls
  <2> QED
    BY <2>1, <2>2, <2>3
<1>9. CASE SetTracker(s)
  <2>1. /\ calls[s].op = "tracker/set" /\ calls[s].stage = "sent" /\ UNCHANGED <<up, relayMap>>
        /\ Goto(s, "failed") \/ Answer(s, <<>>)
    BY <1>9 DEF SetTracker, At, Fail
  <2> QED
    BY <1>1, <1>2, <2>1, ToStage, ToAnswer
<1>10. CASE Save(s)
  <2>1. calls[s].op = "save" /\ calls[s].stage # "none" /\ UNCHANGED <<up, relayMap>>
    BY <1>10
    DEF Save, ReadClients, ReadServers, Truncate, OpenFails, Write, WriteFails, At, instances
  <2>2. \E stage \in {"failed", "ok", "clients", "servers", "open"} :
            Calls(s, calls[s].id, stage, calls[s].inst)
    <3>1. CASE ReadClients(s)
      BY <1>1, <3>1, ToStageGot DEF ReadClients
    <3>2. CASE ReadServers(s)
      BY <1>1, <3>2, ToStageGot DEF ReadServers
    <3>3. CASE Truncate(s)
      BY <1>1, <3>3, ToStage DEF Truncate
    <3>4. CASE Write(s)
      <4>1. Answer(s, <<>>)
        BY <3>4 DEF Write
      <4> QED
        BY <1>1, <4>1, ToAnswer
    <3>5. CASE OpenFails(s) \/ WriteFails(s)
      BY <1>1, <3>5, ToStage DEF OpenFails, WriteFails, Fail
    <3> QED
      BY <1>10, <3>1, <3>2, <3>3, <3>4, <3>5 DEF Save
  <2> QED
    BY <1>2, <2>1, <2>2
<1>11. CASE Unreachable(s)
  <2>1. UNCHANGED <<up, relayMap>> /\ calls[s].stage # "none" /\ Goto(s, "failed")
    BY <1>11 DEF Unreachable, Fail, instances
  <2> QED
    BY <1>1, <1>2, <2>1, ToStage
<1> QED
  BY <1>3, <1>4, <1>5, <1>6, <1>7, <1>8, <1>9, <1>10, <1>11 DEF Handle

(* None disturbs a request for the tracker's fields.                        *)
LEMMA HandleLink ==
    ASSUME LinkInv, NEW s \in Slots, Works(s), UNCHANGED pageVars
    PROVE  LinkInv'
<1>1. UNCHANGED <<list, listed, stale, instance_id, link, mixed>>
  BY DEF pageVars, tables, tracker
<1>2. ASSUME NEW k \in Kinds, ~mixed[k], NEW t \in Slots, Asks(t, k)'
      PROVE  Steady(k)' /\ OfOpen(t, k)'
  <2>1. Asks(t, k)
    BY <1>2 DEF Asks, Works
  <2>2. Steady(k) /\ OfOpen(t, k)
    BY <1>2, <2>1 DEF LinkInv, AsksInv
  <2>3. relayMap'[k] = relayMap[k]
    BY <2>2 DEF Works, Steady
  <2>4. \A r \in Slots : ~(/\ calls'[r].stage # "none" /\ calls'[r].kind = k
                           /\ calls'[r].op \in {"create", "delete"})
    BY <2>2 DEF Works, Steady
  <2>5. \A r \in Slots : ~Outdated(r, k)'
    BY <2>2, <2>3 DEF Works, Steady, Outdated
  <2>6. Steady(k)'
    BY <1>1, <2>2, <2>3, <2>4, <2>5 DEF Steady
  <2>7. OfOpen(t, k)'
    <3>1. CASE t = s
      BY <1>1, <2>1, <2>2, <2>3, <3>1 DEF OfOpen, Works, Asks
    <3>2. CASE t # s
      BY <1>1, <2>1, <2>2, <2>3, <3>2 DEF OfOpen, Works, Asks
    <3> QED
      BY <3>1, <3>2
  <2> QED
    BY <2>6, <2>7
<1>3. \A k \in Kinds : AsksInv(k)'
  BY <1>1, <1>2 DEF AsksInv
<1> QED
  BY <1>1, <1>3 DEF LinkInv, Askable

-----------------------------------------------------------------------------
(* The page.                                                                *)

(* An answer is taken: it changes nothing for the requests that are left.   *)
LEMMA TakenLink ==
    ASSUME NEW k \in Kinds, AsksInv(k), ~mixed[k], NEW s \in Slots, Hears(s),
           \A t \in Slots \ {s} : calls[t].late => calls'[t].late,
           UNCHANGED <<up, relayMap, instance_id>>,
           calls'[s].stage \in {"none", "sent"}, calls'[s].op \notin {"create", "delete"},
           Asks(s, k)' => Asks(s, k) /\ calls'[s].id = instance_id[k],
           listed'[k] /\ ~stale'[k] => \/ listed[k] /\ ~stale[k] /\ list'[k] = list[k]
                                       \/ /\ calls[s].op = "list" /\ calls[s].kind = k
                                          /\ calls[s].stage = "ok" /\ ~calls[s].late
                                          /\ list'[k] = calls[s].got
    PROVE  \A t \in Slots : Asks(t, k)' => Steady(k)' /\ OfOpen(t, k)'
<1> SUFFICES ASSUME NEW t \in Slots, Asks(t, k)' PROVE Steady(k)' /\ OfOpen(t, k)'
  OBVIOUS
<1>1. Asks(t, k)
  BY DEF Asks, Hears
<1>2. Steady(k) /\ OfOpen(t, k)
  BY <1>1 DEF AsksInv
<1>3. \A r \in Slots : ~(/\ calls'[r].stage # "none" /\ calls'[r].kind = k
                         /\ calls'[r].op \in {"create", "delete"})
  BY <1>2 DEF Hears, Steady
<1>4. \A r \in Slots : ~Outdated(r, k)'
  BY <1>2 DEF Hears, Steady, Outdated
<1>5. listed'[k] /\ ~stale'[k] => list'[k] = relayMap'[k]
  BY <1>2 DEF Steady, Outdated
<1>6. OfOpen(t, k)'
  BY <1>2 DEF OfOpen, Hears
<1> QED
  BY <1>3, <1>4, <1>5, <1>6 DEF Steady

(* A link is made while nothing else happens to its kind: the instance that *)
(* is open is the one that was asked for, and it is listed as it is.        *)
LEMMA AnswerLink ==
    ASSUME ListInv, TypeInv, PageTyped, LinkInv, NEW s \in Slots, NEW k \in Kinds, NEW scheme,
           TrackerAnswered(s, k, scheme),
           k = "server" => scheme = ClientUrl(calls[s].got.config.scheme)
    PROVE  /\ link' = [j \in Kinds |-> link'[j]] /\ \A j \in Kinds \ {k} : link'[j] = link[j]
           /\ ~mixed'[k] => ~mixed[k] /\ link'[k].settings = link'[k].of
           /\ mixed' \in [Kinds -> BOOLEAN] /\ \A j \in Kinds \ {k} : mixed'[j] = mixed[j]
           /\ Askable("server")'
<1> DEFINE got == calls[s].got
           new == LinkFrom(k, got, scheme)
<1>1. /\ link' = [link EXCEPT ![k] = new] /\ mixed' = [mixed EXCEPT ![k] = @ \/ stale[k]]
      /\ calls[s].op = "tracker" /\ calls[s].stage = "ok" /\ calls[s].kind = k
  BY DEF TrackerAnswered, Success
<1>2. ASSUME ~mixed[k], ~stale[k], instance_id[k] \in DOMAIN list[k]
      PROVE  list[k][instance_id[k]] = got.inst
  <2>1. listed[k]
    BY <1>2 DEF LinkInv
  <2>2. Steady(k) /\ OfOpen(s, k)
    BY <1>1, <1>2 DEF LinkInv, AsksInv, Asks
  <2> QED
    BY <1>1, <1>2, <2>1, <2>2 DEF Steady, OfOpen
<1>3. ~mixed[k] /\ ~stale[k] => new.settings = new.of
  <2>1. CASE instance_id[k] \in DOMAIN list[k]
    <3>1. new = [settings |-> list[k][instance_id[k]], of |-> got.inst,
                 config |-> [got.config EXCEPT !.scheme = scheme]]
      BY <2>1 DEF LinkFrom
    <3>2. new.settings = list[k][instance_id[k]] /\ new.of = got.inst
      BY <3>1
    <3> HIDE DEF new, got
    <3> QED
      BY <1>2, <2>1, <3>2
  <2>2. CASE instance_id[k] \notin DOMAIN list[k]
    BY <2>2 DEF LinkFrom, LinkInv
  <2> QED
    BY <2>1, <2>2
<1>4. k = "server" => new.config.scheme \notin {"ws", "wss"}
  <2> SUFFICES ASSUME k = "server" PROVE new.config.scheme \notin {"ws", "wss"}
    OBVIOUS
  <2>1. CASE instance_id[k] \in DOMAIN list[k]
    <3>1. got.config \in AllConfigs
      BY <1>1 DEF TypeInv, CallTyped, Queries
    <3>2. PICK c \in AllConfigs : c = got.config
      BY <3>1
    <3>3. c = [id |-> c.id, scheme |-> c.scheme]
      BY UrlsAssumption
    <3>4. scheme = ClientUrl(c.scheme)
      BY <3>2
    <3>5. scheme \notin {"ws", "wss"}
      BY <3>4 DEF ClientUrl
    <3>6. PICK d : d = [c EXCEPT !.scheme = scheme]
      OBVIOUS
    <3>7. d.scheme = scheme
      BY <3>3, <3>6
    <3>8. new = [settings |-> list[k][instance_id[k]], of |-> got.inst, config |-> d]
      BY <2>1, <3>2, <3>6 DEF LinkFrom
    <3>9. new.config = d
      <4> HIDE DEF got
      <4> QED
        BY <3>8
    <3> QED
      BY <3>5, <3>7, <3>9
  <2>2. CASE instance_id[k] \notin DOMAIN list[k]
    BY <2>2 DEF LinkFrom, LinkInv, Askable
  <2> QED
    BY <2>1, <2>2
<1> HIDE DEF new, got
<1>5. link' = [j \in Kinds |-> link'[j]] /\ link'[k] = new
      /\ \A j \in Kinds \ {k} : link'[j] = link[j]
  BY <1>1 DEF PageTyped
<1>6. stale[k] \in BOOLEAN /\ mixed \in [Kinds -> BOOLEAN]
  BY DEF ListInv, Tables, LinkInv
<1>7. /\ mixed' \in [Kinds -> BOOLEAN] /\ \A j \in Kinds \ {k} : mixed'[j] = mixed[j]
      /\ ~mixed'[k] => ~mixed[k] /\ ~stale[k]
  BY <1>1, <1>6
<1>8. Askable("server")'
  BY <1>4, <1>5 DEF Askable, LinkInv, Kinds
<1> QED
  BY <1>3, <1>5, <1>7, <1>8

(* Every answer leaves the link as it should be.                            *)
LEMMA CallbackLink ==
    ASSUME IInv, ListInv, TypeInv, PageTyped, LinkInv, NEW s \in Slots, Callback(s)
    PROVE  LinkInv'
<1>1. PICK c \in Kinds : Shape /\ c = calls[s].kind
  BY DEF IInv, MapInv, Shape, IsCall
<1>2. /\ Hears(s) /\ \A t \in Slots \ {s} : calls[t].late => calls'[t].late
      /\ calls'[s].stage \in {"none", "sent"} /\ calls'[s].op \notin {"create", "delete"}
      /\ \A k \in Kinds : Asks(s, k)' => Asks(s, k) /\ calls'[s].id = instance_id[k]
  <2>1. CASE Done(s)
    BY <1>1, <2>1, DoneCalls DEF TakenBy, Frees, Asks
  <2>2. ASSUME NEW op \in {"list", "connection", "tracker"}, NEW k \in Kinds, Then(s, op, k),
               op = "tracker" => k = c /\ calls[s].op = "tracker/set" /\ calls[s].stage = "ok"
        PROVE  /\ Hears(s) /\ \A t \in Slots \ {s} : calls[t].late => calls'[t].late
               /\ calls'[s].stage \in {"none", "sent"} /\ calls'[s].op \notin {"create", "delete"}
               /\ \A j \in Kinds : Asks(s, j)' => Asks(s, j) /\ calls'[s].id = instance_id[j]
    <3>1. /\ TakenBy(s)
          /\ Sends(s, op, k, instance_id[k], NoConfig, InFlight(k, {op}) \ {s})
      BY <1>1, <2>2, ThenCalls
    <3>2. /\ TakenBy(s)
          /\ calls'[s].op = op /\ calls'[s].kind = k /\ calls'[s].id = instance_id[k]
          /\ calls'[s].stage = "sent"
      BY <3>1 DEF Sends
    <3>3. \A j \in Kinds : Asks(s, j)' => Asks(s, j) /\ calls'[s].id = instance_id[j]
      BY <1>1, <2>2, <3>2 DEF Asks
    <3>4. Hears(s) /\ \A t \in Slots \ {s} : calls[t].late => calls'[t].late
      BY <3>2 DEF TakenBy
    <3>5. calls'[s].op \notin {"create", "delete"} /\ calls'[s].stage \in {"none", "sent"}
      BY <2>2, <3>2
    <3> QED
      BY <3>3, <3>4, <3>5
  <2>3. CASE ErrorShown(s)
    BY <1>1, <2>3, ErrorCalls DEF FailedBy, Frees, Asks
  <2>4. \/ Done(s) \/ ErrorShown(s)
        \/ \E op \in {"list", "connection", "tracker"}, k \in Kinds :
               /\ Then(s, op, k)
               /\ op = "tracker" => k = c /\ calls[s].op = "tracker/set" /\ calls[s].stage = "ok"
    BY <1>1 DEF Callback, ListAnswered, Created, Deleted, Connected, Restarted, ServerAddrUpdated,
                Saved, ConnectionsAnswered, SessionsAnswered, ServerTrackerAnswered,
                ClientTrackerAnswered, TrackerAnswered, TrackerSet, Success, Kinds
  <2> QED
    BY <2>1, <2>2, <2>3, <2>4
<1>3. UNCHANGED <<up, relayMap, instance_id>>
  BY DEF Callback, ListAnswered, Created, Deleted, Connected, Restarted, ServerAddrUpdated,
         Saved, ConnectionsAnswered, SessionsAnswered, ServerTrackerAnswered,
         ClientTrackerAnswered, TrackerAnswered, TrackerSet, ErrorShown, Quiet, instances,
         pageVars
<1>4. ASSUME NEW k \in Kinds
      PROVE  /\ listed'[k] /\ ~stale'[k] =>
                    \/ listed[k] /\ ~stale[k] /\ list'[k] = list[k]
                    \/ /\ calls[s].op = "list" /\ calls[s].kind = k
                       /\ calls[s].stage = "ok" /\ ~calls[s].late
                       /\ list'[k] = calls[s].got
             /\ ~listed'[k] => DOMAIN list'[k] = {}
  <2>1. CASE ListAnswered(s)
    <3>1. /\ list' = [list EXCEPT ![c] = calls[s].got] /\ listed' = [listed EXCEPT ![c] = TRUE]
          /\ stale' = [stale EXCEPT ![c] = calls[s].late]
          /\ calls[s].op = "list" /\ calls[s].stage = "ok"
      BY <1>1, <2>1 DEF ListAnswered, Success
    <3>2. \/ k = c /\ listed'[k] = TRUE /\ list'[k] = calls[s].got /\ stale'[k] = calls[s].late
          \/ k # c /\ listed'[k] = listed[k] /\ list'[k] = list[k] /\ stale'[k] = stale[k]
      BY <3>1 DEF ListInv, Tables
    <3> QED
      BY <1>1, <3>1, <3>2 DEF LinkInv
  <2>2. CASE ErrorShown(s)
    <3>1. /\ UNCHANGED <<list, listed>>
          /\ stale' = [stale EXCEPT ![c] = @ \/ calls[s].op = "create"]
      BY <1>1, <2>2 DEF ErrorShown
    <3>2. stale[k] => stale'[k]
      BY <3>1 DEF ListInv, Tables
    <3> QED
      BY <3>1, <3>2 DEF LinkInv
  <2>3. CASE ~ListAnswered(s) /\ ~ErrorShown(s)
    <3>1. UNCHANGED <<list, listed, stale>>
      BY <2>3 DEF Callback, Created, Deleted, Connected, Restarted, ServerAddrUpdated,
                  Saved, ConnectionsAnswered, SessionsAnswered, ServerTrackerAnswered,
                  ClientTrackerAnswered, TrackerAnswered, TrackerSet, pageVars, tables
    <3> QED
      BY <3>1 DEF LinkInv
  <2> QED
    BY <2>1, <2>2, <2>3
<1>5. /\ mixed' \in [Kinds -> BOOLEAN] /\ Askable("server")'
      /\ \A k \in Kinds : ~mixed'[k] => ~mixed[k] /\ link'[k].settings = link'[k].of
  <2>1. CASE ServerTrackerAnswered(s) \/ ClientTrackerAnswered(s)
    <3>1. PICK k, scheme : /\ k \in Kinds /\ TrackerAnswered(s, k, scheme)
                           /\ k = "server" => scheme = ClientUrl(calls[s].got.config.scheme)
      BY <2>1 DEF ServerTrackerAnswered, ClientTrackerAnswered, Kinds
    <3>2. /\ \A j \in Kinds \ {k} : link'[j] = link[j]
          /\ ~mixed'[k] => ~mixed[k] /\ link'[k].settings = link'[k].of
          /\ mixed' \in [Kinds -> BOOLEAN] /\ \A j \in Kinds \ {k} : mixed'[j] = mixed[j]
          /\ Askable("server")'
      BY <3>1, AnswerLink
    <3> QED
      BY <3>2 DEF LinkInv
  <2>2. CASE ~(ServerTrackerAnswered(s) \/ ClientTrackerAnswered(s))
    <3>1. UNCHANGED <<link, mixed>>
      BY <2>2 DEF Callback, ListAnswered, Created, Deleted, Connected, Restarted, ServerAddrUpdated,
                  Saved, ConnectionsAnswered, SessionsAnswered, TrackerSet, ErrorShown, pageVars,
                  tracker
    <3> QED
      BY <3>1 DEF LinkInv, Askable
  <2> QED
    BY <2>1, <2>2
<1>6. ASSUME NEW k \in Kinds PROVE AsksInv(k)'
  <2> SUFFICES ASSUME ~mixed'[k]
               PROVE  \A t \in Slots : Asks(t, k)' => Steady(k)' /\ OfOpen(t, k)'
    BY DEF AsksInv
  <2>1. AsksInv(k) /\ ~mixed[k]
    BY <1>5 DEF LinkInv
  <2> QED
    BY <1>2, <1>3, <1>4, <2>1, TakenLink
<1> QED
  BY <1>4, <1>5, <1>6 DEF LinkInv

(* A click makes a request for the tracker's fields, or another.            *)
LEMMA AjaxLink ==
    ASSUME IInv, ListInv, LinkInv, NEW op, NEW j \in Kinds, NEW id, NEW data,
           Ajax(op, j, id, data), op \in {"tracker", "tracker/set"} => id = instance_id[j],
           UNCHANGED <<tables, instance_id, link>>
    PROVE  LinkInv'
<1>1. PICK s \in Slots : /\ calls[s].stage = "none"
                         /\ \A t \in Slots \ {s} : calls'[t] = calls[t]
                         /\ calls'[s].op = op /\ calls'[s].kind = j /\ calls'[s].id = id
                         /\ calls'[s].stage = "sent"
  <2>1. PICK s \in Slots : /\ calls[s].stage = "none"
                           /\ \A t \in Slots \ {s} : calls'[t] = calls[t]
                           /\ Sends(s, op, j, id, data, InFlight(j, {op}))
    BY AjaxCalls DEF IInv, MapInv
  <2> QED
    BY <2>1 DEF Sends
<1>2. UNCHANGED <<up, relayMap, list, listed, stale>>
  BY DEF Ajax, instances, tables
<1>3. /\ mixed' \in [Kinds -> BOOLEAN] /\ \A k \in Kinds : ~mixed'[k] => ~mixed[k]
      /\ ~mixed'[j] =>
             /\ op \in {"tracker", "tracker/set"} => InFlight(j, {"create", "delete", "list"}) = {}
             /\ op \in {"create", "delete", "list"} => InFlight(j, {"tracker", "tracker/set"}) = {}
  BY DEF Ajax, LinkInv
<1>4. ASSUME NEW k \in Kinds, ~mixed'[k], NEW t \in Slots, Asks(t, k)'
      PROVE  Steady(k)' /\ OfOpen(t, k)'
  <2>1. t # s => Asks(t, k)
    BY <1>1, <1>4 DEF Asks
  <2>2. Asks(t, k) => Steady(k) /\ OfOpen(t, k)
    BY <1>3, <1>4 DEF LinkInv, AsksInv
  <2>3. t # s => OfOpen(t, k)'
    BY <1>1, <1>2, <2>1, <2>2 DEF OfOpen
  <2>4. t = s => k = j /\ op \in {"tracker", "tracker/set"} /\ OfOpen(t, k)'
    BY <1>1, <1>4 DEF Asks, OfOpen
  <2>5. CASE k # j \/ op \notin {"tracker", "tracker/set", "create", "delete", "list"}
    <3>1. Steady(k)
      BY <2>1, <2>2, <2>4, <2>5
    <3>2. Steady(k)'
      BY <1>1, <1>2, <2>5, <3>1 DEF Steady, Outdated
    <3> QED
      BY <2>3, <2>4, <3>2
  <2>6. CASE k = j /\ op \in {"create", "delete", "list"}
    <3>1. t # s
      BY <2>4, <2>6
    <3> QED
      BY <1>3, <1>4, <2>1, <2>6, <3>1 DEF InFlight, Asks
  <2>7. CASE k = j /\ op \in {"tracker", "tracker/set"}
    <3>1. \A r \in Slots : ~(/\ calls[r].stage # "none" /\ calls[r].kind = k
                             /\ calls[r].op \in {"create", "delete", "list"})
      BY <1>3, <1>4, <2>7 DEF InFlight
    <3>2. listed[k] /\ ~stale[k] => list[k] = relayMap[k]
      <4>1. \A b \in Slots : ~Changes(b, k) /\ ~Lists(b, k)
        BY <3>1 DEF Changes, Lists
      <4> QED
        BY <4>1 DEF ListInv, DownStale, Drawn
    <3>3. \A r \in Slots : ~(/\ calls'[r].stage # "none" /\ calls'[r].kind = k
                             /\ calls'[r].op \in {"create", "delete", "list"})
      BY <1>1, <2>7, <3>1
    <3>4. \A r \in Slots : ~Outdated(r, k)'
      BY <3>3 DEF Outdated
    <3>5. Steady(k)'
      BY <1>2, <3>2, <3>3, <3>4 DEF Steady
    <3> QED
      BY <2>3, <2>4, <3>5
  <2> QED
    BY <2>5, <2>6, <2>7
<1>5. \A k \in Kinds : AsksInv(k)'
  BY <1>4 DEF AsksInv
<1> QED
  BY <1>2, <1>3, <1>5 DEF LinkInv, Askable

(* So does every click.                                                     *)
LEMMA ClickLink ==
    ASSUME IInv, ListInv, LinkInv, PageTyped, (\E k \in Kinds : Click(k)) \/ Buttons
    PROVE  LinkInv'
<1>1. ASSUME UNCHANGED <<calls, tables, instance_id, link, mixed>>, Quiet PROVE LinkInv'
  <2>1. UNCHANGED <<calls, up, relayMap, list, listed, stale, link>>
    BY <1>1 DEF tables, Quiet, instances
  <2>2. \A k \in Kinds : AsksInv(k)'
    BY <1>1, <2>1 DEF LinkInv, AsksInv, Asks, Steady, OfOpen, Outdated
  <2> QED
    BY <1>1, <2>1, <2>2 DEF LinkInv, Askable
<1>2. ASSUME NEW k \in Kinds, Click(k) PROVE LinkInv'
  <2>1. ASSUME NEW op, NEW id, NEW data, Ajax(op, k, id, data), UNCHANGED <<tables, instance_id, link>>,
               op \in {"tracker", "tracker/set"} => id = instance_id[k]
        PROVE  LinkInv'
    BY <2>1, AjaxLink
  <2>2. CASE ClickList(k) \/ Delete(k) \/ ClickConnections(k) \/ ClickSessions(k)
    BY <2>1, <2>2 DEF ClickList, Delete, ClickConnections, ClickSessions
  <2>3. CASE ClickTracker(k) \/ ClickSetTracker(k)
    BY <2>1, <2>3 DEF ClickTracker, ClickSetTracker
  <2>4. CASE ShowCreate(k) \/ CreateByLink(k)
    BY <1>1, <2>4 DEF ShowCreate, CreateByLink, tracker
  <2>5. ASSUME NEW id, NEW config, Create(k, id, config) PROVE LinkInv'
    BY <2>1, <2>5 DEF Create
  <2>6. ASSUME NEW id \in Ids, Show(k, id) PROVE LinkInv'
    <3>1. /\ UNCHANGED <<calls, up, relayMap, list, listed, stale, link>>
          /\ instance_id' = [instance_id EXCEPT ![k] = id]
          /\ mixed' = [mixed EXCEPT ![k] = @ \/ InFlight(k, {"tracker", "tracker/set"}) # {}]
      BY <2>6 DEF Show, tables, Quiet, instances
    <3>2. mixed' \in [Kinds -> BOOLEAN] /\ \A j \in Kinds : ~mixed'[j] => ~mixed[j]
      BY <3>1 DEF LinkInv
    <3>3. ASSUME NEW j \in Kinds, ~mixed'[j], NEW t \in Slots, Asks(t, j)'
          PROVE  Steady(j)' /\ OfOpen(t, j)'
      <4>1. Asks(t, j)
        BY <3>1, <3>3 DEF Asks
      <4>2. j # k
        <5>1. t \in InFlight(j, {"tracker", "tracker/set"})
          BY <4>1 DEF Asks, InFlight
        <5> QED
          BY <3>1, <3>3, <5>1 DEF LinkInv
      <4>3. instance_id'[j] = instance_id[j]
        BY <3>1, <4>2 DEF PageTyped
      <4>4. Steady(j) /\ OfOpen(t, j)
        BY <3>2, <3>3, <4>1 DEF LinkInv, AsksInv
      <4> QED
        BY <3>1, <4>3, <4>4 DEF Steady, OfOpen, Outdated
    <3>4. \A j \in Kinds : AsksInv(j)'
      BY <3>3 DEF AsksInv
    <3> QED
      BY <3>1, <3>2, <3>4 DEF LinkInv, Askable
  <2> QED
    BY <1>2, <2>2, <2>3, <2>4, <2>5, <2>6 DEF Click
<1>3. CASE CloseModal
  BY <1>1, <1>3 DEF CloseModal, tracker
<1>4. CASE Connect \/ Restart \/ UpdateServerAddr \/ SaveConfig
  BY <1>4, AjaxLink DEF Connect, Restart, UpdateServerAddr, SaveConfig, Kinds
<1> QED
  BY <1>2, <1>3, <1>4 DEF Buttons

(* A program that dies is an excuse where an answer is under way.           *)
LEMMA ProcessLink == IInv /\ ListInv /\ LinkInv /\ Process => LinkInv'
<1> SUFFICES ASSUME IInv, ListInv, LinkInv, Process PROVE LinkInv'
  OBVIOUS
<1>1. UNCHANGED <<list, listed, link, instance_id>> /\ \A k \in Kinds : stale'[k]
  BY DEF Process
<1>2. CASE Crash
  <2>1. mixed' = [k \in Kinds |-> mixed[k] \/ InFlight(k, {"tracker"}) # {}]
    BY <1>2 DEF Process, Start, Crash
  <2>2. ASSUME NEW t \in Slots
        PROVE  /\ calls'[t].op = calls[t].op /\ calls'[t].kind = calls[t].kind
               /\ calls'[t].id = calls[t].id
               /\ calls'[t].stage = "none" <=> calls[t].stage = "none"
               /\ calls'[t].stage # "none" => calls'[t].late
    <3>1. CASE calls[t].stage = "none"
      BY <1>2, <3>1 DEF Crash
    <3>2. CASE calls[t].stage # "none"
      <4> DEFINE stage == IF calls[t].stage = "ok" THEN "ok" ELSE "failed"
      <4>1. calls'[t] = [calls[t] EXCEPT !.late = TRUE, !.stage = stage]
        BY <1>2, <3>2 DEF Crash
      <4>2. IsCall(calls[t])
        BY DEF IInv, MapInv, Shape
      <4>3. calls'[t] = [op |-> calls[t].op, kind |-> calls[t].kind, id |-> calls[t].id,
                         data |-> calls[t].data, stage |-> stage, inst |-> calls[t].inst,
                         got |-> calls[t].got, earlier |-> calls[t].earlier, late |-> TRUE]
        BY <4>1, <4>2 DEF IsCall
      <4> QED
        BY <3>2, <4>3
    <3> QED
      BY <3>1, <3>2
  <2>3. /\ mixed' \in [Kinds -> BOOLEAN]
        /\ \A k \in Kinds : ~mixed'[k] => ~mixed[k] /\ InFlight(k, {"tracker"}) = {}
    BY <2>1 DEF LinkInv
  <2>4. ASSUME NEW k \in Kinds, ~mixed'[k], NEW t \in Slots, Asks(t, k)'
        PROVE  Steady(k)' /\ OfOpen(t, k)'
    <3>1. Asks(t, k) /\ calls[t].op # "tracker"
      BY <2>2, <2>3, <2>4 DEF Asks, InFlight
    <3>2. Steady(k) /\ OfOpen(t, k)
      BY <2>3, <2>4, <3>1 DEF LinkInv, AsksInv
    <3>3. OfOpen(t, k)'
      BY <1>1, <2>2, <3>1, <3>2 DEF OfOpen
    <3>4. \A r \in Slots : ~Outdated(r, k)'
      BY <2>2 DEF Outdated
    <3>5. Steady(k)'
      BY <1>1, <2>2, <3>2, <3>4 DEF Steady
    <3> QED
      BY <3>3, <3>5
  <2>5. \A k \in Kinds : AsksInv(k)'
    BY <2>4 DEF AsksInv
  <2> QED
    BY <1>1, <2>3, <2>5 DEF LinkInv, Askable
<1>3. CASE ~Crash
  <2>1. ~up /\ UNCHANGED <<calls, mixed>>
    BY <1>3 DEF Process, Start
  <2>2. ASSUME NEW k \in Kinds, ~mixed'[k], NEW t \in Slots, Asks(t, k)'
        PROVE  Steady(k)' /\ OfOpen(t, k)'
    <3>1. Steady(k) /\ OfOpen(t, k)
      BY <2>1, <2>2 DEF LinkInv, AsksInv, Asks
    <3>2. \A r \in Slots : ~Outdated(r, k)'
      BY <2>1 DEF Outdated, ListInv, DownStale
    <3>3. Steady(k)'
      BY <1>1, <2>1, <3>1, <3>2 DEF Steady
    <3>4. OfOpen(t, k)'
      BY <1>1, <2>1, <3>1 DEF OfOpen
    <3> QED
      BY <3>3, <3>4
  <2>3. \A k \in Kinds : AsksInv(k)'
    BY <2>2 DEF AsksInv
  <2> QED
    BY <1>1, <2>1, <2>3 DEF LinkInv, Askable
<1> QED
  BY <1>2, <1>3

(* At first nobody asks, and there is no link.                              *)
LEMMA InitLink == Init => LinkInv
<1> SUFFICES ASSUME Init PROVE LinkInv
  OBVIOUS
<1>1. PICK r \in Slots :
          calls = [t \in Slots |-> IF t = r THEN Request("list", "client", 0, NoConfig, {})
                                    ELSE Nothing]
  BY DEF Init
<1>2. \A t \in Slots, k \in Kinds : ~Asks(t, k)
  BY <1>1, NothingFields DEF Request, Asks
<1>3. /\ mixed \in [Kinds -> BOOLEAN] /\ \A k \in Kinds : DOMAIN list[k] = {} /\ link[k] = NoLink
  BY DEF Init
<1>4. NoLink.settings = NoLink.of /\ NoLink.config.scheme \notin {"ws", "wss"}
  BY UrlsAssumption DEF NoLink
<1> QED
  BY <1>2, <1>3, <1>4 DEF LinkInv, AsksInv, Askable, Kinds

(* Every step keeps it.                                                     *)
LEMMA NextLink == IInv /\ ListInv /\ TypeInv /\ PageTyped /\ LinkInv /\ [Next]_vars => LinkInv'
<1> SUFFICES ASSUME IInv, ListInv, TypeInv, PageTyped, LinkInv, [Next]_vars PROVE LinkInv'
  OBVIOUS
<1>1. CASE UNCHANGED vars
  <2>1. UNCHANGED <<calls, up, relayMap, list, listed, stale, link, mixed, instance_id>>
    BY <1>1 DEF vars, registryVars, instances, pageVars, tables, tracker
  <2>2. \A k \in Kinds : AsksInv(k)'
    BY <2>1 DEF LinkInv, AsksInv, Asks, Steady, OfOpen, Outdated
  <2> QED
    BY <2>1, <2>2 DEF LinkInv, Askable
<1> QED
  BY <1>1, HandleWorks, HandleLink, CallbackLink, ClickLink, ProcessLink DEF Next

(* The quick configuration link takes its settings and its tracker id from  *)
(* one instance, and a server's names a URL a client can ask, but for the   *)
(* overlaps that "mixed" lists (index.js 531-587, 612-660).                 *)
THEOREM SpecLinkOfOneInstance == Spec => []LinkOfOneInstance
<1>1. Init => IInv /\ ListInv /\ TypeInv /\ PageTyped /\ LinkInv
  BY InitIInv, InitLists, InitTyped, InitLink
<1>2. IInv /\ ListInv /\ TypeInv /\ PageTyped /\ LinkInv /\ [Next]_vars =>
          (IInv /\ ListInv /\ TypeInv /\ PageTyped /\ LinkInv)'
  BY NextIInv, NextLists, NextTyped, NextLink
<1> QED
  BY <1>1, <1>2, LinkInvOfOne, PTL DEF Spec
=============================================================================

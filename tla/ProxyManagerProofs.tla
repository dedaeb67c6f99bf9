-------------------------- MODULE ProxyManagerProofs --------------------------
(***************************************************************************)
(* The proxy manager: type correctness, then the safety properties of      *)
(* ProxyManagerProps, for every value of the constants: IInv is inductive  *)
(* and implies them.  While there are only requests, the table is served   *)
(* (TableIsServed, from AloneInv).                                         *)
(***************************************************************************)
EXTENDS ProxyManagerProps, TLAPS

-----------------------------------------------------------------------------
(* Types.                                                                  *)

LEMMA NoneIsNothing ==
    /\ None \notin Row /\ None \notin Instance /\ None \notin Proxy
    /\ None \notin Workers /\ None \notin Keys /\ None \notin UpsertJob /\ None \notin DeleteJob
BY NoneAssumption

LEMMA NextGenTyped ==
    ASSUME TypeOK, NEW t \in Types, NEW k \in Keys
    PROVE  NextGen(t, k) \in 1..MaxGen
<1>1. service[t][k].gen \in Nat
  BY DEF TypeOK, WorldOK
<1>2. \A g \in Nat : (g % MaxGen) + 1 \in 1..MaxGen
  BY BoundsAssumption
<1> QED
  BY <1>1, <1>2 DEF NextGen

LEMMA RotateTyped ==
    ASSUME TypeOK, NEW t \in Types, NEW k \in Keys, Rotate(t, k)
    PROVE  service' \in [Types -> [Keys -> [gen : 0..MaxGen, readyAt : Int]]]
<1>1. NextGen(t, k) \in 0..MaxGen
  BY NextGenTyped, BoundsAssumption
<1>2. clock + Cooldown \in Int
  BY BoundsAssumption DEF TypeOK, WorldOK
<1> QED
  BY <1>1, <1>2 DEF TypeOK, WorldOK, Rotate

LEMMA AnswersTyped ==
    ASSUME NEW t \in Types, NEW g \in 1..MaxGen
    PROVE  Answers(t, g) \subseteq Proxy
BY TypesAssumption DEF Answers, Proxy

\* A worker that moves to a label with a fitting job stays well-typed.
LEMMA MoveTyped ==
    ASSUME ApiOK, NEW w \in Workers, NEW l \in Labels,
           NEW j \in UpsertJob \cup DeleteJob \cup {None}, JobFits(l, j),
           pc' = [pc EXCEPT ![w] = l], job' = [job EXCEPT ![w] = j]
    PROVE  ApiOK'
<1>1. pc' \in [Workers -> Labels]
  BY DEF ApiOK
<1>2. job' \in [Workers -> UpsertJob \cup DeleteJob \cup {None}]
  BY DEF ApiOK
<1>3. ASSUME NEW v \in Workers PROVE JobFits(pc'[v], job'[v])
  <2>1. CASE v = w
    <3>1. pc'[v] = l /\ job'[v] = j
      BY <2>1 DEF ApiOK
    <3> QED BY <3>1
  <2>2. CASE v # w
    <3>1. pc'[v] = pc[v] /\ job'[v] = job[v]
      BY <2>2 DEF ApiOK
    <3> QED BY <3>1 DEF ApiOK
  <2> QED BY <2>1, <2>2
<1>4. \A v \in Workers : JobFits(pc'[v], job'[v])
  BY <1>3
<1> QED BY <1>1, <1>2, <1>4 DEF ApiOK

\* The same when the job stays as it is.
LEMMA AdvanceTyped ==
    ASSUME ApiOK, NEW w \in Workers, NEW l \in Labels, JobFits(l, job[w]),
           pc' = [pc EXCEPT ![w] = l], UNCHANGED job
    PROVE  ApiOK'
<1>1. job' = [job EXCEPT ![w] = job[w]]
  BY DEF ApiOK
<1>2. job[w] \in UpsertJob \cup DeleteJob \cup {None}
  BY DEF ApiOK
<1> QED BY <1>1, <1>2, MoveTyped

LEMMA FinishTyped ==
    ASSUME ApiOK, NEW w \in Workers, Finish(w)
    PROVE  ApiOK' /\ mu' = None
<1>1. JobFits("idle", None)
  BY DEF JobFits
<1>2. "idle" \in Labels
  BY DEF Labels
<1>3. pc' = [pc EXCEPT ![w] = "idle"] /\ job' = [job EXCEPT ![w] = None] /\ mu' = None
  BY DEF Finish
<1> QED BY <1>1, <1>2, <1>3, MoveTyped

LEMMA InitTyped == Init => TypeOK
<1> SUFFICES ASSUME Init PROVE TypeOK
  OBVIOUS
<1>1. DbOK
  BY BoundsAssumption DEF Init, DbOK
<1>2. WorldOK
  BY BoundsAssumption DEF Init, WorldOK
<1>3. ManagerOK
  BY DEF Init, ManagerOK
<1>4. ApiOK
  BY DEF Init, ApiOK, JobFits, Labels
<1>5. AutoOK
  BY BoundsAssumption DEF Init, AutoOK
<1> QED BY <1>1, <1>2, <1>3, <1>4, <1>5 DEF TypeOK

LEMMA UpstreamTyped ==
    ASSUME ManagerOK, NEW id \in Ids, NEW p \in Proxy, UpdateUpstream(id, p)
    PROVE  instances' \in [Ids -> Instance \cup {None}]
<1>1. instances[id] # None => [instances[id] EXCEPT !.upstream = p] \in Instance
  BY DEF ManagerOK, Instance
<1> QED BY <1>1 DEF UpdateUpstream, ManagerOK

\* Each step of a request keeps the types.
LEMMA RequestTyped ==
    ASSUME TypeOK, NEW w \in Workers,
           ReceiveUpsert(w) \/ ReceiveDelete(w) \/ Upsert(w) \/ Delete(w)
    PROVE  TypeOK'
<1> USE NoneIsNothing DEF TypeOK, vars, dbVars, autoVars
<1>1. CASE ReceiveUpsert(w)
  <2>1. PICK k \in Keys, t \in Types, m \in Mins :
           job' = [job EXCEPT ![w] = [key |-> k, type |-> t, min |-> m,
                                      id |-> 0, proxy |-> None, last |-> 0]]
    BY <1>1 DEF ReceiveUpsert
  <2> DEFINE j == [key |-> k, type |-> t, min |-> m, id |-> 0, proxy |-> None, last |-> 0]
  <2>2. j \in UpsertJob
    BY DEF UpsertJob
  <2>3. JobFits("upsert", j) /\ "upsert" \in Labels
    BY <2>2 DEF JobFits, Labels
  <2>4. ApiOK'
    BY <2>1, <2>2, <2>3, <1>1, MoveTyped DEF ReceiveUpsert
  <2> QED BY <1>1, <2>4 DEF ReceiveUpsert, DbOK, WorldOK, ManagerOK, AutoOK
<1>2. CASE ReceiveDelete(w)
  <2>1. PICK i \in Ids : job' = [job EXCEPT ![w] = [id |-> i]]
    BY <1>2 DEF ReceiveDelete
  <2>2. [id |-> i] \in DeleteJob
    BY DEF DeleteJob
  <2>3. JobFits("delete", [id |-> i]) /\ "delete" \in Labels
    BY <2>2 DEF JobFits, Labels
  <2>4. ApiOK'
    BY <2>1, <2>2, <2>3, <1>2, MoveTyped DEF ReceiveDelete
  <2> QED BY <1>2, <2>4 DEF ReceiveDelete, DbOK, WorldOK, ManagerOK, AutoOK
<1>3. CASE LockUpsert(w)
  <2>1. job[w] \in UpsertJob
    BY <1>3 DEF LockUpsert, ApiOK, JobFits
  <2>2. ASSUME NEW i \in Ids, job' = [job EXCEPT ![w].id = i],
               pc' = [pc EXCEPT ![w] = "getcur"]
        PROVE  ApiOK'
    <3> DEFINE j == [job[w] EXCEPT !.id = i]
    <3>1. j \in UpsertJob
      BY <2>1 DEF UpsertJob
    <3>2. JobFits("getcur", j) /\ "getcur" \in Labels
      BY <3>1 DEF JobFits, Labels, Locked
    <3>3. job' = [job EXCEPT ![w] = j]
      BY <2>2
    <3> QED BY <2>2, <3>1, <3>2, <3>3, MoveTyped
  <2>3. ASSUME UNCHANGED job, pc' = [pc EXCEPT ![w] = "getcur"]
        PROVE  ApiOK'
    <3>1. JobFits("getcur", job[w]) /\ "getcur" \in Labels
      BY <2>1 DEF JobFits, Labels, Locked
    <3> QED BY <2>3, <3>1, AdvanceTyped
  <2>4. ApiOK' /\ mu' \in Workers \cup {None}
    BY <1>3, <2>2, <2>3, FinishTyped DEF LockUpsert
  <2> QED BY <1>3, <2>4 DEF LockUpsert, DbOK, WorldOK, ManagerOK, AutoOK
<1>4. CASE GetCurrent(w)
  <2> DEFINE j == job[w]
             s == service[j.type][j.key]
  <2>0. j \in UpsertJob
    BY <1>4 DEF GetCurrent, ApiOK, JobFits
  <2>1. j.type \in Types /\ j.key \in Keys
        /\ s.gen \in 0..MaxGen /\ s.readyAt \in Int /\ clock \in Int
    BY <2>0 DEF UpsertJob, WorldOK
  <2>2. CalculatedLast(j.type, j.key) \in Int
    BY <2>1 DEF CalculatedLast, NextResetAfter
  <2>3. ASSUME s.gen # 0, NEW p \in Answers(j.type, s.gen),
               job' = [job EXCEPT ![w] = [j EXCEPT
                         !.proxy = p, !.last = CalculatedLast(j.type, j.key)]],
               Goto(w, "write")
        PROVE  ApiOK'
    <3> DEFINE n == [j EXCEPT !.proxy = p, !.last = CalculatedLast(j.type, j.key)]
    <3>1. p \in Proxy
      BY <2>1, <2>3, AnswersTyped
    <3>2. n \in UpsertJob /\ n.proxy = p
      BY <2>0, <2>2, <3>1 DEF UpsertJob
    <3>3. JobFits("write", n) /\ "write" \in Labels
      BY <3>1, <3>2 DEF JobFits, Labels, Locked
    <3> QED BY <2>3, <3>2, <3>3, MoveTyped DEF Goto
  <2>4. ASSUME job' = [job EXCEPT ![w] = [j EXCEPT !.last = clock]], Goto(w, "getnew")
        PROVE  ApiOK'
    <3> DEFINE n == [j EXCEPT !.last = clock]
    <3>1. n \in UpsertJob
      BY <2>0, <2>1 DEF UpsertJob
    <3>2. JobFits("getnew", n) /\ "getnew" \in Labels
      BY <3>1 DEF JobFits, Labels, Locked
    <3> QED BY <2>4, <3>1, <3>2, MoveTyped DEF Goto
  <2>5. ApiOK' /\ UNCHANGED mu
    BY <1>4, <2>3, <2>4 DEF GetCurrent, Goto
  <2> QED BY <1>4, <2>5 DEF GetCurrent, DbOK, WorldOK, ManagerOK, AutoOK
<1>5. CASE GetNew(w)
  <2>1. job[w] \in UpsertJob
    BY <1>5 DEF GetNew, ApiOK, JobFits
  <2>2. job[w].type \in Types /\ job[w].key \in Keys
    BY <2>1 DEF UpsertJob
  <2>3. PICK p \in Proxy :
           /\ NewProxy(job[w].type, job[w].key, p)
           /\ job' = [job EXCEPT ![w] = [job[w] EXCEPT !.proxy = p]]
    BY <1>5 DEF GetNew
  <2> DEFINE n == [job[w] EXCEPT !.proxy = p]
  <2>4. n \in UpsertJob /\ n.proxy = p
    BY <2>1 DEF UpsertJob
  <2>5. JobFits("write", n) /\ "write" \in Labels
    BY <2>4 DEF JobFits, Labels, Locked
  <2>6. ApiOK' /\ UNCHANGED mu
    BY <1>5, <2>3, <2>4, <2>5, MoveTyped DEF GetNew, Goto
  <2>7. WorldOK'
    BY <1>5, <2>2, <2>3, RotateTyped DEF GetNew, NewProxy, WorldOK
  <2> QED BY <1>5, <2>6, <2>7 DEF GetNew, DbOK, ManagerOK, AutoOK
<1>6. CASE GetNewFails(w)
  <2>1. job[w].type \in Types /\ job[w].key \in Keys
    BY <1>6 DEF GetNewFails, ApiOK, JobFits, UpsertJob
  <2>2. WorldOK'
    BY <1>6, <2>1, RotateTyped DEF GetNewFails, NewProxyFails, WorldOK
  <2>3. ApiOK' /\ mu' = None
    BY <1>6, FinishTyped DEF GetNewFails
  <2> QED BY <1>6, <2>2, <2>3 DEF GetNewFails, DbOK, ManagerOK, AutoOK
<1>7. CASE InsertRow(w)
  <2> DEFINE j == job[w]
             new == [key |-> j.key, type |-> j.type, min |-> j.min,
                     proxy |-> j.proxy, last |-> j.last]
             n == [j EXCEPT !.id = nextId]
  <2>1. j \in UpsertJob /\ j.proxy # None
    BY <1>7 DEF InsertRow, ApiOK, JobFits
  <2>2. ASSUME nextId <= MaxId, Insert(nextId, j.key, j.type, j.min, j.proxy, j.last),
               nextId' = nextId + 1, job' = [job EXCEPT ![w] = n], Goto(w, "start")
        PROVE  ApiOK' /\ DbOK' /\ UNCHANGED mu
    <3>1. nextId \in Ids /\ nextId' \in 1..(MaxId + 1)
      BY <2>2, BoundsAssumption DEF DbOK, Ids
    <3>2. new \in Row
      BY <2>1 DEF UpsertJob, Row
    <3>3. rows' \in [Ids -> Row \cup {None}]
      BY <2>2, <3>1, <3>2 DEF Insert, DbOK
    <3>4. n \in UpsertJob /\ n.proxy = j.proxy /\ n.id = nextId
      BY <2>1, <3>1 DEF UpsertJob
    <3>5. n.id # 0
      BY <3>1, <3>4 DEF Ids
    <3>6. JobFits("start", n) /\ "start" \in Labels
      BY <2>1, <3>4, <3>5 DEF JobFits, Labels, Locked
    <3>7. ApiOK'
      BY <2>2, <3>4, <3>6, MoveTyped DEF Goto
    <3>8. acked' = acked
      BY <1>7 DEF InsertRow
    <3> QED BY <2>2, <3>1, <3>3, <3>7, <3>8 DEF DbOK, Goto
  <2>3. ASSUME Finish(w), UNCHANGED dbVars
        PROVE  ApiOK' /\ DbOK' /\ mu' = None
    BY <1>7, <2>3, FinishTyped DEF InsertRow, DbOK
  <2>4. ApiOK' /\ DbOK' /\ mu' \in {mu, None}
    BY <1>7, <2>2, <2>3 DEF InsertRow, FreshId
  <2> QED BY <1>7, <2>4 DEF InsertRow, WorldOK, ManagerOK, AutoOK
<1>8. CASE StartInstance(w)
  <2> DEFINE j == job[w]
  <2>1. j \in UpsertJob /\ j.proxy # None /\ j.id # 0
    BY <1>8 DEF StartInstance, ApiOK, JobFits
  <2>2. [type |-> j.type, upstream |-> j.proxy] \in Instance
    BY <2>1 DEF UpsertJob, Instance
  <2>3. instances' \in [Ids -> Instance \cup {None}]
    BY <1>8, <2>2 DEF StartInstance, ManagerOK
  <2>4. JobFits("rollback", j) /\ "rollback" \in Labels
    BY <2>1 DEF JobFits, Labels, Locked
  <2>5. ApiOK' /\ mu' \in {mu, None}
    BY <1>8, <2>4, FinishTyped, AdvanceTyped DEF StartInstance, Goto
  <2> QED BY <1>8, <2>3, <2>5 DEF StartInstance, DbOK, WorldOK, ManagerOK, AutoOK
<1>9. CASE Rollback(w)
  <2>1. rows' \in [Ids -> Row \cup {None}]
    BY <1>9 DEF Rollback, DeleteRow, DbOK
  <2>2. ApiOK' /\ mu' = None
    BY <1>9, FinishTyped DEF Rollback
  <2> QED BY <1>9, <2>1, <2>2 DEF Rollback, DbOK, WorldOK, ManagerOK, AutoOK
<1>10. CASE UpdateExisting(w)
  <2> DEFINE j == job[w]
             new == [rows[j.id] EXCEPT !.min = j.min, !.proxy = j.proxy, !.last = j.last]
  <2>1. j \in UpsertJob /\ j.proxy # None /\ j.id # 0
    BY <1>10 DEF UpdateExisting, ApiOK, JobFits
  <2>2. j.id \in Ids /\ (rows[j.id] # None => new \in Row)
    BY <2>1 DEF UpsertJob, DbOK, Row
  <2>3. rows' \in [Ids -> Row \cup {None}]
    BY <1>10, <2>2 DEF UpdateExisting, UpdateRow, DbOK
  <2>4. JobFits("upstream", j) /\ "upstream" \in Labels
    BY <2>1 DEF JobFits, Labels, Locked
  <2>5. ApiOK' /\ mu' \in {mu, None}
    BY <1>10, <2>4, FinishTyped, AdvanceTyped DEF UpdateExisting, Goto
  <2> QED BY <1>10, <2>3, <2>5 DEF UpdateExisting, DbOK, WorldOK, ManagerOK, AutoOK
<1>11. CASE SwitchUpstream(w)
  <2>1. job[w] \in UpsertJob /\ job[w].proxy # None /\ job[w].id # 0
    BY <1>11 DEF SwitchUpstream, ApiOK, JobFits
  <2>2. job[w].id \in Ids /\ job[w].proxy \in Proxy
    BY <2>1 DEF UpsertJob
  <2>3. instances' \in [Ids -> Instance \cup {None}]
    BY <1>11, <2>2, UpstreamTyped DEF SwitchUpstream
  <2>4. ApiOK' /\ mu' = None
    BY <1>11, FinishTyped DEF SwitchUpstream
  <2> QED BY <1>11, <2>3, <2>4 DEF SwitchUpstream, DbOK, WorldOK, ManagerOK, AutoOK
<1>12. CASE LockDelete(w)
  <2>1. JobFits("delrow", job[w]) /\ "delrow" \in Labels
    BY <1>12 DEF LockDelete, ApiOK, JobFits, Labels, Locked
  <2>2. ApiOK'
    BY <1>12, <2>1, AdvanceTyped DEF LockDelete
  <2>3. instances' \in [Ids -> Instance \cup {None}]
    BY <1>12 DEF LockDelete, ManagerOK
  <2> QED BY <1>12, <2>2, <2>3 DEF LockDelete, DbOK, WorldOK, ManagerOK, AutoOK
<1>13. CASE DeleteTheRow(w)
  <2>1. job[w].id \in Ids
    BY <1>13 DEF DeleteTheRow, ApiOK, JobFits, DeleteJob
  <2>2. rows' \in [Ids -> Row \cup {None}] /\ acked' \subseteq Ids
    BY <1>13, <2>1 DEF DeleteTheRow, DeleteRow, DbOK
  <2>3. ApiOK' /\ mu' = None
    BY <1>13, FinishTyped DEF DeleteTheRow
  <2> QED BY <1>13, <2>2, <2>3 DEF DeleteTheRow, DbOK, WorldOK, ManagerOK, AutoOK
<1> QED
  BY <1>1, <1>2, <1>3, <1>4, <1>5, <1>6, <1>7, <1>8, <1>9, <1>10, <1>11, <1>12, <1>13
  DEF Upsert, Delete

\* Each step of the auto-reset loop keeps the types.
LEMMA ResetTyped ==
    ASSUME TypeOK, AutoReset
    PROVE  TypeOK'
<1> USE DEF TypeOK, vars, dbVars, apiVars
<1>1. CASE AutoTick
  <2>1. todo' \subseteq DueRow
    BY <1>1, NoneIsNothing DEF AutoTick, DbOK, DueRow, Row
  <2> QED BY <1>1, <2>1 DEF AutoTick, DbOK, WorldOK, ManagerOK, ApiOK, AutoOK
<1>2. ASSUME NEW r \in todo, AutoGetNew(r) PROVE TypeOK'
  <2>1. PICK p \in Proxy : NewProxy(r.type, r.key, p) /\ reset' = [row |-> r, proxy |-> p]
    BY <1>2 DEF AutoGetNew
  <2>2. r \in DueRow
    BY DEF AutoOK
  <2>3. r.type \in Types /\ r.key \in Keys
    BY <2>2 DEF DueRow
  <2>4. WorldOK'
    BY <1>2, <2>1, <2>3, RotateTyped DEF AutoGetNew, NewProxy, WorldOK
  <2>5. reset' \in [row : DueRow, proxy : Proxy]
    BY <2>1, <2>2
  <2> QED BY <1>2, <2>4, <2>5 DEF AutoGetNew, DbOK, ManagerOK, ApiOK, AutoOK
<1>3. ASSUME NEW r \in todo, AutoGetNewFails(r) PROVE TypeOK'
  <2>1. r.type \in Types /\ r.key \in Keys
    BY DEF AutoOK, DueRow
  <2>2. WorldOK'
    BY <1>3, <2>1, RotateTyped DEF AutoGetNewFails, NewProxyFails, WorldOK
  <2> QED
    BY <1>3, <2>2 DEF AutoGetNewFails, AutoNext, DbOK, ManagerOK, ApiOK, AutoOK
<1>4. CASE AutoWrite
  <2> DEFINE i == reset.row.id
             new == [rows[i] EXCEPT !.proxy = reset.proxy, !.last = checkedAt]
  <2>1. reset \in [row : DueRow, proxy : Proxy] /\ checkedAt \in Int
    BY <1>4 DEF AutoWrite, AutoOK
  <2>2. i \in Ids /\ reset.proxy \in Proxy
    BY <2>1 DEF DueRow
  <2>3. rows[i] # None => new \in Row
    BY <2>1, <2>2 DEF DbOK, Row
  <2>4. rows' \in [Ids -> Row \cup {None}]
    BY <1>4, <2>2, <2>3 DEF AutoWrite, UpdateRow, DbOK
  <2> QED BY <1>4, <2>4 DEF AutoWrite, AutoNext, DbOK, WorldOK, ManagerOK, ApiOK, AutoOK
<1>5. CASE AutoFind
  BY <1>5 DEF AutoFind, AutoNext, DbOK, WorldOK, ManagerOK, ApiOK, AutoOK
<1>6. CASE AutoApply
  <2>1. reset.row.id \in Ids /\ reset.proxy \in Proxy
    BY <1>6 DEF AutoApply, AutoOK, DueRow
  <2>2. instances' \in [Ids -> Instance \cup {None}]
    BY <1>6, <2>1, UpstreamTyped DEF AutoApply
  <2> QED BY <1>6, <2>2 DEF AutoApply, AutoNext, DbOK, WorldOK, ManagerOK, ApiOK, AutoOK
<1>7. CASE AutoStop
  BY <1>7 DEF AutoStop, DbOK, WorldOK, ManagerOK, ApiOK, AutoOK
<1> QED
  BY <1>1, <1>2, <1>3, <1>4, <1>5, <1>6, <1>7 DEF AutoReset

\* main's steps, and the clock's, keep the types.
LEMMA MainTyped ==
    ASSUME TypeOK, Main \/ Tick
    PROVE  TypeOK'
<1> USE DEF TypeOK, vars, dbVars, apiVars, autoVars
<1>1. CASE Boot
  <2>1. \A i \in Ids : rows[i] # None =>
           [type |-> rows[i].type, upstream |-> rows[i].proxy] \in Instance
    BY DEF DbOK, Row, Instance
  <2>2. instances' \in [Ids -> Instance \cup {None}]
    BY <1>1, <2>1 DEF Boot
  <2>3. apc' = "idle" /\ UNCHANGED <<todo, checkedAt, reset>>
    BY <1>1 DEF Boot
  <2> QED BY <1>1, <2>2 DEF Boot, DbOK, WorldOK, ManagerOK, ApiOK, AutoOK
<1>2. CASE Signal \/ ShutdownApi
  BY <1>2 DEF Signal, ShutdownApi, DbOK, WorldOK, ManagerOK, ApiOK, AutoOK
<1>3. CASE StopAll
  BY <1>3 DEF StopAll, DbOK, WorldOK, ManagerOK, ApiOK, AutoOK
<1>4. CASE Exit \/ Crash
  <2>1. Die
    BY <1>4 DEF Exit, Crash
  <2>2. ApiOK'
    BY <2>1 DEF Die, ApiOK, JobFits, Labels
  <2> QED BY <2>1, <2>2 DEF Die, DbOK, WorldOK, ManagerOK, AutoOK
<1>5. CASE Tick
  BY <1>5, BoundsAssumption DEF Tick, DbOK, WorldOK, ManagerOK, ApiOK, AutoOK
<1> QED BY <1>1, <1>2, <1>3, <1>4, <1>5 DEF Main

\* Every variable of the server keeps its type, whatever fails.
THEOREM TypeCorrect == Spec => []TypeOK
<1>1. TypeOK /\ [Next]_vars => TypeOK'
  <2>1. CASE UNCHANGED vars
    BY <2>1 DEF vars, TypeOK, DbOK, WorldOK, ManagerOK, ApiOK, AutoOK
  <2> QED BY <2>1, RequestTyped, ResetTyped, MainTyped DEF Next
<1> QED BY InitTyped, <1>1, PTL DEF Spec

-----------------------------------------------------------------------------
(* The lock.                                                               *)

LEMMA LockInit == Init => LockInv
BY NoneIsNothing DEF Init, LockInv, Locked

\* A worker that leaves the lock, and one that stays in it.
LEMMA LockReleased ==
    ASSUME TypeOK, LockInv, NEW w \in Workers, mu = w, Finish(w), UNCHANGED phase
    PROVE  LockInv'
BY NoneIsNothing DEF TypeOK, ApiOK, LockInv, Finish, Locked

LEMMA LockKept ==
    ASSUME TypeOK, LockInv, NEW w \in Workers, NEW l \in Locked, mu = w,
           Goto(w, l), UNCHANGED phase
    PROVE  LockInv'
BY NoneIsNothing DEF TypeOK, ApiOK, LockInv, Goto, Locked

LEMMA LockStep ==
    ASSUME TypeOK, LockInv, [Next]_vars
    PROVE  LockInv'
<1> USE NoneIsNothing DEF vars, dbVars, apiVars, autoVars
<1>1. ASSUME NEW w \in Workers, ReceiveUpsert(w) \/ ReceiveDelete(w) PROVE LockInv'
  BY <1>1 DEF ReceiveUpsert, ReceiveDelete, Serving, TypeOK, ApiOK, LockInv, Locked
<1>2. ASSUME NEW w \in Workers, LockUpsert(w) PROVE LockInv'
  <2>1. CASE mu' = w /\ pc' = [pc EXCEPT ![w] = "getcur"]
    BY <1>2, <2>1 DEF LockUpsert, LockFree, TypeOK, ApiOK, LockInv, Locked
  <2>2. CASE Finish(w)
    BY <1>2, <2>2 DEF LockUpsert, LockFree, Finish, TypeOK, ApiOK, LockInv, Locked
  <2> QED BY <1>2, <2>1, <2>2 DEF LockUpsert
<1>3. ASSUME NEW w \in Workers, LockDelete(w) PROVE LockInv'
  BY <1>3 DEF LockDelete, LockFree, TypeOK, ApiOK, LockInv, Locked
<1>4. ASSUME NEW w \in Workers,
             \/ GetCurrent(w) \/ GetNew(w) \/ GetNewFails(w) \/ InsertRow(w)
             \/ StartInstance(w) \/ Rollback(w) \/ UpdateExisting(w)
             \/ SwitchUpstream(w) \/ DeleteTheRow(w)
      PROVE LockInv'
  <2>1. mu = w
    BY <1>4 DEF LockInv, Locked, GetCurrent, GetNew, GetNewFails, InsertRow,
       StartInstance, Rollback, UpdateExisting, SwitchUpstream, DeleteTheRow
  <2>2. UNCHANGED phase
    BY <1>4 DEF GetCurrent, GetNew, GetNewFails, InsertRow,
       StartInstance, Rollback, UpdateExisting, SwitchUpstream, DeleteTheRow
  <2>3. Finish(w) \/ \E l \in Locked : Goto(w, l)
    BY <1>4 DEF Locked, GetCurrent, GetNew, GetNewFails, InsertRow,
       StartInstance, Rollback, UpdateExisting, SwitchUpstream, DeleteTheRow
  <2> QED BY <2>1, <2>2, <2>3, LockReleased, LockKept
<1>5. ASSUME AutoReset PROVE LockInv'
  <2>1. UNCHANGED <<pc, mu, phase>>
    BY <1>5 DEF AutoReset, AutoTick, AutoGetNew, AutoGetNewFails, AutoWrite,
       AutoFind, AutoApply, AutoStop
  <2> QED BY <2>1 DEF LockInv
<1>6. CASE Boot \/ Signal \/ StopAll \/ ShutdownApi \/ Tick
  BY <1>6 DEF Boot, Signal, StopAll, ShutdownApi, Tick, LockInv
<1>7. CASE Exit \/ Crash
  BY <1>7 DEF Exit, Crash, Die, LockInv, Locked
<1>8. CASE UNCHANGED vars
  BY <1>8 DEF LockInv
<1> QED
  BY <1>1, <1>2, <1>3, <1>4, <1>5, <1>6, <1>7, <1>8 DEF Next, Upsert, Delete, Main

-----------------------------------------------------------------------------
(* The table and the instances.                                            *)

TableInv == FreshInv /\ UniqueKeys /\ InstanceHasRow /\ AckedGone

\* Steps that neither add nor remove a row or an instance, nor change what a
\* row is about.
RowsKept == \A i \in Ids :
    /\ rows'[i] = None <=> rows[i] = None
    /\ rows[i] # None => rows'[i].key = rows[i].key /\ rows'[i].type = rows[i].type
InstancesKept == \A i \in Ids :
    /\ instances'[i] = None <=> instances[i] = None
    /\ instances[i] # None => instances'[i].type = instances[i].type

LEMMA UpdateKeepsRows ==
    ASSUME DbOK, NEW id \in Ids, NEW new, UpdateRow(id, new),
           rows[id] # None =>
               new \in Row /\ new.key = rows[id].key /\ new.type = rows[id].type
    PROVE  RowsKept
BY NoneIsNothing DEF DbOK, UpdateRow, RowsKept

LEMMA UpdateKeepsInstances ==
    ASSUME ManagerOK, NEW id \in Ids, NEW p \in Proxy, UpdateUpstream(id, p)
    PROVE  InstancesKept
<1>1. instances[id] # None =>
         /\ [instances[id] EXCEPT !.upstream = p] \in Instance
         /\ [instances[id] EXCEPT !.upstream = p].type = instances[id].type
  BY DEF ManagerOK, Instance
<1> QED BY <1>1, NoneIsNothing DEF ManagerOK, UpdateUpstream, InstancesKept

LEMMA KeptTable ==
    ASSUME TypeOK, TableInv, RowsKept, InstancesKept, UNCHANGED <<nextId, acked>>
    PROVE  TableInv'
<1>1. FreshInv'
  BY DEF TableInv, FreshInv, RowsKept
<1>2. UniqueKeys'
  BY DEF TableInv, UniqueKeys, RowsKept
<1>3. InstanceHasRow'
  BY DEF TableInv, InstanceHasRow, RowsKept, InstancesKept
<1>4. AckedGone'
  BY DEF TypeOK, DbOK, TableInv, AckedGone, RowsKept, InstancesKept
<1> QED BY <1>1, <1>2, <1>3, <1>4 DEF TableInv

LEMMA KeptHolder ==
    ASSUME TypeOK, HolderInv, RowsKept, InstancesKept, UNCHANGED apiVars
    PROVE  HolderInv'
<1> SUFFICES ASSUME NEW w \in Workers
    PROVE  /\ pc[w] \in {"getcur", "getnew", "write"} /\ job[w].id = 0 =>
                 \A i \in Ids : rows'[i] # None => rows'[i].key # job[w].key
           /\ pc[w] = "start" =>
                 rows'[job[w].id] # None /\ rows'[job[w].id].type = job[w].type
           /\ pc[w] \in {"start", "rollback", "delrow"} => instances'[job[w].id] = None
  BY DEF apiVars, HolderInv
<1>1. pc[w] \in {"start", "rollback", "delrow"} => job[w].id \in Ids
  <2>1. pc[w] \in {"start", "rollback"} => job[w] \in UpsertJob /\ job[w].id # 0
    BY DEF TypeOK, ApiOK, JobFits
  <2>2. pc[w] = "delrow" => job[w] \in DeleteJob
    BY DEF TypeOK, ApiOK, JobFits
  <2> QED BY <2>1, <2>2 DEF UpsertJob, DeleteJob
<1> QED BY <1>1 DEF HolderInv, RowsKept, InstancesKept

\* A request's move, inside the lock, to label l: HolderInv is about it alone,
\* since nobody else is inside.
LEMMA HolderMoves ==
    ASSUME TypeOK, LockInv, NEW w \in Workers, mu = w \/ mu = None, NEW l,
           pc' = [pc EXCEPT ![w] = l],
           /\ l \in {"getcur", "getnew", "write"} /\ job'[w].id = 0 =>
                 \A i \in Ids : rows'[i] # None => rows'[i].key # job'[w].key
           /\ l = "start" =>
                 rows'[job'[w].id] # None /\ rows'[job'[w].id].type = job'[w].type
           /\ l \in {"start", "rollback", "delrow"} => instances'[job'[w].id] = None
    PROVE  HolderInv'
<1>1. pc'[w] = l
  BY DEF TypeOK, ApiOK
<1>2. \A v \in Workers \ {w} : pc'[v] \notin Locked
  BY NoneIsNothing DEF TypeOK, ApiOK, LockInv
<1> QED BY <1>1, <1>2 DEF HolderInv, Locked

\* A request that gives up or is done.
LEMMA HolderFinishes ==
    ASSUME TypeOK, LockInv, NEW w \in Workers, mu = w \/ mu = None, Finish(w)
    PROVE  HolderInv'
<1>1. pc' = [pc EXCEPT ![w] = "idle"]
  BY DEF Finish
<1> QED BY <1>1, HolderMoves

LEMMA RequestSafe ==
    ASSUME TypeOK, LockInv, HolderInv, TableInv, NEW w \in Workers,
           ReceiveUpsert(w) \/ ReceiveDelete(w) \/ Upsert(w) \/ Delete(w)
    PROVE  HolderInv' /\ TableInv'
<1> USE NoneIsNothing DEF dbVars
<1>0. /\ UNCHANGED rows => RowsKept
      /\ UNCHANGED instances => InstancesKept
  BY DEF RowsKept, InstancesKept
<1>1. CASE ReceiveUpsert(w) \/ ReceiveDelete(w)
  <2>1. UNCHANGED <<rows, nextId, instances, acked>>
    BY <1>1 DEF ReceiveUpsert, ReceiveDelete
  <2>2. TableInv'
    BY <2>1, <1>0, KeptTable
  <2>3. pc'[w] \in {"upsert", "delete"}
        /\ \A v \in Workers \ {w} : pc'[v] = pc[v] /\ job'[v] = job[v]
    BY <1>1 DEF ReceiveUpsert, ReceiveDelete, TypeOK, ApiOK
  <2> QED BY <2>1, <2>2, <2>3 DEF HolderInv
<1>2. CASE LockUpsert(w)
  <2>1. UNCHANGED <<rows, nextId, instances, acked>> /\ mu = None
    BY <1>2 DEF LockUpsert, LockFree
  <2>2. TableInv'
    BY <2>1, <1>0, KeptTable
  <2>3. job[w] \in UpsertJob
    BY <1>2 DEF LockUpsert, TypeOK, ApiOK, JobFits
  <2>4. ASSUME NEW i \in Ids, job' = [job EXCEPT ![w].id = i],
               pc' = [pc EXCEPT ![w] = "getcur"]
        PROVE  HolderInv'
    <3>1. job'[w].id = i
      BY <2>3, <2>4 DEF TypeOK, ApiOK, UpsertJob
    <3>2. job'[w].id # 0
      BY <3>1 DEF Ids
    <3> QED BY <2>1, <2>4, <3>2, HolderMoves
  <2>5. ASSUME \A i \in Ids : rows[i] # None => rows[i].key # job[w].key,
               UNCHANGED job, pc' = [pc EXCEPT ![w] = "getcur"]
        PROVE  HolderInv'
    BY <2>1, <2>5, HolderMoves
  <2>6. CASE Finish(w)
    BY <2>1, <2>2, <2>6, HolderFinishes
  <2> QED BY <1>2, <2>2, <2>4, <2>5, <2>6 DEF LockUpsert
<1>3. CASE GetCurrent(w) \/ GetNew(w)
  <2>1. UNCHANGED <<rows, nextId, instances, acked>>
    BY <1>3 DEF GetCurrent, GetNew
  <2>2. TableInv'
    BY <2>1, <1>0, KeptTable
  <2>3. pc[w] \in {"getcur", "getnew"} /\ mu = w
    BY <1>3 DEF GetCurrent, GetNew, LockInv, Locked
  <2>4. job[w] \in UpsertJob
    BY <2>3 DEF TypeOK, ApiOK, JobFits
  <2>5. PICK p, t : job' = [job EXCEPT ![w] = [job[w] EXCEPT !.proxy = p, !.last = t]]
    <3>1. CASE GetNew(w)
      <4>1. PICK p \in Proxy : job' = [job EXCEPT ![w] = [job[w] EXCEPT !.proxy = p]]
        BY <3>1 DEF GetNew
      <4>2. [job[w] EXCEPT !.proxy = p] = [job[w] EXCEPT !.proxy = p, !.last = job[w].last]
        BY <2>4 DEF UpsertJob
      <4> QED BY <4>1, <4>2
    <3>2. CASE GetCurrent(w)
      <4>1. [job[w] EXCEPT !.last = clock]
            = [job[w] EXCEPT !.proxy = job[w].proxy, !.last = clock]
        BY <2>4 DEF UpsertJob
      <4>2. \/ \E p : job' = [job EXCEPT ![w] = [job[w] EXCEPT !.proxy = p,
                           !.last = CalculatedLast(job[w].type, job[w].key)]]
            \/ job' = [job EXCEPT ![w] = [job[w] EXCEPT !.last = clock]]
        BY <3>2 DEF GetCurrent
      <4> QED BY <4>1, <4>2
    <3> QED BY <1>3, <3>1, <3>2
  <2>6. job'[w].id = job[w].id /\ job'[w].key = job[w].key
    BY <2>4, <2>5 DEF TypeOK, ApiOK, UpsertJob
  <2>7. PICK l \in {"write", "getnew"} : pc' = [pc EXCEPT ![w] = l]
    BY <1>3 DEF GetCurrent, GetNew, Goto
  <2>8. job[w].id = 0 => \A i \in Ids : rows[i] # None => rows[i].key # job[w].key
    BY <2>3 DEF HolderInv
  <2>9. HolderInv'
    BY <2>1, <2>3, <2>6, <2>7, <2>8, HolderMoves
  <2> QED BY <2>2, <2>9
<1>4. CASE GetNewFails(w)
  <2>1. UNCHANGED <<rows, nextId, instances, acked>> /\ mu = w
    BY <1>4 DEF GetNewFails, LockInv, Locked
  <2> QED BY <1>4, <2>1, <1>0, KeptTable, HolderFinishes DEF GetNewFails
<1>5. CASE InsertRow(w)
  <2> DEFINE j == job[w]
             new == [key |-> j.key, type |-> j.type, min |-> j.min,
                     proxy |-> j.proxy, last |-> j.last]
  <2>1. UNCHANGED <<instances, acked>> /\ mu = w
    BY <1>5 DEF InsertRow, LockInv, Locked
  <2>2. CASE Finish(w) /\ UNCHANGED dbVars
    BY <2>1, <2>2, <1>0, KeptTable, HolderFinishes
  <2>3. CASE /\ nextId <= MaxId
             /\ rows' = [rows EXCEPT ![nextId] = new]
             /\ nextId' = nextId + 1
             /\ job' = [job EXCEPT ![w] = [j EXCEPT !.id = nextId]]
             /\ Goto(w, "start")
    <3>1. nextId \in Ids /\ nextId \in Nat
      BY <2>3, BoundsAssumption DEF TypeOK, DbOK, Ids
    <3>2. j \in UpsertJob /\ j.proxy # None
      BY <1>5 DEF InsertRow, TypeOK, ApiOK, JobFits
    <3>3. new \in Row
      BY <3>2 DEF UpsertJob, Row
    <3>4. rows[nextId] = None
      BY <3>1 DEF TableInv, FreshInv
    <3>5. instances[nextId] = None
      BY <3>1, <3>4 DEF TableInv, InstanceHasRow
    <3>6. /\ rows'[nextId] = new /\ new # None
          /\ \A i \in Ids \ {nextId} : rows'[i] = rows[i]
      BY <2>3, <3>1, <3>3 DEF TypeOK, DbOK
    <3>7. \A i \in Ids : rows[i] # None => rows[i].key # j.key
      BY <1>5 DEF InsertRow, HolderInv
    <3>8. FreshInv'
      BY <2>3, <3>1, <3>6 DEF TableInv, FreshInv, Ids
    <3>9. UniqueKeys'
      BY <3>6, <3>7 DEF TableInv, UniqueKeys
    <3>10. InstanceHasRow'
      BY <2>1, <3>5, <3>6 DEF TableInv, InstanceHasRow
    <3>11. AckedGone'
      BY <2>1, <2>3, <3>1, <3>6 DEF TypeOK, DbOK, TableInv, AckedGone, Ids
    <3>12. job'[w].id = nextId /\ job'[w].type = j.type
      BY <2>3, <3>2 DEF TypeOK, ApiOK, UpsertJob
    <3>13. rows'[nextId].type = j.type
      BY <3>6
    <3>14. HolderInv'
      BY <2>1, <2>3, <3>5, <3>6, <3>12, <3>13, HolderMoves DEF Goto
    <3> QED BY <3>8, <3>9, <3>10, <3>11, <3>14 DEF TableInv
  <2> QED BY <1>5, <2>2, <2>3 DEF InsertRow, FreshId, Insert
<1>6. CASE StartInstance(w)
  <2> DEFINE j == job[w]
  <2>1. UNCHANGED <<rows, nextId, acked>> /\ mu = w
    BY <1>6 DEF StartInstance, LockInv, Locked
  <2>2. /\ j.id \in Ids /\ rows[j.id] # None /\ rows[j.id].type = j.type
        /\ instances[j.id] = None
    BY <1>6 DEF StartInstance, TypeOK, ApiOK, JobFits, UpsertJob, HolderInv
  <2>3. CASE Goto(w, "rollback") /\ UNCHANGED <<job, instances>>
    BY <2>1, <2>2, <2>3, <1>0, KeptTable, HolderMoves DEF Goto
  <2>4. CASE /\ Finish(w)
             /\ instances' = [instances EXCEPT ![j.id] =
                                [type |-> j.type, upstream |-> j.proxy]]
    <3>1. /\ instances'[j.id].type = j.type
          /\ \A i \in Ids \ {j.id} : instances'[i] = instances[i]
      BY <2>2, <2>4 DEF TypeOK, ManagerOK
    <3>2. InstanceHasRow'
      BY <2>1, <2>2, <3>1 DEF TableInv, InstanceHasRow
    <3>3. AckedGone'
      BY <2>1, <2>2, <3>1 DEF TypeOK, DbOK, TableInv, AckedGone
    <3>4. FreshInv' /\ UniqueKeys'
      BY <2>1 DEF TableInv, FreshInv, UniqueKeys
    <3> QED BY <2>1, <2>4, <3>2, <3>3, <3>4, HolderFinishes DEF TableInv
  <2> QED BY <1>6, <2>3, <2>4 DEF StartInstance
<1>7. CASE Rollback(w) \/ DeleteTheRow(w)
  <2> DEFINE d == job[w].id
  <2>1. UNCHANGED <<nextId, instances>> /\ mu = w /\ Finish(w)
    BY <1>7 DEF Rollback, DeleteTheRow, LockInv, Locked
  <2>2. d \in Ids /\ instances[d] = None
    <3>1. CASE Rollback(w)
      BY <3>1 DEF Rollback, TypeOK, ApiOK, JobFits, UpsertJob, HolderInv
    <3>2. CASE DeleteTheRow(w)
      BY <3>2 DEF DeleteTheRow, TypeOK, ApiOK, JobFits, DeleteJob, HolderInv
    <3> QED BY <1>7, <3>1, <3>2
  <2>3. CASE UNCHANGED <<rows, acked>>
    BY <2>1, <2>3, <1>0, KeptTable, HolderFinishes
  <2>4. CASE DeleteRow(d) /\ acked' \in {acked, acked \cup {d}}
             /\ (acked' = acked \/ d < nextId)
    <3>1. rows'[d] = None /\ \A i \in Ids \ {d} : rows'[i] = rows[i]
      BY <2>2, <2>4 DEF DeleteRow, TypeOK, DbOK
    <3>2. FreshInv' /\ UniqueKeys'
      BY <2>1, <3>1 DEF TableInv, FreshInv, UniqueKeys
    <3>3. InstanceHasRow'
      BY <2>1, <2>2, <3>1 DEF TableInv, InstanceHasRow
    <3>4. AckedGone'
      BY <2>1, <2>2, <2>4, <3>1 DEF TypeOK, DbOK, TableInv, AckedGone
    <3> QED BY <2>1, <3>2, <3>3, <3>4, HolderFinishes DEF TableInv
  <2> QED BY <1>7, <2>3, <2>4 DEF Rollback, DeleteTheRow
<1>8. CASE UpdateExisting(w)
  <2> DEFINE j == job[w]
             new == [rows[j.id] EXCEPT !.min = j.min, !.proxy = j.proxy, !.last = j.last]
  <2>1. UNCHANGED <<nextId, instances, acked>> /\ mu = w
    BY <1>8 DEF UpdateExisting, LockInv, Locked
  <2>2. j \in UpsertJob /\ j.proxy # None /\ j.id \in Ids
    BY <1>8 DEF UpdateExisting, TypeOK, ApiOK, JobFits, UpsertJob
  <2>3. rows[j.id] # None =>
           new \in Row /\ new.key = rows[j.id].key /\ new.type = rows[j.id].type
    BY <2>2 DEF UpsertJob, TypeOK, DbOK, Row
  <2>4. RowsKept
    BY <1>8, <1>0, <2>2, <2>3, UpdateKeepsRows DEF UpdateExisting, TypeOK
  <2>5. HolderInv'
    BY <1>8, <2>1, HolderMoves, HolderFinishes DEF UpdateExisting, Goto
  <2> QED BY <2>1, <2>4, <2>5, <1>0, KeptTable
<1>9. CASE SwitchUpstream(w)
  <2>1. UNCHANGED <<rows, nextId, acked>> /\ mu = w /\ Finish(w)
    BY <1>9 DEF SwitchUpstream, LockInv, Locked
  <2>2. job[w].id \in Ids /\ job[w].proxy \in Proxy
    BY <1>9 DEF SwitchUpstream, TypeOK, ApiOK, JobFits, UpsertJob
  <2>3. InstancesKept
    BY <1>9, <2>2, UpdateKeepsInstances DEF SwitchUpstream, TypeOK
  <2> QED BY <2>1, <2>3, <1>0, KeptTable, HolderFinishes
<1>10. CASE LockDelete(w)
  <2> DEFINE d == job[w].id
  <2>1. UNCHANGED <<rows, nextId, job, acked>> /\ mu = None
    BY <1>10 DEF LockDelete, LockFree
  <2>2. d \in Ids
    BY <1>10 DEF LockDelete, TypeOK, ApiOK, JobFits, DeleteJob
  <2>3. instances'[d] = None /\ \A i \in Ids \ {d} : instances'[i] = instances[i]
    BY <1>10, <2>2 DEF LockDelete, TypeOK, ManagerOK
  <2>4. HolderInv'
    BY <1>10, <2>1, <2>3, HolderMoves DEF LockDelete
  <2>5. InstanceHasRow'
    BY <2>1, <2>3 DEF TableInv, InstanceHasRow
  <2>6. AckedGone'
    BY <2>1, <2>3 DEF TypeOK, DbOK, TableInv, AckedGone
  <2> QED BY <2>1, <2>4, <2>5, <2>6 DEF TableInv, FreshInv, UniqueKeys
<1> QED
  BY <1>1, <1>2, <1>3, <1>4, <1>5, <1>6, <1>7, <1>8, <1>9, <1>10 DEF Upsert, Delete

\* The loop, main and the clock.
LEMMA OthersSafe ==
    ASSUME TypeOK, LockInv, HolderInv, TableInv, AutoReset \/ Main \/ Tick
    PROVE  HolderInv' /\ TableInv'
<1> USE NoneIsNothing DEF dbVars, apiVars, autoVars
<1>0. /\ UNCHANGED rows => RowsKept
      /\ UNCHANGED instances => InstancesKept
  BY DEF RowsKept, InstancesKept
<1>1. CASE AutoWrite
  <2> DEFINE i == reset.row.id
             new == [rows[i] EXCEPT !.proxy = reset.proxy, !.last = checkedAt]
  <2>1. i \in Ids /\ reset.proxy \in Proxy /\ checkedAt \in Int
    BY <1>1 DEF AutoWrite, TypeOK, AutoOK, DueRow
  <2>2. rows[i] # None =>
           new \in Row /\ new.key = rows[i].key /\ new.type = rows[i].type
    BY <2>1 DEF TypeOK, DbOK, Row
  <2>3. RowsKept
    BY <1>1, <1>0, <2>1, <2>2, UpdateKeepsRows DEF AutoWrite, TypeOK
  <2>4. UNCHANGED <<nextId, instances, pc, job, acked>>
    BY <1>1 DEF AutoWrite
  <2> QED BY <2>3, <2>4, <1>0, KeptTable, KeptHolder
<1>2. CASE AutoApply
  <2>1. reset.row.id \in Ids /\ reset.proxy \in Proxy
    BY <1>2 DEF AutoApply, TypeOK, AutoOK, DueRow
  <2>2. InstancesKept
    BY <1>2, <2>1, UpdateKeepsInstances DEF AutoApply, TypeOK
  <2>3. UNCHANGED <<rows, nextId, pc, job, acked>>
    BY <1>2 DEF AutoApply
  <2> QED BY <2>2, <2>3, <1>0, KeptTable, KeptHolder
<1>3. ASSUME \/ AutoTick \/ AutoFind \/ AutoStop \/ Signal \/ ShutdownApi \/ Tick
             \/ \E r \in todo : AutoGetNew(r) \/ AutoGetNewFails(r)
      PROVE  HolderInv' /\ TableInv'
  <2>1. UNCHANGED <<rows, nextId, instances, pc, job, acked>>
    BY <1>3 DEF AutoTick, AutoFind, AutoStop, Signal, ShutdownApi, Tick,
                AutoGetNew, AutoGetNewFails
  <2> QED BY <2>1, <1>0, KeptTable, KeptHolder
<1>4. CASE Boot
  <2>1. UNCHANGED <<rows, nextId, pc, job, acked>> /\ phase = "down"
    BY <1>4 DEF Boot
  <2>2. \A i \in Ids : instances'[i] # None =>
           rows[i] # None /\ instances'[i].type = rows[i].type
    BY <1>4 DEF Boot
  <2>3. InstanceHasRow' /\ AckedGone'
    BY <2>1, <2>2 DEF TypeOK, DbOK, TableInv, InstanceHasRow, AckedGone
  <2>4. HolderInv'
    BY <2>1 DEF LockInv, HolderInv
  <2> QED BY <2>1, <2>3, <2>4 DEF TableInv, FreshInv, UniqueKeys
<1>5. CASE StopAll \/ Exit \/ Crash
  <2>1. UNCHANGED <<rows, nextId, acked>> /\ \A i \in Ids : instances'[i] = None
    BY <1>5 DEF StopAll, Exit, Crash, Die
  <2>2. InstanceHasRow' /\ AckedGone'
    BY <2>1 DEF TypeOK, DbOK, TableInv, InstanceHasRow, AckedGone
  <2>3. CASE StopAll
    <3>1. UNCHANGED <<pc, job>> /\ mu = None
      BY <2>3 DEF StopAll, LockFree
    <3>2. \A w \in Workers : pc[w] \notin Locked
      BY <3>1 DEF LockInv
    <3>3. HolderInv'
      BY <3>1, <3>2 DEF HolderInv, Locked
    <3> QED BY <2>1, <2>2, <3>3 DEF TableInv, FreshInv, UniqueKeys
  <2>4. CASE Exit \/ Crash
    <3>1. HolderInv'
      BY <2>4 DEF Exit, Crash, Die, HolderInv
    <3> QED BY <2>1, <2>2, <3>1 DEF TableInv, FreshInv, UniqueKeys
  <2> QED BY <1>5, <2>3, <2>4
<1> QED BY <1>1, <1>2, <1>3, <1>4, <1>5 DEF AutoReset, Main

-----------------------------------------------------------------------------
(* Times.                                                                  *)

RowTimes == \A i \in Ids : rows[i] # None => rows[i].last <= clock
JobTimes == \A w \in Workers : pc[w] \in {"getnew", "write"} => job[w].last <= clock

\* One row is written, with a time that has come.
LEMMA RowWritten ==
    ASSUME TypeOK, RowTimes, NEW i \in Ids, NEW new,
           new # None => new.last <= clock,
           rows' = [rows EXCEPT ![i] = new], UNCHANGED clock
    PROVE  RowTimes'
BY DEF RowTimes, TypeOK, DbOK

\* One worker moves on, with a time that has come if it is still to write.
LEMMA WorkerMoved ==
    ASSUME TypeOK, JobTimes, NEW w \in Workers, UNCHANGED clock,
           \A v \in Workers \ {w} : pc'[v] = pc[v] /\ job'[v] = job[v],
           pc'[w] \in {"getnew", "write"} => job'[w].last <= clock
    PROVE  JobTimes'
BY DEF JobTimes

LEMMA ClockRequest ==
    ASSUME TypeOK, ClockInv, NEW w \in Workers,
           ReceiveUpsert(w) \/ ReceiveDelete(w) \/ Upsert(w) \/ Delete(w)
    PROVE  ClockInv'
<1>0. RowTimes /\ JobTimes /\ checkedAt <= clock
  BY DEF ClockInv, RowTimes, JobTimes
<1>1. UNCHANGED <<checkedAt, clock>>
  BY DEF Upsert, Delete, ReceiveUpsert, ReceiveDelete, LockUpsert, GetCurrent,
     GetNew, GetNewFails, InsertRow, StartInstance, Rollback, UpdateExisting,
     SwitchUpstream, LockDelete, DeleteTheRow, autoVars
<1>2. \A v \in Workers \ {w} : pc'[v] = pc[v] /\ job'[v] = job[v]
  BY DEF TypeOK, ApiOK, Upsert, Delete, ReceiveUpsert, ReceiveDelete, LockUpsert,
     GetCurrent, GetNew, GetNewFails, InsertRow, StartInstance, Rollback,
     UpdateExisting, SwitchUpstream, LockDelete, DeleteTheRow, Finish, Goto
<1>3. CASE pc[w] \notin {"getcur", "getnew", "write"}
  <2>1. pc'[w] \notin {"getnew", "write"}
    BY <1>3 DEF TypeOK, ApiOK, Upsert, Delete, ReceiveUpsert, ReceiveDelete, LockUpsert,
       GetCurrent, GetNew, GetNewFails, InsertRow, StartInstance, Rollback,
       UpdateExisting, SwitchUpstream, LockDelete, DeleteTheRow, Finish, Goto
  <2>2. JobTimes'
    BY <1>0, <1>1, <1>2, <2>1, WorkerMoved
  <2>3. UNCHANGED rows \/ rows' = [rows EXCEPT ![job[w].id] = None]
    BY <1>3 DEF Upsert, Delete, ReceiveUpsert, ReceiveDelete, LockUpsert,
       GetCurrent, GetNew, GetNewFails, InsertRow, StartInstance, Rollback,
       UpdateExisting, SwitchUpstream, LockDelete, DeleteTheRow, DeleteRow, dbVars
  <2>4. RowTimes'
    BY <1>0, <1>1, <2>3 DEF RowTimes, TypeOK, DbOK
  <2> QED BY <1>0, <1>1, <2>2, <2>4 DEF ClockInv, RowTimes, JobTimes
<1>4. CASE pc[w] \in {"getcur", "getnew"}
  <2>1. GetCurrent(w) \/ GetNew(w) \/ GetNewFails(w)
    BY <1>4 DEF Upsert, Delete, ReceiveUpsert, ReceiveDelete, LockUpsert,
       InsertRow, StartInstance, Rollback, UpdateExisting, SwitchUpstream,
       LockDelete, DeleteTheRow
  <2>2. job[w] \in UpsertJob
    BY <1>4 DEF TypeOK, ApiOK, JobFits
  <2>3. job[w].type \in Types /\ job[w].key \in Keys
    BY <2>2 DEF UpsertJob
  <2>4. /\ clock \in Int /\ service[job[w].type][job[w].key].readyAt \in Int
        /\ clock <= clock
    BY <2>3, BoundsAssumption DEF TypeOK, WorldOK
  <2>5. CalculatedLast(job[w].type, job[w].key) <= clock
    BY <2>4 DEF CalculatedLast, NextResetAfter, MayRotate
  <2>6. ASSUME GetCurrent(w) PROVE job'[w].last <= clock
    <3>1. ASSUME NEW p, job'[w] = [job[w] EXCEPT !.proxy = p,
                            !.last = CalculatedLast(job[w].type, job[w].key)]
          PROVE  job'[w].last <= clock
      BY <2>2, <2>5, <3>1 DEF UpsertJob
    <3>2. ASSUME job'[w] = [job[w] EXCEPT !.last = clock]
          PROVE  job'[w].last <= clock
      BY <2>2, <2>4, <3>2 DEF UpsertJob
    <3>3. \/ \E p : job'[w] = [job[w] EXCEPT !.proxy = p,
                         !.last = CalculatedLast(job[w].type, job[w].key)]
          \/ job'[w] = [job[w] EXCEPT !.last = clock]
      BY <2>6 DEF GetCurrent, TypeOK, ApiOK
    <3> QED BY <3>1, <3>2, <3>3
  <2>7. ASSUME GetNew(w) PROVE job'[w].last <= clock
    <3>1. PICK p \in Proxy : job'[w] = [job[w] EXCEPT !.proxy = p]
      BY <2>7 DEF GetNew, TypeOK, ApiOK
    <3>2. job'[w].last = job[w].last
      BY <2>2, <3>1 DEF UpsertJob
    <3>3. job[w].last <= clock
      BY <1>0, <2>7 DEF GetNew, JobTimes
    <3> QED BY <3>2, <3>3
  <2>8. GetNewFails(w) => pc'[w] = "idle"
    BY DEF GetNewFails, Finish, TypeOK, ApiOK
  <2>9. JobTimes'
    BY <1>0, <1>1, <1>2, <2>1, <2>6, <2>7, <2>8, WorkerMoved
  <2>10. UNCHANGED rows
    BY <2>1 DEF GetCurrent, GetNew, GetNewFails, dbVars
  <2> QED BY <1>0, <1>1, <2>9, <2>10 DEF ClockInv, RowTimes, JobTimes
<1>5. CASE pc[w] = "write"
  <2>1. InsertRow(w) \/ UpdateExisting(w)
    BY <1>5 DEF Upsert, Delete, ReceiveUpsert, ReceiveDelete, LockUpsert,
       GetCurrent, GetNew, GetNewFails, StartInstance, Rollback, SwitchUpstream,
       LockDelete, DeleteTheRow
  <2>2. job[w] \in UpsertJob /\ job[w].proxy # None /\ job[w].last <= clock
    BY <1>0, <1>5 DEF TypeOK, ApiOK, JobFits, JobTimes
  <2>3. pc'[w] \notin {"getnew", "write"}
    BY <2>1 DEF InsertRow, UpdateExisting, Finish, Goto, TypeOK, ApiOK
  <2>4. JobTimes'
    BY <1>0, <1>1, <1>2, <2>3, WorkerMoved
  <2>5. CASE UNCHANGED rows
    BY <1>0, <1>1, <2>4, <2>5 DEF ClockInv, RowTimes, JobTimes
  <2>6. CASE InsertRow(w) /\ ~ UNCHANGED rows
    <3> DEFINE new == [key |-> job[w].key, type |-> job[w].type, min |-> job[w].min,
                       proxy |-> job[w].proxy, last |-> job[w].last]
    <3>1. nextId \in Ids /\ rows' = [rows EXCEPT ![nextId] = new]
      BY <2>6, BoundsAssumption
      DEF InsertRow, FreshId, Insert, dbVars, TypeOK, DbOK, Ids
    <3>2. RowTimes'
      BY <1>0, <1>1, <2>2, <3>1, RowWritten
    <3> QED BY <1>0, <1>1, <2>4, <3>2 DEF ClockInv, RowTimes, JobTimes
  <2>7. CASE UpdateExisting(w) /\ ~ UNCHANGED rows
    <3> DEFINE i == job[w].id
               new == [rows[i] EXCEPT !.min = job[w].min, !.proxy = job[w].proxy,
                                      !.last = job[w].last]
    <3>1. i \in Ids /\ rows' = [rows EXCEPT ![i] = IF rows[i] = None THEN None ELSE new]
      BY <2>2, <2>7 DEF UpdateExisting, UpdateRow, UpsertJob
    <3>2. rows[i] # None => new.last <= clock
      BY <2>2, <3>1 DEF TypeOK, DbOK, Row
    <3>3. RowTimes'
      BY <1>0, <1>1, <3>1, <3>2, RowWritten
    <3> QED BY <1>0, <1>1, <2>4, <3>3 DEF ClockInv, RowTimes, JobTimes
  <2> QED BY <2>1, <2>5, <2>6, <2>7
<1> QED BY <1>3, <1>4, <1>5

LEMMA ClockOthers ==
    ASSUME TypeOK, ClockInv, LockInv, AutoReset \/ Main \/ Tick
    PROVE  ClockInv'
<1> USE DEF dbVars, apiVars, autoVars
<1>0. clock \in Int /\ checkedAt \in Int /\ checkedAt <= clock
      /\ \A i \in Ids : rows[i] # None => rows[i].last \in Int /\ rows[i].last <= clock
  BY BoundsAssumption DEF TypeOK, WorldOK, AutoOK, DbOK, Row, ClockInv
<1>1. CASE AutoWrite
  <2> DEFINE i == reset.row.id
             new == [rows[i] EXCEPT !.proxy = reset.proxy, !.last = checkedAt]
  <2>1. i \in Ids
    BY <1>1 DEF AutoWrite, TypeOK, AutoOK, DueRow
  <2>2. rows[i] # None => new.last = checkedAt
    BY <2>1 DEF TypeOK, DbOK, Row
  <2>3. UNCHANGED rows \/ rows' = [rows EXCEPT ![i] = IF rows[i] = None THEN None ELSE new]
    BY <1>1 DEF AutoWrite, UpdateRow
  <2>4. UNCHANGED <<clock, checkedAt, pc, job>>
    BY <1>1 DEF AutoWrite
  <2>5. RowTimes'
    BY <1>0, <2>1, <2>2, <2>3, <2>4, RowWritten DEF RowTimes
  <2> QED BY <1>0, <2>4, <2>5 DEF ClockInv, RowTimes
<1>2. CASE AutoTick
  <2>1. UNCHANGED <<clock, rows, pc, job>> /\ checkedAt' = clock
    BY <1>2 DEF AutoTick
  <2> QED BY <1>0, <2>1 DEF ClockInv
<1>3. CASE Tick
  <2>1. UNCHANGED <<checkedAt, rows, pc, job>> /\ clock' = clock + 1
    BY <1>3 DEF Tick
  <2>2. \A w \in Workers : pc[w] \in {"getnew", "write"} =>
           job[w].last \in Int /\ job[w].last <= clock
    BY DEF ClockInv, TypeOK, ApiOK, JobFits, UpsertJob
  <2> QED BY <1>0, <2>1, <2>2 DEF ClockInv
<1>4. ASSUME \/ AutoFind \/ AutoApply \/ AutoStop \/ Boot \/ Signal \/ StopAll \/ ShutdownApi
             \/ \E r \in todo : AutoGetNew(r) \/ AutoGetNewFails(r)
      PROVE  ClockInv'
  <2>1. UNCHANGED <<clock, checkedAt, rows, pc, job>>
    BY <1>4 DEF AutoFind, AutoApply, AutoStop, Boot, Signal, StopAll, ShutdownApi,
       AutoGetNew, AutoGetNewFails
  <2> QED BY <2>1 DEF ClockInv
<1>5. CASE Exit \/ Crash
  BY <1>5 DEF Exit, Crash, Die, ClockInv
<1> QED BY <1>1, <1>2, <1>3, <1>4, <1>5 DEF AutoReset, Main

-----------------------------------------------------------------------------
(* The theorems.                                                           *)

LEMMA InvInit == Init => IInv
<1> SUFFICES ASSUME Init PROVE IInv
  OBVIOUS
<1>1. FreshInv /\ UniqueKeys /\ InstanceHasRow /\ AckedGone
  BY DEF Init, FreshInv, UniqueKeys, InstanceHasRow, AckedGone
<1>2. HolderInv /\ ClockInv
  BY DEF Init, HolderInv, ClockInv
<1> QED BY <1>1, <1>2, InitTyped, LockInit DEF IInv

LEMMA InvStep == IInv /\ [Next]_vars => IInv'
<1> SUFFICES ASSUME IInv, [Next]_vars PROVE IInv'
  OBVIOUS
<1> USE DEF IInv
<1>1. TypeOK'
  <2>1. CASE UNCHANGED vars
    BY <2>1 DEF vars, TypeOK, DbOK, WorldOK, ManagerOK, ApiOK, AutoOK
  <2> QED BY <2>1, RequestTyped, ResetTyped, MainTyped DEF Next
<1>2. LockInv'
  BY LockStep
<1>3. CASE UNCHANGED vars
  BY <1>1, <1>2, <1>3 DEF vars, HolderInv, FreshInv, UniqueKeys, InstanceHasRow,
     AckedGone, ClockInv
<1>4. CASE Next
  <2>1. TableInv
    BY DEF TableInv
  <2>2. HolderInv' /\ TableInv'
    BY <1>4, <2>1, RequestSafe, OthersSafe DEF Next
  <2>3. ClockInv'
    BY <1>4, ClockRequest, ClockOthers DEF Next
  <2> QED BY <1>1, <1>2, <2>2, <2>3 DEF TableInv
<1> QED BY <1>3, <1>4

\* IInv is an invariant of the server.
THEOREM Invariance == Spec => []IInv
BY InvInit, InvStep, PTL DEF Spec

\* However many requests race, however the process dies, a key has one row.
THEOREM KeysAreUnique == Spec => []UniqueKeys
<1>1. IInv => UniqueKeys
  BY DEF IInv
<1> QED BY <1>1, Invariance, PTL

\* Every running instance belongs to a row, and speaks that row's format.
THEOREM InstancesHaveRows == Spec => []InstanceHasRow
<1>1. IInv => InstanceHasRow
  BY DEF IInv
<1> QED BY <1>1, Invariance, PTL

\* An acknowledged DELETE is final.
THEOREM DeletesAreFinal == Spec => []AckedGone
<1>1. IInv => AckedGone
  BY DEF IInv
<1> QED BY <1>1, Invariance, PTL

\* No time in the table, or about to be written, is ahead of the clock.
THEOREM TimesHaveCome == Spec => []LastNotInFuture
<1>1. IInv => LastNotInFuture
  BY DEF IInv, ClockInv, LastNotInFuture
<1> QED BY <1>1, Invariance, PTL

-----------------------------------------------------------------------------
(* The registry.                                                           *)

LEMMA StepRegisters ==
    ASSUME IInv, [Next]_vars
    PROVE  [Registered!Next]_<<KeyOf, nextId>>
<1> USE NoneIsNothing DEF dbVars
<1>1. ASSUME NEW w \in Workers, InsertRow(w), ~ UNCHANGED dbVars
      PROVE  Registered!Next
  <2> DEFINE j == job[w]
             new == [key |-> j.key, type |-> j.type, min |-> j.min,
                     proxy |-> j.proxy, last |-> j.last]
  <2>1. /\ nextId <= MaxId
        /\ rows' = [rows EXCEPT ![nextId] = new]
        /\ nextId' = nextId + 1
        /\ j.id = 0 /\ pc[w] = "write"
    BY <1>1 DEF InsertRow, FreshId, Insert
  <2>2. j \in UpsertJob /\ j.proxy # None /\ nextId \in Ids
    BY <2>1, BoundsAssumption DEF IInv, TypeOK, ApiOK, DbOK, JobFits, Ids
  <2>3. new \in Row /\ j.key \in Keys
    BY <2>2 DEF UpsertJob, Row
  <2>4. new # None /\ \A i \in Ids : rows'[i] = IF i = nextId THEN new ELSE rows[i]
    BY <2>1, <2>3 DEF IInv, TypeOK, DbOK
  <2>5. \A i \in Ids : KeyOf[i] # j.key
    BY <2>1, <2>3 DEF IInv, HolderInv, KeyOf
  <2>6. KeyOf' = [KeyOf EXCEPT ![nextId] = j.key]
    <3> DEFINE k(i) == IF rows'[i] = None THEN None ELSE rows'[i].key
    <3>1. new.key = j.key
      OBVIOUS
    <3>2. \A i \in Ids : k(i) = IF i = nextId THEN j.key ELSE KeyOf[i]
      BY <2>4, <3>1 DEF KeyOf
    <3>3. KeyOf' = [i \in Ids |-> k(i)]
      BY DEF KeyOf
    <3>4. KeyOf = [i \in Ids |-> KeyOf[i]]
      BY DEF KeyOf
    <3> HIDE DEF k
    <3> QED BY <2>2, <3>2, <3>3, <3>4
  <2>7. Registered!Register(j.key)
    BY <2>1, <2>5, <2>6 DEF Registered!Register, Registered!Ids, Ids
  <2> QED BY <2>3, <2>7 DEF Registered!Next
<1>2. ASSUME NEW w \in Workers, Rollback(w) \/ DeleteTheRow(w), ~ UNCHANGED dbVars
      PROVE  Registered!Next
  <2> DEFINE d == job[w].id
  <2>1. rows' = [rows EXCEPT ![d] = None] /\ UNCHANGED nextId
    BY <1>2 DEF Rollback, DeleteTheRow, DeleteRow
  <2>2. d \in Ids
    BY <1>2 DEF Rollback, DeleteTheRow, IInv, TypeOK, ApiOK, JobFits, UpsertJob, DeleteJob
  <2>3. \A i \in Ids : rows'[i] = IF i = d THEN None ELSE rows[i]
    BY <2>1 DEF IInv, TypeOK, DbOK
  <2>4. KeyOf' = [KeyOf EXCEPT ![d] = None]
    BY <2>2, <2>3 DEF KeyOf
  <2>5. Registered!Deregister(d)
    BY <2>1, <2>4 DEF Registered!Deregister
  <2> QED BY <2>2, <2>5 DEF Registered!Next, Registered!Ids, Ids
<1>3. ASSUME RowsKept, UNCHANGED nextId PROVE UNCHANGED <<KeyOf, nextId>>
  BY <1>3 DEF RowsKept, KeyOf
<1>4. ASSUME UNCHANGED rows PROVE RowsKept
  BY <1>4 DEF RowsKept
<1>5. ASSUME NEW w \in Workers, UpdateExisting(w) PROVE RowsKept /\ UNCHANGED nextId
  <2> DEFINE j == job[w]
             new == [rows[j.id] EXCEPT !.min = j.min, !.proxy = j.proxy, !.last = j.last]
  <2>1. j \in UpsertJob /\ j.proxy # None /\ j.id \in Ids
    BY <1>5 DEF UpdateExisting, IInv, TypeOK, ApiOK, JobFits, UpsertJob
  <2>2. rows[j.id] # None =>
           new \in Row /\ new.key = rows[j.id].key /\ new.type = rows[j.id].type
    BY <2>1 DEF UpsertJob, IInv, TypeOK, DbOK, Row
  <2> QED BY <1>5, <1>4, <2>1, <2>2, UpdateKeepsRows DEF UpdateExisting, IInv, TypeOK
<1>6. ASSUME AutoWrite PROVE RowsKept /\ UNCHANGED nextId
  <2> DEFINE i == reset.row.id
             new == [rows[i] EXCEPT !.proxy = reset.proxy, !.last = checkedAt]
  <2>1. i \in Ids /\ reset.proxy \in Proxy /\ checkedAt \in Int
    BY <1>6 DEF AutoWrite, IInv, TypeOK, AutoOK, DueRow
  <2>2. rows[i] # None =>
           new \in Row /\ new.key = rows[i].key /\ new.type = rows[i].type
    BY <2>1 DEF IInv, TypeOK, DbOK, Row
  <2> QED BY <1>6, <1>4, <2>1, <2>2, UpdateKeepsRows DEF AutoWrite, IInv, TypeOK
<1>7. CASE UNCHANGED dbVars
  BY <1>3, <1>4, <1>7
<1>8. ASSUME NEW w \in Workers,
             ReceiveUpsert(w) \/ ReceiveDelete(w) \/ Upsert(w) \/ Delete(w)
      PROVE  \/ UNCHANGED dbVars
             \/ InsertRow(w) \/ Rollback(w) \/ DeleteTheRow(w) \/ UpdateExisting(w)
  BY <1>8 DEF ReceiveUpsert, ReceiveDelete, Upsert, Delete, LockUpsert, GetCurrent,
     GetNew, GetNewFails, StartInstance, SwitchUpstream, LockDelete
<1>9. ASSUME AutoReset \/ Main \/ Tick PROVE UNCHANGED dbVars \/ AutoWrite
  BY <1>9 DEF AutoReset, AutoTick, AutoGetNew, AutoGetNewFails, AutoFind, AutoApply,
     AutoStop, Main, Boot, Signal, StopAll, ShutdownApi, Exit, Crash, Die, Tick
<1> QED
  BY <1>1, <1>2, <1>3, <1>5, <1>6, <1>7, <1>8, <1>9 DEF Next, vars

\* The server implements the abstract registry of keys.
THEOREM RegistryImplemented == Spec => ImplementsRegistry
<1>1. Init => Registered!Init
  BY DEF Init, Registered!Init, KeyOf, Registered!Ids, Ids
<1>2. IInv /\ [Next]_vars => [Registered!Next]_<<KeyOf, nextId>>
  BY StepRegisters
<1> QED BY <1>1, <1>2, Invariance, PTL DEF Spec, ImplementsRegistry, Registered!Spec

-----------------------------------------------------------------------------
(* Requests alone.                                                         *)

LEMMA AloneStarts == Init => AloneInv
<1> SUFFICES ASSUME Init PROVE AloneInv
  OBVIOUS
<1>1. LoopRests /\ OthersServed /\ \A i \in Ids : RowFine(i)
  BY DEF Init, LoopRests, OthersServed, RowFine
<1>2. \A w \in Workers : JobFine(w)
  BY DEF Init, JobFine
<1>3. Cooling
  BY BoundsAssumption DEF Init, Cooling
<1> QED  BY <1>1, <1>2, <1>3 DEF AloneInv

LEMMA NothingDue ==
    ASSUME RequestsAlone, TypeOK, AloneInv
    PROVE  ~AutoTick
<1> SUFFICES ASSUME NEW i \in Ids, rows[i] # None, Due(rows[i], clock) PROVE FALSE
  BY DEF AutoTick
<1>1. rows[i] \in Row
  BY DEF TypeOK, DbOK
<1>2. rows[i].min \in Int /\ rows[i].last \in Int /\ rows[i].min > MaxClock + Cooldown
  BY <1>1, MinsAssumption DEF Row, RequestsAlone
<1>3. rows[i].last >= 0 - Cooldown
  BY DEF AloneInv, RowFine
<1>4. clock \in Nat /\ clock <= MaxClock /\ MaxClock \in Nat /\ Cooldown \in Nat
  BY BoundsAssumption DEF TypeOK, WorldOK
<1>5. clock - rows[i].last >= rows[i].min
  BY DEF Due
<1> QED  BY <1>2, <1>3, <1>4, <1>5

\* A worker outside the lock has promised nothing.
LEMMA OutsideFine ==
    ASSUME NEW v \in Workers, JobFine(v), pc'[v] = pc[v], job'[v] = job[v], pc'[v] \notin Locked
    PROVE  JobFine(v)'
BY DEF JobFine, Locked

\* Nobody but the holder of the lock is about to change anything.
LEMMA OnlyHolderChanges ==
    ASSUME LockInv, NEW w \in Workers, mu = w \/ mu = None
    PROVE  \A v \in Workers \ {w} : pc[v] \notin Locked
BY NoneIsNothing DEF LockInv

LEMMA ServedSteps ==
    ASSUME LockInv, OthersServed, NEW w \in Workers, mu = w \/ mu = None, UNCHANGED phase,
           NEW d \in Ids, \A i \in Ids : Changes(w, i) => i = d,
           \A i \in Ids \ {d} : rows'[i] = rows[i] /\ instances'[i] = instances[i],
           phase = "up" => Served(d)' \/ Changes(w, d)'
    PROVE  OthersServed'
<1> SUFFICES ASSUME phase = "up", NEW i \in Ids
             PROVE  Served(i)' \/ \E v \in Workers : Changes(v, i)'
  BY DEF OthersServed
<1>1. CASE i = d
  BY <1>1
<1>2. CASE i # d
  <2>1. \A v \in Workers : ~Changes(v, i)
    BY <1>2, OnlyHolderChanges DEF Changes, Locked
  <2>2. Served(i)
    BY <2>1 DEF OthersServed
  <2>3. rows'[i] = rows[i] /\ instances'[i] = instances[i]
    BY <1>2
  <2> QED  BY <2>2, <2>3 DEF Served
<1> QED  BY <1>1, <1>2

LEMMA ServedStays ==
    ASSUME LockInv, OthersServed, NEW w \in Workers, mu = w \/ mu = None,
           UNCHANGED <<phase, rows, instances>>,
           pc[w] \notin {"start", "upstream", "delrow"}
    PROVE  OthersServed'
<1> SUFFICES ASSUME phase = "up", NEW i \in Ids PROVE Served(i)'
  BY DEF OthersServed
<1>1. \A v \in Workers : ~Changes(v, i)
  BY OnlyHolderChanges DEF Changes, Locked
<1> QED  BY <1>1 DEF OthersServed, Served

\* The loop, main and the clock.
LEMMA AloneOthers ==
    ASSUME RequestsAlone, IInv, AloneInv, AutoReset \/ Main \/ Tick
    PROVE  AloneInv'
<1> USE DEF dbVars, apiVars, autoVars
<1>1. CASE AutoReset
  <2>1. AutoStop
    BY <1>1, NothingDue DEF AutoReset, AloneInv, LoopRests, AutoWrite, AutoFind, AutoApply, IInv
  <2>2. /\ UNCHANGED <<rows, service, clock, phase, instances, pc, job, todo, reset>>
        /\ apc' = "off"
    BY <2>1 DEF AutoStop
  <2> QED  BY <2>2 DEF AloneInv, LoopRests, Cooling, OthersServed, Served, Changes, RowFine, JobFine
<1>2. CASE Boot
  <2>1. /\ UNCHANGED <<rows, service, clock, pc, job, todo, reset>>
        /\ apc' = "idle" /\ phase = "down"
    BY <1>2 DEF Boot
  <2>2. \A w \in Workers : pc[w] = "idle"
    BY <2>1 DEF IInv, LockInv
  <2>3. \A w \in Workers : JobFine(w)'
    BY <2>1, <2>2 DEF JobFine
  <2>4. ASSUME NEW i \in Ids PROVE Served(i)'
    <3>1. CanRun(i, rows[i].proxy, rows[i].type) \/ rows[i] = None
      <4>1. i + 10000 <= MaxId + 10000 /\ MaxId + 10000 <= MaxPort
        BY BoundsAssumption DEF Ids, RequestsAlone, Port
      <4>2. Port(i) <= MaxPort
        BY <4>1, BoundsAssumption DEF Ids, Port
      <4> QED  BY <4>2 DEF CanRun, Parses, AloneInv, RowFine
    <3>2. instances'[i] = IF rows[i] # None
                          THEN [type |-> rows[i].type, upstream |-> rows[i].proxy] ELSE None
      BY <1>2, <3>1 DEF Boot, RequestsAlone
    <3>3. rows[i] # None => [type |-> rows[i].type, upstream |-> rows[i].proxy] \in Instance
      BY DEF IInv, TypeOK, DbOK, Row, Instance
    <3> QED  BY <2>1, <3>2, <3>3, NoneIsNothing DEF Served
  <2> QED  BY <2>1, <2>3, <2>4 DEF AloneInv, LoopRests, Cooling, OthersServed, RowFine
<1>3. CASE Signal \/ StopAll \/ ShutdownApi
  <2>1. /\ UNCHANGED <<rows, service, clock, pc, job, apc, todo, reset>> /\ phase' # "up"
    BY <1>3 DEF Signal, StopAll, ShutdownApi
  <2>2. \A w \in Workers : JobFine(w)'
    BY <2>1 DEF AloneInv, JobFine
  <2> QED  BY <2>1, <2>2 DEF AloneInv, LoopRests, Cooling, OthersServed, RowFine
<1>4. CASE Exit \/ Crash
  <2>1. /\ UNCHANGED <<rows, service, clock>> /\ phase' = "down" /\ apc' = "off" /\ todo' = {}
        /\ reset' = None /\ pc' = [w \in Workers |-> "idle"]
    BY <1>4 DEF Exit, Crash, Die
  <2>2. \A w \in Workers : JobFine(w)'
    BY <2>1 DEF JobFine
  <2> QED  BY <2>1, <2>2 DEF AloneInv, LoopRests, Cooling, OthersServed, RowFine
<1>5. CASE Tick
  <2>1. /\ UNCHANGED <<rows, service, phase, instances, pc, job, apc, todo, reset>>
        /\ clock' = clock + 1
    BY <1>5 DEF Tick
  <2>2. Cooling'
    <3>1. ASSUME NEW t \in Types, NEW k \in Keys
          PROVE  service[t][k].readyAt <= clock + 1 + Cooldown
      <4>1. service[t][k].readyAt \in Int /\ clock \in Int /\ Cooldown \in Int
        BY BoundsAssumption DEF IInv, TypeOK, WorldOK
      <4> QED  BY <4>1 DEF AloneInv, Cooling
    <3> QED  BY <2>1, <3>1 DEF Cooling
  <2> QED  BY <2>1, <2>2 DEF AloneInv, LoopRests, OthersServed, Served, Changes, RowFine, JobFine
<1> QED  BY <1>1, <1>2, <1>3, <1>4, <1>5 DEF Main

\* What a request does with the services and the clock.
LEMMA AloneCooling ==
    ASSUME IInv, AloneInv, NEW w \in Workers,
           ReceiveUpsert(w) \/ ReceiveDelete(w) \/ Upsert(w) \/ Delete(w)
    PROVE  Cooling'
<1> USE DEF dbVars, autoVars
<1>1. UNCHANGED clock
  BY DEF Upsert, Delete, ReceiveUpsert, ReceiveDelete, LockUpsert, GetCurrent,
     GetNew, GetNewFails, InsertRow, StartInstance, Rollback, UpdateExisting,
     SwitchUpstream, LockDelete, DeleteTheRow
<1>2. UNCHANGED service \/ \E t \in Types, k \in Keys : Rotate(t, k)
  <2>1. CASE GetNew(w) \/ GetNewFails(w)
    <3>1. job[w] \in UpsertJob
      BY <2>1 DEF GetNew, GetNewFails, IInv, TypeOK, ApiOK, JobFits
    <3>2. job[w].type \in Types /\ job[w].key \in Keys
      BY <3>1 DEF UpsertJob
    <3> QED  BY <2>1, <3>2 DEF GetNew, GetNewFails, NewProxy, NewProxyFails
  <2>2. CASE ~(GetNew(w) \/ GetNewFails(w))
    BY <2>2 DEF Upsert, Delete, ReceiveUpsert, ReceiveDelete, LockUpsert, GetCurrent,
       InsertRow, StartInstance, Rollback, UpdateExisting,
       SwitchUpstream, LockDelete, DeleteTheRow
  <2> QED  BY <2>1, <2>2
<1>3. CASE UNCHANGED service
  BY <1>1, <1>3 DEF AloneInv, Cooling
<1>4. ASSUME NEW t \in Types, NEW k \in Keys, Rotate(t, k) PROVE Cooling'
  <2>1. SUFFICES ASSUME NEW s \in Types, NEW q \in Keys
                 PROVE  service'[s][q].readyAt <= clock + Cooldown
    BY <1>1 DEF Cooling
  <2>2. service' = [service EXCEPT ![t][k] = [gen |-> NextGen(t, k), readyAt |-> clock + Cooldown]]
    BY <1>4 DEF Rotate
  <2>3. service'[s][q] = service[s][q] \/ service'[s][q].readyAt = clock + Cooldown
    BY <2>2 DEF IInv, TypeOK, WorldOK
  <2>4. clock + Cooldown \in Int
    BY BoundsAssumption DEF IInv, TypeOK, WorldOK
  <2> QED  BY <2>3, <2>4 DEF AloneInv, Cooling
<1> QED  BY <1>2, <1>3, <1>4

\* What a request does to the rows, the instances and itself.
LEMMA AloneRequest ==
    ASSUME RequestsAlone, IInv, LockInv', AloneInv, NEW w \in Workers,
           ReceiveUpsert(w) \/ ReceiveDelete(w) \/ Upsert(w) \/ Delete(w)
    PROVE  OthersServed' /\ (\A i \in Ids : RowFine(i)') /\ \A v \in Workers : JobFine(v)'
<1> USE NoneIsNothing DEF dbVars
<1>0. /\ UNCHANGED phase
      /\ \A v \in Workers \ {w} : pc'[v] = pc[v] /\ job'[v] = job[v]
  BY DEF IInv, TypeOK, ApiOK, Upsert, Delete, ReceiveUpsert, ReceiveDelete, LockUpsert,
     GetCurrent, GetNew, GetNewFails, InsertRow, StartInstance, Rollback,
     UpdateExisting, SwitchUpstream, LockDelete, DeleteTheRow, Finish, Goto
<1>1. ASSUME JobFine(w)', mu' = w \/ mu' = None PROVE \A v \in Workers : JobFine(v)'
  <2>1. \A v \in Workers \ {w} : pc'[v] \notin Locked
    BY <1>1 DEF LockInv
  <2>2. ASSUME NEW v \in Workers \ {w} PROVE JobFine(v)'
    BY <1>0, <2>1, OutsideFine DEF AloneInv
  <2> QED  BY <1>1, <2>2
<1>2. UNCHANGED rows => \A i \in Ids : RowFine(i)'
  BY DEF AloneInv, RowFine
<1>3. pc'[w] = "idle" => JobFine(w)'
  BY DEF JobFine
<1>4. Finish(w) => pc'[w] = "idle" /\ mu' = None
  BY DEF Finish, IInv, TypeOK, ApiOK
<1>5. CASE ReceiveUpsert(w) \/ ReceiveDelete(w)
  <2>1. UNCHANGED <<rows, instances, phase>> /\ pc[w] = "idle" /\ pc'[w] \in {"upsert", "delete"}
    BY <1>5 DEF ReceiveUpsert, ReceiveDelete, IInv, TypeOK, ApiOK
  <2>2. pc'[w] = "upsert" => job'[w].id = 0
    BY <1>5 DEF ReceiveUpsert, ReceiveDelete, IInv, TypeOK, ApiOK
  <2>3. \A v \in Workers : JobFine(v)'
    BY <1>0, <2>1, <2>2 DEF AloneInv, JobFine
  <2>4. OthersServed'
    BY <1>0, <2>1 DEF AloneInv, OthersServed, Served, Changes
  <2> QED  BY <1>2, <2>1, <2>3, <2>4
<1>6. CASE LockUpsert(w)
  <2>1. UNCHANGED <<rows, instances, phase>> /\ mu = None /\ mu' = w /\ pc[w] = "upsert"
        /\ pc'[w] = "getcur"
    BY <1>6 DEF LockUpsert, LockFree, RequestsAlone, IInv, TypeOK, ApiOK
  <2>2. job[w] \in UpsertJob
    BY <2>1 DEF IInv, TypeOK, ApiOK, JobFits
  <2>3. job'[w].id # 0 => rows[job'[w].id] # None
    <3>1. ASSUME NEW i \in Ids, rows[i] # None, job' = [job EXCEPT ![w].id = i]
          PROVE  rows[job'[w].id] # None
      BY <2>2, <3>1 DEF IInv, TypeOK, ApiOK, UpsertJob
    <3>2. job' = job => job'[w].id = 0
      BY <2>1 DEF AloneInv, JobFine
    <3> QED  BY <1>6, <3>1, <3>2 DEF LockUpsert, RequestsAlone
  <2>4. JobFine(w)'
    BY <2>1, <2>3 DEF JobFine
  <2>5. OthersServed'
    BY <2>1, ServedStays DEF AloneInv, IInv
  <2> QED  BY <1>1, <1>2, <2>1, <2>4, <2>5
<1>7. CASE GetCurrent(w)
  <2> DEFINE j == job[w]
  <2>1. /\ UNCHANGED <<rows, instances, phase, mu>> /\ pc[w] = "getcur" /\ mu = w
        /\ pc'[w] \in {"write", "getnew"}
    BY <1>7 DEF GetCurrent, Goto, IInv, TypeOK, ApiOK, LockInv, Locked
  <2>2. j \in UpsertJob
    BY <2>1 DEF IInv, TypeOK, ApiOK, JobFits
  <2>3. j.type \in Types /\ j.key \in Keys
    BY <2>2 DEF UpsertJob
  <2>4. /\ clock \in Nat /\ service[j.type][j.key].readyAt \in Int /\ Cooldown \in Nat
        /\ service[j.type][j.key].readyAt <= clock + Cooldown
    BY <2>3, BoundsAssumption DEF IInv, TypeOK, WorldOK, AloneInv, Cooling
  <2>5. /\ CalculatedLast(j.type, j.key) >= 0 - Cooldown
        /\ clock >= 0 - Cooldown
    BY <2>4 DEF CalculatedLast, NextResetAfter, MayRotate
  <2>6. CASE pc'[w] = "write"
    <3>1. PICK p \in Answers(j.type, service[j.type][j.key].gen) :
            job' = [job EXCEPT ![w] = [j EXCEPT
                       !.proxy = p, !.last = CalculatedLast(j.type, j.key)]]
      BY <1>7, <2>6 DEF GetCurrent, Goto, IInv, TypeOK, ApiOK
    <3>2. p.form = j.type
      BY DEF Answers, RequestsAlone
    <3>3. /\ job'[w].proxy = p /\ job'[w].last = CalculatedLast(j.type, j.key)
          /\ job'[w].type = j.type /\ job'[w].id = j.id
      BY <2>2, <3>1 DEF IInv, TypeOK, ApiOK, UpsertJob
    <3> QED  BY <1>1, <1>2, <2>1, <2>5, <2>6, <3>2, <3>3, ServedStays DEF AloneInv, IInv, JobFine
  <2>7. CASE pc'[w] = "getnew"
    <3>1. job' = [job EXCEPT ![w] = [j EXCEPT !.last = clock]]
      BY <1>7, <2>7 DEF GetCurrent, Goto, IInv, TypeOK, ApiOK
    <3>2. job'[w].last = clock /\ job'[w].id = j.id
      BY <2>2, <3>1 DEF IInv, TypeOK, ApiOK, UpsertJob
    <3> QED  BY <1>1, <1>2, <2>1, <2>5, <2>7, <3>2, ServedStays DEF AloneInv, IInv, JobFine
  <2> QED  BY <2>1, <2>6, <2>7
<1>8. CASE GetNew(w)
  <2>1. /\ UNCHANGED <<rows, instances, phase, mu>> /\ pc[w] = "getnew" /\ mu = w
        /\ pc'[w] = "write"
    BY <1>8 DEF GetNew, Goto, IInv, TypeOK, ApiOK, LockInv, Locked
  <2>2. job[w] \in UpsertJob
    BY <2>1 DEF IInv, TypeOK, ApiOK, JobFits
  <2>3. PICK p \in Proxy :
          /\ NewProxy(job[w].type, job[w].key, p)
          /\ job' = [job EXCEPT ![w] = [job[w] EXCEPT !.proxy = p]]
    BY <1>8 DEF GetNew
  <2>4. p.form = job[w].type
    BY <2>3 DEF NewProxy, Answers, RequestsAlone
  <2>5. /\ job'[w].proxy = p /\ job'[w].last = job[w].last
        /\ job'[w].type = job[w].type /\ job'[w].id = job[w].id
    BY <2>2, <2>3 DEF IInv, TypeOK, ApiOK, UpsertJob
  <2> QED  BY <1>1, <1>2, <2>1, <2>4, <2>5, ServedStays DEF AloneInv, IInv, JobFine
<1>9. CASE GetNewFails(w)
  <2>1. UNCHANGED <<rows, instances, phase>> /\ pc[w] = "getnew" /\ mu = w /\ Finish(w)
    BY <1>9 DEF GetNewFails, IInv, LockInv, Locked
  <2> QED  BY <1>1, <1>2, <1>3, <1>4, <2>1, ServedStays DEF AloneInv, IInv
<1>10. CASE InsertRow(w)
  <2> DEFINE j == job[w]
             new == [key |-> j.key, type |-> j.type, min |-> j.min,
                     proxy |-> j.proxy, last |-> j.last]
  <2>1. UNCHANGED <<instances, phase>> /\ mu = w /\ pc[w] = "write"
    BY <1>10 DEF InsertRow, IInv, LockInv, Locked
  <2>2. CASE Finish(w) /\ UNCHANGED dbVars
    BY <1>1, <1>2, <1>3, <1>4, <2>1, <2>2, ServedStays DEF AloneInv, IInv
  <2>3. CASE /\ nextId <= MaxId
             /\ rows' = [rows EXCEPT ![nextId] = new]
             /\ job' = [job EXCEPT ![w] = [j EXCEPT !.id = nextId]]
             /\ Goto(w, "start")
    <3>1. nextId \in Ids
      BY <2>3, BoundsAssumption DEF IInv, TypeOK, DbOK, Ids
    <3>2. j \in UpsertJob /\ j.proxy # None
      BY <2>1 DEF IInv, TypeOK, ApiOK, JobFits
    <3>3. new \in Row
      BY <3>2 DEF UpsertJob, Row
    <3>4. /\ rows'[nextId] = new /\ new # None
          /\ \A i \in Ids \ {nextId} : rows'[i] = rows[i]
      BY <2>3, <3>1, <3>3 DEF IInv, TypeOK, DbOK
    <3>5. /\ job'[w].id = nextId /\ job'[w].type = j.type /\ job'[w].proxy = j.proxy
          /\ pc'[w] = "start" /\ mu' = w
      BY <2>1, <2>3, <3>2 DEF IInv, TypeOK, ApiOK, UpsertJob, Goto
    <3>6. j.last >= 0 - Cooldown /\ j.proxy.form = j.type
      BY <2>1 DEF AloneInv, JobFine
    <3>7. \A i \in Ids : RowFine(i)'
      BY <3>4, <3>6 DEF AloneInv, RowFine
    <3>8. JobFine(w)'
      BY <3>4, <3>5, <3>6 DEF JobFine
    <3>9. OthersServed'
      BY <2>1, <3>1, <3>4, <3>5, ServedSteps DEF Changes, AloneInv, IInv
    <3> QED  BY <1>1, <3>5, <3>7, <3>8, <3>9
  <2> QED  BY <1>10, <2>2, <2>3 DEF InsertRow, FreshId, Insert
<1>11. CASE StartInstance(w)
  <2> DEFINE j == job[w]
  <2>1. UNCHANGED <<rows, phase>> /\ mu = w /\ pc[w] = "start"
    BY <1>11 DEF StartInstance, IInv, LockInv, Locked
  <2>2. j \in UpsertJob /\ j.id \in Ids /\ rows[j.id] # None /\ rows[j.id].proxy = j.proxy
        /\ j.proxy.form = j.type
    BY <2>1 DEF IInv, TypeOK, ApiOK, JobFits, UpsertJob, AloneInv, JobFine
  <2>3. CanRun(j.id, j.proxy, j.type)
    <3>1. j.id + 10000 <= MaxId + 10000 /\ MaxId + 10000 <= MaxPort
      BY <2>2, BoundsAssumption DEF Ids, RequestsAlone, Port
    <3>2. Port(j.id) <= MaxPort
      BY <2>2, <3>1, BoundsAssumption DEF Ids, Port
    <3> QED  BY <2>2, <3>2 DEF CanRun, Parses
  <2>4. /\ instances' = [instances EXCEPT ![j.id] = [type |-> j.type, upstream |-> j.proxy]]
        /\ Finish(w)
    BY <1>11, <2>3 DEF StartInstance, RequestsAlone
  <2>5. [type |-> j.type, upstream |-> j.proxy] \in Instance
    BY <2>1, <2>2 DEF UpsertJob, Instance, IInv, TypeOK, ApiOK, JobFits
  <2>6. /\ instances'[j.id] # None /\ instances'[j.id].upstream = j.proxy
        /\ \A i \in Ids \ {j.id} : instances'[i] = instances[i]
    BY <2>2, <2>4, <2>5 DEF IInv, TypeOK, ManagerOK
  <2>7. OthersServed'
    <3> DEFINE d == j.id
    <3>1. rows'[d] = rows[d] /\ rows[d] # None
      BY <2>1, <2>2
    <3> QED  BY <2>1, <2>2, <2>6, <3>1, ServedSteps DEF Changes, Served, AloneInv, IInv
  <2> QED  BY <1>1, <1>2, <1>3, <1>4, <2>1, <2>4, <2>7
<1>12. CASE Rollback(w)
  BY <1>12 DEF Rollback, AloneInv, JobFine
<1>13. CASE UpdateExisting(w)
  <2> DEFINE j == job[w]
             new == [rows[j.id] EXCEPT !.min = j.min, !.proxy = j.proxy, !.last = j.last]
  <2>1. /\ UNCHANGED <<instances, phase, job, mu>> /\ mu = w /\ pc[w] = "write" /\ j.id # 0
        /\ pc'[w] = "upstream" /\ UpdateRow(j.id, new)
    BY <1>13 DEF UpdateExisting, RequestsAlone, Goto, IInv, TypeOK, ApiOK, LockInv, Locked
  <2>2. j \in UpsertJob /\ j.id \in Ids /\ rows[j.id] # None
        /\ j.last >= 0 - Cooldown /\ j.proxy.form = j.type
    BY <2>1 DEF IInv, TypeOK, ApiOK, JobFits, UpsertJob, AloneInv, JobFine
  <2>3. /\ rows'[j.id] = new /\ \A i \in Ids \ {j.id} : rows'[i] = rows[i]
    BY <2>1, <2>2 DEF UpdateRow, IInv, TypeOK, DbOK
  <2>4. rows[j.id] \in Row /\ j.proxy \in Proxy
    BY <2>1, <2>2 DEF IInv, TypeOK, DbOK, ApiOK, JobFits, UpsertJob
  <2>5. /\ new.proxy = j.proxy /\ new.last = j.last /\ new.type = rows[j.id].type
        /\ new \in Row /\ new # None /\ rows[j.id].type = j.type
    BY <2>2, <2>4 DEF Row, UpsertJob, RequestsAlone
  <2> HIDE DEF new
  <2>6. \A i \in Ids : RowFine(i)'
    BY <2>2, <2>3, <2>5 DEF AloneInv, RowFine
  <2>7. phase = "up" => instances[j.id] # None
    <3>1. \A v \in Workers : ~Changes(v, j.id)
      BY <2>1, OnlyHolderChanges DEF Changes, Locked, IInv
    <3> QED  BY <2>2, <3>1 DEF AloneInv, OthersServed, Served
  <2>8. JobFine(w)'
    BY <2>1, <2>2, <2>3, <2>5, <2>7 DEF JobFine
  <2>9. OthersServed'
    BY <2>1, <2>2, <2>3, ServedSteps DEF Changes, AloneInv, IInv
  <2> QED  BY <1>1, <2>1, <2>6, <2>8, <2>9
<1>14. CASE SwitchUpstream(w)
  <2> DEFINE d == job[w].id
             p == job[w].proxy
  <2>1. /\ UNCHANGED <<rows, phase>> /\ mu = w /\ pc[w] = "upstream" /\ Finish(w)
        /\ UpdateUpstream(d, p)
    BY <1>14 DEF SwitchUpstream, IInv, LockInv, Locked
  <2>2. /\ job[w] \in UpsertJob /\ d \in Ids /\ rows[d] # None /\ rows[d].proxy = p
        /\ p.form = job[w].type /\ (phase = "up" => instances[d] # None)
    BY <2>1 DEF IInv, TypeOK, ApiOK, JobFits, UpsertJob, AloneInv, JobFine
  <2>3. \A i \in Ids \ {d} : instances'[i] = instances[i]
    BY <2>1, <2>2 DEF UpdateUpstream, IInv, TypeOK, ManagerOK
  <2>4. ASSUME phase = "up" PROVE instances'[d] # None /\ instances'[d].upstream = p
    <3>1. instances[d] \in Instance /\ job[w].type \in Types
      BY <2>2, <2>4 DEF IInv, TypeOK, ManagerOK, UpsertJob
    <3>2. Parses(p, instances[d].type)
      BY <2>2, <3>1 DEF Parses, Instance, RequestsAlone
    <3>3. instances' = [instances EXCEPT ![d] = [instances[d] EXCEPT !.upstream = p]]
      BY <2>1, <2>2, <2>4, <3>2 DEF UpdateUpstream
    <3>4. p \in Proxy
      BY <2>1, <2>2 DEF IInv, TypeOK, ApiOK, JobFits, UpsertJob
    <3>5. [instances[d] EXCEPT !.upstream = p] \in Instance
          /\ [instances[d] EXCEPT !.upstream = p].upstream = p
      BY <3>1, <3>4 DEF Instance
    <3> QED  BY <2>2, <3>3, <3>5 DEF IInv, TypeOK, ManagerOK
  <2>5. OthersServed'
    BY <2>1, <2>2, <2>3, <2>4, ServedSteps DEF Changes, Served, AloneInv, IInv
  <2> QED  BY <1>1, <1>2, <1>3, <1>4, <2>1, <2>5
<1>15. CASE LockDelete(w)
  <2> DEFINE d == job[w].id
  <2>1. /\ UNCHANGED <<rows, phase, job>> /\ mu = None /\ mu' = w /\ pc[w] = "delete"
        /\ pc'[w] = "delrow"
    BY <1>15 DEF LockDelete, LockFree, IInv, TypeOK, ApiOK
  <2>2. d \in Ids
    BY <2>1 DEF IInv, TypeOK, ApiOK, JobFits, DeleteJob
  <2>3. \A i \in Ids \ {d} : instances'[i] = instances[i]
    BY <1>15, <2>2 DEF LockDelete, IInv, TypeOK, ManagerOK
  <2>4. OthersServed'
    BY <2>1, <2>2, <2>3, ServedSteps DEF Changes, AloneInv, IInv
  <2>5. JobFine(w)'
    BY <2>1 DEF JobFine
  <2> QED  BY <1>1, <1>2, <2>1, <2>4, <2>5
<1>16. CASE DeleteTheRow(w)
  <2> DEFINE d == job[w].id
  <2>1. /\ UNCHANGED <<instances, phase>> /\ mu = w /\ pc[w] = "delrow" /\ Finish(w)
        /\ DeleteRow(d)
    BY <1>16 DEF DeleteTheRow, RequestsAlone, IInv, LockInv, Locked
  <2>2. d \in Ids /\ instances[d] = None
    BY <2>1 DEF IInv, TypeOK, ApiOK, JobFits, DeleteJob, HolderInv
  <2>3. rows'[d] = None /\ \A i \in Ids \ {d} : rows'[i] = rows[i]
    BY <2>1, <2>2 DEF DeleteRow, IInv, TypeOK, DbOK
  <2>4. OthersServed'
    BY <2>1, <2>2, <2>3, ServedSteps DEF Changes, Served, AloneInv, IInv
  <2>5. \A i \in Ids : RowFine(i)'
    BY <2>2, <2>3 DEF AloneInv, RowFine
  <2> QED  BY <1>1, <1>3, <1>4, <2>1, <2>4, <2>5
<1> QED
  BY <1>5, <1>6, <1>7, <1>8, <1>9, <1>10, <1>11, <1>12, <1>13, <1>14, <1>15, <1>16
  DEF Upsert, Delete

LEMMA AloneInvariance == ASSUME RequestsAlone PROVE Spec => []AloneInv
<1>1. ASSUME IInv, IInv', AloneInv, [Next]_vars PROVE AloneInv'
  <2>1. CASE UNCHANGED vars
    BY <1>1, <2>1 DEF vars, AloneInv, LoopRests, Cooling, OthersServed, Served, Changes,
       RowFine, JobFine
  <2>2. ASSUME NEW w \in Workers, ReceiveUpsert(w) \/ ReceiveDelete(w) \/ Upsert(w) \/ Delete(w)
        PROVE  AloneInv'
    <3>1. Cooling'
      BY <1>1, <2>2, AloneCooling
    <3>2. LoopRests'
      BY <1>1, <2>2 DEF AloneInv, LoopRests, Upsert, Delete, ReceiveUpsert, ReceiveDelete,
         LockUpsert, GetCurrent, GetNew, GetNewFails, InsertRow, StartInstance, Rollback,
         UpdateExisting, SwitchUpstream, LockDelete, DeleteTheRow, autoVars
    <3>3. LockInv'
      BY <1>1 DEF IInv
    <3> QED  BY <1>1, <2>2, <3>1, <3>2, <3>3, AloneRequest DEF AloneInv
  <2> QED  BY <1>1, <2>1, <2>2, AloneOthers DEF Next
<1> QED  BY <1>1, AloneStarts, Invariance, PTL DEF Spec

\* manager.go:34-194, 233-260: as long as there are only requests, and nothing fails that
\* parts the table from what runs, every row has its instance and every instance its
\* row's address whenever no request holds the lock.
THEOREM TableIsServed == ASSUME RequestsAlone PROVE Spec => []TableServed
<1>1. IInv /\ AloneInv => TableServed
  <2> SUFFICES ASSUME IInv, AloneInv, Quiet, NEW i \in Ids
               PROVE  /\ rows[i] # None => instances[i] # None
                      /\ instances[i] # None =>
                            rows[i] # None /\ instances[i].upstream = rows[i].proxy
    BY DEF TableServed, UpstreamIsRow, RowHasInstance
  <2>1. \A w \in Workers : ~Changes(w, i)
    BY NoneIsNothing DEF Quiet, IInv, LockInv, Changes, Locked
  <2>2. Served(i)
    BY <2>1 DEF Quiet, AloneInv, OthersServed
  <2> QED  BY <2>2 DEF Served
<1> QED  BY <1>1, Invariance, AloneInvariance, PTL
===============================================================================

---------------------------- MODULE ProxyManager ----------------------------
(***************************************************************************)
(* The forward-proxy server: the SQLite table `proxies`, the Manager that  *)
(* keeps one running proxy instance per row, the REST handlers that upsert *)
(* and delete proxies, the auto-reset loop, and main's start and shutdown  *)
(* (cmd/server/main.go, internal/proxymanager, internal/api/handlers,      *)
(* internal/proxyservices, internal/database).                             *)
(*                                                                         *)
(* API requests hold the Manager's lock `mu` for their whole length, HTTP  *)
(* calls included; the auto-reset loop takes it only to look an instance   *)
(* up.  One action is one call that another goroutine can observe: a       *)
(* statement of the database, a call of a proxy service, a change of the   *)
(* instances.                                                              *)
(***************************************************************************)
EXTENDS Integers

CONSTANTS
    Workers,    \* goroutines that serve API requests
    Keys,       \* api_key values
    Types,      \* service types that clients use
    Mins,       \* min_time_reset values that clients send
    Faults,     \* what may go wrong, see FaultKinds
    MaxId,      \* largest rowid: an INSERT beyond it fails (SQLITE_FULL)
    MaxPort,    \* largest TCP port
    MaxGen,     \* addresses a service hands out for a key, reused cyclically
    MaxClock,   \* bound on the clock
    Cooldown,   \* time between two resets that a service allows
    None        \* no row, no instance, no job

ServiceTypes == {"tmproxy", "kiotproxy"}

\* db: a statement fails.       listen: a port is taken.
\* service: a call fails.       lost: GetNewProxy took effect, the answer is lost.
\* malformed: an answer that parseProxyStr rejects.   crash: the process dies.
FaultKinds == {"db", "listen", "service", "lost", "malformed", "crash"}

Ids == 1..MaxId
Proxy == [form : ServiceTypes \cup {"malformed"}, gen : 1..MaxGen]
Row == [key : Keys, type : Types, min : Mins, proxy : Proxy, last : Int]
Instance == [type : Types, upstream : Proxy]
UpsertJob == [key : Keys, type : Types, min : Mins,
              id : {0} \cup Ids, proxy : Proxy \cup {None}, last : Int]
DeleteJob == [id : Ids]
DueRow == [id : Ids, key : Keys, type : Types]

ASSUME TypesAssumption == Types \subseteq ServiceTypes
ASSUME FaultsAssumption == Faults \subseteq FaultKinds
ASSUME MinsAssumption == Mins \subseteq Int
ASSUME BoundsAssumption == /\ MaxId \in Nat \ {0}
                           /\ MaxGen \in Nat \ {0}
                           /\ MaxPort \in Nat
                           /\ MaxClock \in Nat
                           /\ Cooldown \in Nat
ASSUME NoneAssumption == None \notin Row \cup Instance \cup Proxy \cup Workers \cup Keys
                                     \cup UpsertJob \cup DeleteJob

VARIABLES
    rows,       \* table proxies: id -> Row, or None when there is no such row
    nextId,     \* what AUTOINCREMENT gives next; never reused
    service,    \* the external services: type -> key -> [gen, readyAt]
    clock,      \* wall clock
    phase,      \* of main: down, up, stopping, draining, closing
    instances,  \* Manager.instances: id -> Instance or None; running and listening
    mu,         \* the worker that holds Manager.mu, or None
    pc, job,    \* of each worker
    apc,        \* of the auto-reset loop: off, idle, get, write, find, apply
    todo,       \* due rows of the current pass that it has still to reset
    checkedAt,  \* `now` of the current pass
    reset,      \* the reset in flight: [row, proxy], or None
    acked       \* history: ids whose DELETE was answered 204

dbVars == <<rows, nextId>>
apiVars == <<pc, job>>
autoVars == <<apc, todo, checkedAt, reset>>
vars == <<rows, nextId, service, clock, phase, instances, mu, pc, job,
          apc, todo, checkedAt, reset, acked>>

Init ==
    /\ rows = [i \in Ids |-> None]
    /\ nextId = 1
    /\ service = [t \in Types |-> [k \in Keys |-> [gen |-> 0, readyAt |-> 0]]]
    /\ clock = 0
    /\ phase = "down"
    /\ instances = [i \in Ids |-> None]
    /\ mu = None
    /\ pc = [w \in Workers |-> "idle"]
    /\ job = [w \in Workers |-> None]
    /\ apc = "off"
    /\ todo = {}
    /\ checkedAt = 0
    /\ reset = None
    /\ acked = {}

-----------------------------------------------------------------------------
(* Proxy services, instances and the table.                                *)

\* The address a service names as its gen-th for a key; 0 is "no proxy yet".
Answers(t, g) == {[form |-> t, gen |-> g]} \cup
    (IF "malformed" \in Faults THEN {[form |-> "malformed", gen |-> g]} ELSE {})

NextGen(t, k) == (service[t][k].gen % MaxGen) + 1
MayRotate(t, k) == clock >= service[t][k].readyAt

\* NextResetAfter of GetCurrentProxy: seconds until the next reset is allowed.
NextResetAfter(t, k) ==
    IF MayRotate(t, k) THEN 0 ELSE service[t][k].readyAt - clock

\* A slip: the wrong sign.
CalculatedLastAhead(t, k) == clock + NextResetAfter(t, k)

\* last_reset_at when GetCurrentProxy succeeded.
CalculatedLast(t, k) == clock - NextResetAfter(t, k)

Rotate(t, k) ==
    service' = [service EXCEPT ![t][k] =
                   [gen |-> NextGen(t, k), readyAt |-> clock + Cooldown]]

\* GetNewProxy(k) at the service of type t returns p.
NewProxy(t, k, p) ==
    /\ MayRotate(t, k)
    /\ p \in Answers(t, NextGen(t, k))
    /\ Rotate(t, k)

\* GetNewProxy(k) returns an error.
NewProxyFails(t, k) ==
    \/ /\ "service" \in Faults \/ ~MayRotate(t, k)
       /\ UNCHANGED service
    \/ /\ "lost" \in Faults
       /\ MayRotate(t, k)
       /\ Rotate(t, k)

\* parseProxyStr: each service type has its own number of fields.
Parses(p, t) == p.form = t

Port(id) == id + 10000

\* NewProxyInstance and Start succeed, provided the port can be had.
CanRun(id, p, t) == Parses(p, t) /\ Port(id) <= MaxPort

\* A slip: without AUTOINCREMENT, SQLite gives out one more than the largest
\* rowid in use.
FreshIdReused ==
    CHOOSE i \in 1..(MaxId + 1) :
        /\ \A n \in Ids : rows[n] # None => n < i
        /\ i = 1 \/ rows[i - 1] # None

\* AUTOINCREMENT.
FreshId == nextId

Insert(id, k, t, m, p, l) ==
    rows' = [rows EXCEPT ![id] =
                [key |-> k, type |-> t, min |-> m, proxy |-> p, last |-> l]]

\* UPDATE ... WHERE id = ? changes nothing when the row is gone.
UpdateRow(id, new) ==
    rows' = [rows EXCEPT ![id] = IF rows[id] = None THEN None ELSE new]

DeleteRow(id) == rows' = [rows EXCEPT ![id] = None]

\* UpdateUpstream keeps the old handler when the address does not parse, and
\* shows nobody anything when the instance was stopped in the meantime.
UpdateUpstream(id, p) ==
    instances' = IF instances[id] # None /\ Parses(p, instances[id].type)
                 THEN [instances EXCEPT ![id] = [instances[id] EXCEPT !.upstream = p]]
                 ELSE instances

-----------------------------------------------------------------------------
(* API requests.                                                           *)

Serving == phase \in {"up", "stopping", "draining"}

\* A slip: no lock.
LockFreeAlways == mu \in Workers \cup {None}

LockFree == mu = None

\* The deferred Unlock, and the answer to the client.
Finish(w) ==
    /\ mu' = None
    /\ pc' = [pc EXCEPT ![w] = "idle"]
    /\ job' = [job EXCEPT ![w] = None]

Goto(w, label) == pc' = [pc EXCEPT ![w] = label] /\ UNCHANGED mu

\* POST /api/proxies.  The bounds in the request's validate tag are not
\* enforced: any number is a legal min_time_reset.
ReceiveUpsert(w) ==
    /\ Serving
    /\ pc[w] = "idle"
    /\ \E k \in Keys, t \in Types, m \in Mins :
          job' = [job EXCEPT ![w] = [key |-> k, type |-> t, min |-> m,
                                     id |-> 0, proxy |-> None, last |-> 0]]
    /\ pc' = [pc EXCEPT ![w] = "upsert"]
    /\ UNCHANGED <<dbVars, service, clock, phase, instances, mu, autoVars, acked>>

\* UpsertProxy up to the branch: Lock, then SELECT id ... WHERE api_key = ?.
LockUpsert(w) ==
    /\ pc[w] = "upsert"
    /\ LockFree
    /\ \/ /\ \/ \E i \in Ids :
                  /\ rows[i] # None
                  /\ rows[i].key = job[w].key
                  /\ job' = [job EXCEPT ![w].id = i]
             \/ /\ \A i \in Ids : rows[i] # None => rows[i].key # job[w].key
                /\ UNCHANGED job
          /\ mu' = w
          /\ pc' = [pc EXCEPT ![w] = "getcur"]
       \/ /\ "db" \in Faults
          /\ Finish(w)
    /\ UNCHANGED <<dbVars, service, clock, phase, instances, autoVars, acked>>

\* service.GetCurrentProxy, and the time.Now() after it.
GetCurrent(w) ==
    LET j == job[w]
        s == service[j.type][j.key]
    IN  /\ pc[w] = "getcur"
        /\ \/ /\ s.gen # 0
              /\ \E p \in Answers(j.type, s.gen) :
                    job' = [job EXCEPT ![w] = [j EXCEPT
                        !.proxy = p, !.last = CalculatedLast(j.type, j.key)]]
              /\ Goto(w, "write")
           \/ /\ "service" \in Faults \/ s.gen = 0
              /\ job' = [job EXCEPT ![w] = [j EXCEPT !.last = clock]]
              /\ Goto(w, "getnew")
        /\ UNCHANGED <<dbVars, service, clock, phase, instances, autoVars, acked>>

\* The fallback, service.GetNewProxy.
GetNew(w) ==
    /\ pc[w] = "getnew"
    /\ \E p \in Proxy :
          /\ NewProxy(job[w].type, job[w].key, p)
          /\ job' = [job EXCEPT ![w] = [job[w] EXCEPT !.proxy = p]]
    /\ Goto(w, "write")
    /\ UNCHANGED <<dbVars, clock, phase, instances, autoVars, acked>>

\* Slips: the error is not looked at; the early return does not unlock.
GetNewFailsUnchecked(w) ==
    /\ pc[w] = "getnew"
    /\ NewProxyFails(job[w].type, job[w].key)
    /\ Goto(w, "write")
    /\ UNCHANGED <<job, dbVars, clock, phase, instances, autoVars, acked>>

GetNewFailsLocked(w) ==
    /\ pc[w] = "getnew"
    /\ NewProxyFails(job[w].type, job[w].key)
    /\ pc' = [pc EXCEPT ![w] = "idle"]
    /\ job' = [job EXCEPT ![w] = None]
    /\ UNCHANGED <<mu, dbVars, clock, phase, instances, autoVars, acked>>

GetNewFails(w) ==
    /\ pc[w] = "getnew"
    /\ NewProxyFails(job[w].type, job[w].key)
    /\ Finish(w)
    /\ UNCHANGED <<dbVars, clock, phase, instances, autoVars, acked>>

\* INSERT INTO proxies.
InsertRow(w) ==
    LET j == job[w]
    IN  /\ pc[w] = "write"
        /\ j.id = 0
        /\ \/ /\ FreshId <= MaxId
              /\ Insert(FreshId, j.key, j.type, j.min, j.proxy, j.last)
              /\ nextId' = FreshId + 1
              /\ job' = [job EXCEPT ![w] = [j EXCEPT !.id = FreshId]]
              /\ Goto(w, "start")
           \/ /\ "db" \in Faults \/ FreshId > MaxId
              /\ Finish(w)
              /\ UNCHANGED dbVars
        /\ UNCHANGED <<service, clock, phase, instances, autoVars, acked>>

\* NewProxyInstance, Start and the entry in the map.
StartInstance(w) ==
    LET j == job[w]
    IN  /\ pc[w] = "start"
        /\ \/ /\ CanRun(j.id, j.proxy, j.type)
              /\ instances' = [instances EXCEPT ![j.id] =
                                  [type |-> j.type, upstream |-> j.proxy]]
              /\ Finish(w)
           \/ /\ "listen" \in Faults \/ ~CanRun(j.id, j.proxy, j.type)
              /\ Goto(w, "rollback")
              /\ UNCHANGED <<job, instances>>
        /\ UNCHANGED <<dbVars, service, clock, phase, autoVars, acked>>

\* The compensating DELETE, whose error is ignored.
Rollback(w) ==
    /\ pc[w] = "rollback"
    /\ \/ DeleteRow(job[w].id)
       \/ "db" \in Faults /\ UNCHANGED rows
    /\ Finish(w)
    /\ UNCHANGED <<nextId, service, clock, phase, instances, autoVars, acked>>

\* UPDATE proxies SET proxy_str, min_time_reset, last_reset_at.  The row keeps
\* its service_type, whatever type the request named.
UpdateExisting(w) ==
    LET j == job[w]
    IN  /\ pc[w] = "write"
        /\ j.id # 0
        /\ \/ /\ UpdateRow(j.id, [rows[j.id] EXCEPT
                     !.min = j.min, !.proxy = j.proxy, !.last = j.last])
              /\ Goto(w, "upstream")
              /\ UNCHANGED job
           \/ /\ "db" \in Faults
              /\ Finish(w)
              /\ UNCHANGED rows
        /\ UNCHANGED <<nextId, service, clock, phase, instances, autoVars, acked>>

\* A slip: the running instance is left as it is.
SwitchUpstreamForgotten(w) ==
    /\ pc[w] = "upstream"
    /\ Finish(w)
    /\ UNCHANGED <<dbVars, service, clock, phase, instances, autoVars, acked>>

\* instance.UpdateUpstream, if there is an instance; the read-back that follows
\* changes nothing.
SwitchUpstream(w) ==
    /\ pc[w] = "upstream"
    /\ UpdateUpstream(job[w].id, job[w].proxy)
    /\ Finish(w)
    /\ UNCHANGED <<dbVars, service, clock, phase, autoVars, acked>>

\* DELETE /api/proxies/:id.
ReceiveDelete(w) ==
    /\ Serving
    /\ pc[w] = "idle"
    /\ \E i \in Ids : job' = [job EXCEPT ![w] = [id |-> i]]
    /\ pc' = [pc EXCEPT ![w] = "delete"]
    /\ UNCHANGED <<dbVars, service, clock, phase, instances, mu, autoVars, acked>>

\* A slip: the instance goes on.
LockDeleteOnly(w) ==
    /\ pc[w] = "delete"
    /\ LockFree
    /\ mu' = w
    /\ pc' = [pc EXCEPT ![w] = "delrow"]
    /\ UNCHANGED <<instances, dbVars, service, clock, phase, job, autoVars, acked>>

\* DeleteProxy: Lock, stop the instance and forget it.
LockDelete(w) ==
    /\ pc[w] = "delete"
    /\ LockFree
    /\ mu' = w
    /\ pc' = [pc EXCEPT ![w] = "delrow"]
    /\ instances' = [instances EXCEPT ![job[w].id] = None]
    /\ UNCHANGED <<dbVars, service, clock, phase, job, autoVars, acked>>

\* DELETE FROM proxies.  It succeeds as well when there is no such row, so an
\* id that is still to be given out may be acknowledged: only ids that were
\* given out enter the history.
DeleteTheRow(w) ==
    LET i == job[w].id
    IN  /\ pc[w] = "delrow"
        /\ \/ /\ DeleteRow(i)
              /\ acked' = IF i < nextId THEN acked \cup {i} ELSE acked
           \/ /\ "db" \in Faults
              /\ UNCHANGED <<rows, acked>>
        /\ Finish(w)
        /\ UNCHANGED <<nextId, service, clock, phase, instances, autoVars>>

-----------------------------------------------------------------------------
(* The auto-reset loop.                                                    *)

\* A slip: off by one.
DueAfter(row, now) == now - row.last > row.min

\* Decided from the snapshot of the row and the pass's own `now`.
Due(row, now) == now - row.last >= row.min

\* A tick: read all rows, then time.Now().  A pass may begin after the loop's
\* context was cancelled, since select picks at random among ready cases.
AutoTick ==
    /\ apc = "idle"
    /\ \E i \in Ids : rows[i] # None /\ Due(rows[i], clock)
    /\ todo' = {[id |-> i, key |-> rows[i].key, type |-> rows[i].type] :
                   i \in {n \in Ids : rows[n] # None /\ Due(rows[n], clock)}}
    /\ checkedAt' = clock
    /\ apc' = "get"
    /\ UNCHANGED <<dbVars, service, clock, phase, instances, mu, apiVars, reset, acked>>

\* The reset of r is over, for better or worse.
AutoNext(r) ==
    /\ todo' = todo \ {r}
    /\ apc' = IF todo = {r} THEN "idle" ELSE "get"
    /\ reset' = None

\* resetProxy of a due row: GetNewProxy at the service of the row's type.
AutoGetNew(r) ==
    /\ apc = "get"
    /\ \E p \in Proxy :
          /\ NewProxy(r.type, r.key, p)
          /\ reset' = [row |-> r, proxy |-> p]
    /\ apc' = "write"
    /\ UNCHANGED <<dbVars, clock, phase, instances, mu, apiVars, todo, checkedAt, acked>>

AutoGetNewFails(r) ==
    /\ apc = "get"
    /\ NewProxyFails(r.type, r.key)
    /\ AutoNext(r)
    /\ UNCHANGED <<dbVars, clock, phase, instances, mu, apiVars, checkedAt, acked>>

\* UPDATE proxies SET proxy_str, last_reset_at = now of the pass.
AutoWrite ==
    /\ apc = "write"
    /\ LET i == reset.row.id
       IN  \/ /\ UpdateRow(i, [rows[i] EXCEPT !.proxy = reset.proxy, !.last = checkedAt])
              /\ apc' = "find"
              /\ UNCHANGED <<todo, reset>>
           \/ /\ "db" \in Faults
              /\ AutoNext(reset.row)
              /\ UNCHANGED rows
    /\ UNCHANGED <<nextId, service, clock, phase, instances, mu, apiVars, checkedAt, acked>>

\* UpdateInstance: look the instance up under the read lock.
AutoFind ==
    /\ apc = "find"
    /\ LockFree
    /\ IF instances[reset.row.id] # None
       THEN apc' = "apply" /\ UNCHANGED <<todo, reset>>
       ELSE AutoNext(reset.row)
    /\ UNCHANGED <<dbVars, service, clock, phase, instances, mu, apiVars, checkedAt, acked>>

\* UpdateInstance: switch the instance found, the lock released.
AutoApply ==
    /\ apc = "apply"
    /\ UpdateUpstream(reset.row.id, reset.proxy)
    /\ AutoNext(reset.row)
    /\ UNCHANGED <<dbVars, service, clock, phase, mu, apiVars, checkedAt, acked>>

\* The loop sees that its context was cancelled.
AutoStop ==
    /\ apc = "idle"
    /\ phase \in {"stopping", "draining", "closing"}
    /\ apc' = "off"
    /\ UNCHANGED <<dbVars, service, clock, phase, instances, mu, apiVars,
                   todo, checkedAt, reset, acked>>

-----------------------------------------------------------------------------
(* main.                                                                   *)

\* StartAll, before the loop and the API server exist: an instance for every
\* row that can run.  Rows that cannot are skipped.
Boot ==
    /\ phase = "down"
    /\ \E taken \in (IF "listen" \in Faults THEN SUBSET Ids ELSE {{}}) :
          instances' = [i \in Ids |->
              IF rows[i] # None /\ CanRun(i, rows[i].proxy, rows[i].type) /\ i \notin taken
              THEN [type |-> rows[i].type, upstream |-> rows[i].proxy]
              ELSE None]
    /\ phase' = "up"
    /\ apc' = "idle"
    /\ UNCHANGED <<dbVars, service, clock, mu, apiVars, todo, checkedAt, reset, acked>>

\* SIGTERM: main cancels the loop's context and does not wait for it.
Signal ==
    /\ phase = "up"
    /\ phase' = "stopping"
    /\ UNCHANGED <<dbVars, service, clock, instances, mu, apiVars, autoVars, acked>>

\* StopAll under the lock.
StopAll ==
    /\ phase = "stopping"
    /\ LockFree
    /\ instances' = [i \in Ids |-> None]
    /\ phase' = "draining"
    /\ UNCHANGED <<dbVars, service, clock, mu, apiVars, autoVars, acked>>

\* router.Shutdown: no new requests; those under way go on.
ShutdownApi ==
    /\ phase = "draining"
    /\ phase' = "closing"
    /\ UNCHANGED <<dbVars, service, clock, instances, mu, apiVars, autoVars, acked>>

\* The process is gone, and with it all that is not in the database.
Die ==
    /\ phase' = "down"
    /\ instances' = [i \in Ids |-> None]
    /\ mu' = None
    /\ pc' = [w \in Workers |-> "idle"]
    /\ job' = [w \in Workers |-> None]
    /\ apc' = "off"
    /\ todo' = {}
    /\ reset' = None
    /\ UNCHANGED <<dbVars, service, clock, checkedAt, acked>>

\* Shutdown returned: all requests answered, or its ten seconds over.
Exit == phase = "closing" /\ Die

Crash == phase # "down" /\ "crash" \in Faults /\ Die

Tick ==
    /\ clock < MaxClock
    /\ clock' = clock + 1
    /\ UNCHANGED <<dbVars, service, phase, instances, mu, apiVars, autoVars, acked>>

-----------------------------------------------------------------------------
Upsert(w) == \/ LockUpsert(w) \/ GetCurrent(w) \/ GetNew(w) \/ GetNewFails(w)
             \/ InsertRow(w) \/ StartInstance(w) \/ Rollback(w)
             \/ UpdateExisting(w) \/ SwitchUpstream(w)
Delete(w) == LockDelete(w) \/ DeleteTheRow(w)
AutoReset == \/ AutoTick \/ AutoWrite \/ AutoFind \/ AutoApply \/ AutoStop
             \/ \E r \in todo : AutoGetNew(r) \/ AutoGetNewFails(r)
Main == \/ Boot \/ Signal \/ StopAll \/ ShutdownApi \/ Exit \/ Crash

Next ==
    \/ \E w \in Workers : ReceiveUpsert(w) \/ ReceiveDelete(w) \/ Upsert(w) \/ Delete(w)
    \/ AutoReset
    \/ Main
    \/ Tick

Spec == Init /\ [][Next]_vars

\* Every goroutine goes on, HTTP calls end (after 30 seconds at the latest), and
\* a mutex is not withheld forever from one who waits for it.
LiveSpec ==
    /\ Spec
    /\ \A w \in Workers :
          /\ WF_vars(Upsert(w)) /\ WF_vars(Delete(w))
          /\ SF_vars(LockUpsert(w)) /\ SF_vars(LockDelete(w))
    /\ WF_vars(AutoReset) /\ SF_vars(AutoFind)
    /\ SF_vars(StopAll) /\ WF_vars(ShutdownApi) /\ WF_vars(Exit)
=============================================================================

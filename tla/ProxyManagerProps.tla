-------------------------- MODULE ProxyManagerProps --------------------------
(***************************************************************************)
(* What must be true of the server modelled in ProxyManager.               *)
(***************************************************************************)
EXTENDS ProxyManager

\* Labels at which a worker is inside Manager.mu.
Locked == {"getcur", "getnew", "write", "start", "rollback", "upstream", "delrow"}

Labels == Locked \cup {"idle", "upsert", "delete"}

\* What a worker at a label knows of its request.
JobFits(label, j) ==
    /\ label = "idle" => j = None
    /\ label \in {"delete", "delrow"} => j \in DeleteJob
    /\ label \notin {"idle", "delete", "delrow"} => j \in UpsertJob
    /\ label \in {"write", "start", "rollback", "upstream"} => j.proxy # None
    /\ label \in {"start", "rollback", "upstream"} => j.id # 0

DbOK == /\ rows \in [Ids -> Row \cup {None}]
        /\ nextId \in 1..(MaxId + 1)
        /\ acked \subseteq Ids

WorldOK == /\ service \in [Types -> [Keys -> [gen : 0..MaxGen, readyAt : Int]]]
           /\ clock \in 0..MaxClock
           /\ phase \in {"down", "up", "stopping", "draining", "closing"}

ManagerOK == /\ instances \in [Ids -> Instance \cup {None}]
             /\ mu \in Workers \cup {None}

ApiOK == /\ pc \in [Workers -> Labels]
         /\ job \in [Workers -> UpsertJob \cup DeleteJob \cup {None}]
         /\ \A w \in Workers : JobFits(pc[w], job[w])

AutoOK == /\ apc \in {"off", "idle", "get", "write", "find", "apply"}
          /\ todo \subseteq DueRow
          /\ checkedAt \in 0..MaxClock
          /\ apc \in {"write", "find", "apply"} =>
                reset \in [row : DueRow, proxy : Proxy]
          /\ apc \notin {"write", "find", "apply"} => reset = None
          /\ phase = "down" => apc = "off"

\* The type invariant, which also says what each local state comes with: a
\* request that is about to write has an address, one that is about to start an
\* instance has a row.
TypeOK == DbOK /\ WorldOK /\ ManagerOK /\ ApiOK /\ AutoOK

-----------------------------------------------------------------------------
(* Safety.                                                                 *)

\* A client's key has at most one row.  The schema does not say so (api_key is
\* not UNIQUE): it rests on the lock held from the SELECT to the INSERT.
UniqueKeys ==
    \A i, j \in Ids :
        rows[i] # None /\ rows[j] # None /\ rows[i].key = rows[j].key => i = j

\* Nothing listens on behalf of a row that does not exist, or with the format
\* of another service: a delete stops first and deletes second, an insert the
\* other way round, whatever fails and wherever the process dies.
InstanceHasRow ==
    \A i \in Ids : instances[i] # None =>
        rows[i] # None /\ rows[i].type = instances[i].type

\* A delete that was acknowledged is final: no reset under way, no retry, no
\* restart and no later insert brings the id back.
AckedGone ==
    \A i \in acked : rows[i] = None /\ instances[i] = None /\ i < nextId

\* last_reset_at is never ahead of the clock, in the table or on its way there,
\* so that no row waits for its reset longer than its min_time_reset.
LastNotInFuture ==
    /\ \A i \in Ids : rows[i] # None => rows[i].last <= clock
    /\ \A w \in Workers : pc[w] = "write" => job[w].last <= clock

\* No request holds the lock, no reset is between its call and its last write.
Quiet == phase = "up" /\ mu = None /\ reset = None

\* main.go:50, "Start all existing proxies": a row is served.
RowHasInstance ==
    Quiet => \A i \in Ids : rows[i] # None => instances[i] # None

\* README, Auto-Reset: the table and the running instance are changed together,
\* so between changes an instance forwards to the address in its row.
UpstreamIsRow ==
    Quiet => \A i \in Ids : instances[i] # None =>
                rows[i] # None /\ instances[i].upstream = rows[i].proxy

\* The table and what runs agree, while no row is due.
TableServed == UpstreamIsRow /\ RowHasInstance

-----------------------------------------------------------------------------
(* Why the safety properties hold: an inductive strengthening of them.     *)

\* The labels inside the lock are those of its holder; a dead process has none.
LockInv == /\ \A w \in Workers : pc[w] \in Locked <=> mu = w
           /\ phase = "down" => \A w \in Workers : pc[w] = "idle"

\* What the holder of the lock has established, and what stays so while it
\* calls the service: its key has no row; its new row has no instance yet; the
\* row it is about to delete has no instance any more.
HolderInv ==
    \A w \in Workers :
        /\ pc[w] \in {"getcur", "getnew", "write"} /\ job[w].id = 0 =>
              \A i \in Ids : rows[i] # None => rows[i].key # job[w].key
        /\ pc[w] = "start" =>
              rows[job[w].id] # None /\ rows[job[w].id].type = job[w].type
        /\ pc[w] \in {"start", "rollback", "delrow"} => instances[job[w].id] = None

FreshInv == \A i \in Ids : i >= nextId => rows[i] = None

\* The times on their way to the table.
ClockInv == /\ checkedAt <= clock
            /\ \A w \in Workers : pc[w] \in {"getnew", "write"} => job[w].last <= clock
            /\ \A i \in Ids : rows[i] # None => rows[i].last <= clock

IInv == /\ TypeOK /\ LockInv /\ HolderInv /\ FreshInv
        /\ UniqueKeys /\ InstanceHasRow /\ AckedGone
        /\ ClockInv

-----------------------------------------------------------------------------
(* Why the table is served as long as there are only requests.             *)

\* The loop has nothing to do, since the clock does not get as far as the
\* smallest interval; one service is in use; and of what may fail, nothing leaves
\* the table and the instances apart: the database and the listeners work,
\* addresses can be read, and every id has a port.
RequestsAlone == /\ Faults \cap {"db", "listen", "malformed"} = {}
                 /\ \A s, t \in Types : s = t
                 /\ \A m \in Mins : m > MaxClock + Cooldown
                 /\ Port(MaxId) <= MaxPort

LoopRests == apc \in {"off", "idle"} /\ todo = {} /\ reset = None

\* No time in the table, or on its way there, is further back than a cooldown.
Cooling == \A t \in Types, k \in Keys : service[t][k].readyAt <= clock + Cooldown
RowFine(i) ==
    rows[i] # None => rows[i].last >= 0 - Cooldown /\ rows[i].proxy.form = rows[i].type

\* What a request has established inside the lock: its row is there, and has its
\* address once it was written; nothing has to be rolled back.
JobFine(w) ==
    /\ pc[w] # "rollback"
    /\ pc[w] = "upsert" => job[w].id = 0
    /\ pc[w] \in {"getnew", "write"} => job[w].last >= 0 - Cooldown
    /\ pc[w] \in {"write", "start", "upstream"} => job[w].proxy.form = job[w].type
    /\ pc[w] \in {"getcur", "getnew", "write"} /\ job[w].id # 0 => rows[job[w].id] # None
    /\ pc[w] \in {"start", "upstream"} =>
          rows[job[w].id] # None /\ rows[job[w].id].proxy = job[w].proxy
    /\ pc[w] = "upstream" /\ phase = "up" => instances[job[w].id] # None

\* The row and the instance of an id agree, but for the one that the holder of
\* the lock is about to change.
Served(i) == IF rows[i] = None THEN instances[i] = None
             ELSE instances[i] # None /\ instances[i].upstream = rows[i].proxy
Changes(w, i) == pc[w] \in {"start", "upstream", "delrow"} /\ job[w].id = i
OthersServed ==
    phase = "up" => \A i \in Ids : Served(i) \/ \E w \in Workers : Changes(w, i)

AloneInv == /\ LoopRests /\ Cooling /\ OthersServed
            /\ \A i \in Ids : RowFine(i)
            /\ \A w \in Workers : JobFine(w)

-----------------------------------------------------------------------------
(* What a step may never do.                                               *)

\* manager.go:78, "This ensures auto-reset will run at the right time": when
\* clients ask for no less than the service's own interval, the loop does not
\* ask the service for a reset that the service still refuses.
ResetAtTheRightTime ==
    [][\A r \in todo : AutoGetNewFails(r) => MayRotate(r.type, r.key)]_vars

\* The table, seen as a registry of keys, does what Registry promises: a step
\* that adds a row gives a key without one a fresh id, and no other step, of a
\* request or of the loop, moves a key from one id to another.
KeyOf == [i \in Ids |-> IF rows[i] = None THEN None ELSE rows[i].key]
Registered == INSTANCE Registry WITH keyOf <- KeyOf

ImplementsRegistry == Registered!Spec

-----------------------------------------------------------------------------
(* Liveness.                                                               *)

\* Every request is answered, unless the process dies first.
RequestsAnswered == \A w \in Workers : pc[w] # "idle" ~> pc[w] = "idle"

\* A signal ends the process, however many requests queue for the lock.
ShutdownEnds == phase = "stopping" ~> phase = "down"

\* A pass of the loop ends.
PassEnds == apc = "get" ~> apc \in {"idle", "off"}

\* manager.go:35: nobody queues for the lock for ever, although it is held across calls
\* of the service that may fail.
NobodyStuck == RequestsAnswered /\ ShutdownEnds /\ PassEnds

\* When the clients leave the server alone, and the database and the services do
\* what the loop asks of them often enough, the loop repairs every difference
\* between an instance, its row and the service that a race left behind.
Agree == \A i \in Ids : instances[i] # None =>
            /\ rows[i] # None
            /\ instances[i].upstream = rows[i].proxy
            /\ rows[i].proxy.gen = service[rows[i].type][rows[i].key].gen
LeftAlone == phase = "up" /\ \A w \in Workers : pc[w] = "idle"
Helpful == /\ \A i \in Ids : SF_vars(\E r \in todo : r.id = i /\ AutoGetNew(r))
           /\ SF_vars(AutoWrite /\ apc' = "find")
Repaired == Helpful /\ <>[]LeftAlone => []<>Agree
=============================================================================

# Verification of go-forward-proxy

A server that keeps one local HTTP forward proxy per client key. Clients POST an
`api_key`; the server asks an external proxy service for that key's current
upstream address, stores it in SQLite and runs a proxy instance on port
`id + 10000` that forwards to it. A background loop asks the service for a new
address when a row's `min_time_reset` has passed. The forwarding itself is the
`pkg/dumbproxy` engine.

## Inventory

| Part | State | Operations | What makes it correct |
|---|---|---|---|
| Proxy manager (`internal/proxymanager/manager.go`) | `instances` map, `mu` | `UpsertProxy`, `DeleteProxy`, `StartAll`, `StopAll`, `UpdateInstance` | a key has one row; an instance has a row; a delete is final; a failed step leaves nothing behind |
| Auto-reset loop (`autoreset.go`) | ticker, context | `checkAndResetProxies`, `resetProxy` | rows are reset when due; a pass ends; row and instance agree again |
| Proxy instance (`instance.go`) | upstream, HTTP server, listener | `NewProxyInstance`, `Start`, `Stop`, `UpdateUpstream` | forwards to the address in its row |
| REST API (`internal/api`) | none | POST, DELETE, GET export | every request is answered |
| Proxy services (`internal/proxyservices`) | external: current address, next reset | `GetCurrentProxy`, `GetNewProxy` | `NextResetAfter` leads to a reset at the right time |
| Database (`internal/database`) | table `proxies` | four statements | ids are never reused |
| main (`cmd/server/main.go`) | context, signal | start, shutdown | nothing runs after StopAll; a signal ends the process |
| Rate limiter (`pkg/dumbproxy/rate`) | tokens, last, lastEvent | `reserveN`, `CancelAt`, `SetLimitAt`, `SetBurstAt` | never more than burst + rate * time |
| Stream forwarding (`forward`) | two copiers, limiters per group | `PairConnections`, `BWLimit`, `BodyOnly` | both directions end, in order; one limiter per group while used |
| Handlers (`handler`) | `outbound` addresses | `HandleTunnel`, `HandleRequest`, SOCKS | loops are recognised, nothing else is; a part is not taken for the whole |
| HTTP/2 pool (`dialer/h2_client_conn_pool.go`, `h2.go`) | conns, dialing, keys | `getClientConn`, `dial`, `MarkDead`, `DialContext` | one dial per address; no connection is lost; no lost wake-up |
| Upstream dialers (`dialer`) | connection, guard goroutine, hints | CONNECT, optimistic CONNECT, legacy wrap, bound dial | a connection is returned or closed, never both or neither; it leaves by the address asked for |
| Command dialer (`dialer/command.go`, `pipewrap.go`) | process, two pipes | `DialContext`, `Read`, `Close` | the end of the context frees everything |
| Names (`dialer/rescache.go`, `resolver`) | items with expiry, shared lookups | `DialContext`, `LookupNetIP` | no answer older than promised; nobody waits for ever |
| Scripts (`access`, `dialer/jsrouter.go`, `forward/jslimit.go`) | pools of interpreters | call | an interpreter serves one call at a time; only what was let through is dialled |
| Authentication (`auth`) | files and their time, providers in a chain | `reload`, `Validate`, `Valid` | the newest file that was seen is used; one answer; both ways in agree |
| Certificate cache (`certcache`) | items with expiry, shared reads | `Get`, `Put`, `Delete` | no stale answer for longer than the TTL and the time an answer of the store takes |
| Log writer (`log`) | queue | `Write`, `Close` | Close flushes what was accepted |
| dumbproxy program (`main.go`) | listener, signal, deferred closes | `run` in three listening modes | a signal ends it, after the handlers; requests have their grace period (they have not: `grace` below) |

How they interact: the API handlers call the manager directly, in the goroutines of
Echo's HTTP server; the loop is one goroutine that reads the table itself, writes it
itself, and enters the manager only through `UpdateInstance`. So the manager's
`mu` serialises the requests with each other and nothing serialises them with the
loop. `mu` is held across two HTTP calls of up to 30 seconds each. The database
is a pool of connections to one SQLite file in WAL mode: a statement is atomic and may fail, and
no two of them are in one transaction.

What is hard: check-then-insert without a UNIQUE constraint; a row and an
instance that two parties write in two steps each; compensation after a failed
start; a crash between any two steps; services that refuse, lose an answer or
answer something that does not parse; the order of shutdown. In the engine: calls
that are shared (a dial, a lookup, a read of the store) and end for reasons of only one
of those who share them; a context that ends when the result is there; what is
cached, against what has changed meanwhile; two copies that end in either order.
`PROJECT.json` lists each hazard at its line, with the properties that watch it.

## The modules

### The server: ProxyManager, ProxyManagerProps, MCProxyManager, Registry

One module, because the manager, the loop, the handlers and main share the table
and the instances.

| Variable | Code |
|---|---|
| `rows`, `nextId` | table `proxies` and its AUTOINCREMENT counter (`connection.go`) |
| `service`, `clock` | the external proxy services, per type and key, and the wall clock |
| `phase` | how far `main` is: down, up, stopping (signal received), draining (StopAll done), closing (Shutdown called) |
| `instances` | `Manager.instances`: type and upstream of what runs and listens |
| `mu` | who holds `Manager.mu` for writing; `AutoFind`'s read lock is one step |
| `pc`, `job` | a request: where it is in `UpsertProxy` or `DeleteProxy` and what it has learned so far |
| `apc`, `todo`, `checkedAt`, `reset` | the loop: the due rows it has left, `now` of the pass, the reset in flight |
| `acked` | history: the ids whose DELETE was answered 204 |

An action is one call that another goroutine can see the effect of. `UpsertProxy`
is `LockUpsert` (lock and SELECT), `GetCurrent`, then `GetNew` or `GetNewFails`, then
either `InsertRow`, `StartInstance`, `Rollback` or `UpdateExisting`, `SwitchUpstream`.
`DeleteProxy` is `LockDelete` (lock, stop, forget) and `DeleteTheRow`. The loop is
`AutoTick` (snapshot), then for each due row `AutoGetNew` or `AutoGetNewFails`,
`AutoWrite`, `AutoFind`, `AutoApply`. main is `Boot`, `Signal`, `StopAll`,
`ShutdownApi`, `Exit`; `Crash` may come anywhere and takes all but the table. `Faults`
says what may fail in a run. An address is its format and its number in the
service's sequence; `parseProxyStr` is the test whether the format is the type's.

`Registry` is the abstract specification of identity, over `keyOf` (id to key) and
`nextId`: an unregistered key gets a fresh id, an id is given up, and nothing else.
`ImplementsRegistry` is that specification under the mapping `keyOf[i] = rows[i].key`.

### The limiter: TokenBucket, RateLimiter

`TokenBucket` is the arithmetic of `rate.go`, `RateLimiter` the goroutines that read
the clock (`Call`), get the mutex later (`Reserve`), and then wait (`Go`) or cancel
(`GiveUp`, `Cancel`). Tokens are counted in the time one takes to come, which makes
all conversions exact: rounding of the code's floats is not modelled. Times wrap at
`MaxInt` as int64 nanoseconds do.

### What goes out: MCOutgoing

`MCOutgoing` looks at seven components, `MCStreams` and `MCServing` below at three and nine. The components share no state in the code either (each is an object of its own,
called by one above it), so what they reach side by side is the product of what each
reaches alone. A variable `under` names the one that moves; the others rest in an
initial state. Where a module states fairness, the MC module states it again for
the component that is looked at.

- `UpstreamDial`: `HTTPProxyDialer.DialContext` and its guard. `pc`, `conn`, `stop` and `guardErr`
  are the dial's place, the connection, `stopGuardEvent` and the channel; `guard` is the
  goroutine. The upstream (`peer`) and the context (`cancelled`) do what they like. The response
  is a sequence of bytes of which only "the end" and "behind the end" are told apart.
- `H2Pool`: streams (`stage`, `link`, `awaits`, with the end of each one's context in `ended`) and the
  calls of `dial` (`call`), which live as long as somebody knows them. `pool`, `keys` and
  `dialing` are the fields of `clientConnPool`; `life` is what became of a connection. `GetClientConn`
  is the loop of `getClientConn` under the pool's lock, `ShouldRetryDial` the decision
  of a waiter whose dial failed, `Prepare` the fetching of random bytes (for as long as
  the starter's context lasts), `EndDial` and
  `CloseDone` the two ends of the dialling goroutine. `ClientConn` is a library: it can be
  reserved while it is up and has a stream to spare.
- `Selection`: the loops that keep part of a list (`filterOutClientConn`, `parseIPList`), used by
  `H2Pool` and `BoundDial`.
- `OptimisticConn`: `wState` and `rState` are the two Once guards with their errors; the first write
  may be torn, the first read takes the answer off the stream.
- `WrappedDial`: the goroutine of the legacy dial (`dialStep`) and its caller (`waitStep`) write the
  shared `conn` and `err` without a lock, one variable at a time, in either order: the outcomes
  the race may have.
- `CommandConn`: the command, its two pipes, a reader, the goroutine in `cmd.Wait` and the Once of
  `PipeConn`.
- `NameCache`: `rescache.go` over `fast.go`, one host. `entry` and `left` are the cached item, `flight`
  is the shared lookup with its timeout and its race of resolvers (`asked`), `lingering` the
  losers. Answers carry their age, so that staleness is a property of a state.
- `ScriptedDial`: pools of interpreters for access, route and limit are filled one after
  the other; a request asks `WantsHostname`, then for each address (`toTry`) the filter and the
  router, and after the dial the limit. The router may leave a name that it asked for to the
  system after all (`through`): `Destinations` says where such a dial may end. `free` and `using` are the channel and the hands; every
  script may throw. The limit's pool has one interpreter whatever its flag says (see below).
- `BoundDial` (explored by `MCServing`): the source addresses of a connection: from the option, the
  request or a `set-src-hints` dialer; `Expand` is `parseHints`, `TrySource` the loop over
  the sources that fit the network.

### Streams under way: MCStreams

- `Tunnel`: `HandleTunnel` (`pc`) and the goroutines of `PairConnections`, one per direction
  (`copier`), for a client of either HTTP version (`version`). `early` are the bytes that
  net/http had buffered when the connection was hijacked, `pending` the answer that
  `pendingWriteConn` puts in front of the first data. Closing for writing alone
  (`HasCloseWrite`) is what a TCP connection offers and a wrapped one does not.
- `PlainRequest`: `HandleRequest` with the goroutine that copies the body into a pipe (`flow`, `pipe`),
  `RoundTrip` (`trip`) and the relay of the answer (`plain`). net/http's server and transport are
  modelled by what they promise: a body with an announced length is known to be cut off, one
  without ends where the writer closes. `PassLength` is what the client hears of a length: none
  when the transport has decompressed the answer (`unzips`). `StopRequest` is the signal, which ends
  the request's context.
- `Shutdown`: `run` of the dumbproxy program in the modes http, socks and forward: the accept loop
  (`serving`), the goroutine of the signal (`watcher`), the connections (`visit`), the deferred
  closes (`toClose`) and the exit code. The signal ends the contexts of what is under way
  (`ContextEnds`): an aborted request has a handler that still has to return.

### What is kept while serving: MCServing

- `Loopback`: requests, the local addresses of their outgoing connections, and a system that gives
  an address to whoever is next as soon as its connection is closed, also before the handler has
  removed its entry; `shared` remembers who got such a one. `Kind` is "http" (`handler.go`) or "socks"
  (`socks.go`): they differ in the key they delete.
- `BWLimit`: `getRatelimiters` and the copy under a limit. A flow holds the read lock of its `item`;
  `cache` maps a group to its item; `Pair` inserts, and the cache then drops items that nobody
  holds and whose buckets are full (`Droppable`). `account` is what a group's buckets
  would be if nothing were dropped. A bucket here is a number that fills: its arithmetic is
  `RateLimiter`'s.
- `AuthChain`: providers in a row with `else` and `next`; `at` goes down the chain as `Validate` does, one
  action per kind of provider (a rejection with the status it is set to, `sends`), and `Valid` is the same for a SOCKS login, as a
  recursive function.
- `CertCache`: the entry (`copy`, `rest`), the shared read (`getting`), a store that may fail, and Put
  and Delete in their two steps. The store's answer may be on its way for some time (`onWay`)
  before the entry is made and stamped. `since0` is how long ago a certificate was last in the store.
- `FileReload`: `reload` of passwords and of blacklists in its steps (open and compare, read, store)
  against a file that is rewritten in place or replaced at any of them, with a coarse clock; the
  option; the loop and its end.
- `Serials`: `formatSerial`, turn by turn in its one buffer, and the reading of a list's lines.
- `LogWriter`: authors, the queue, the writing goroutine and `Close` with its marker.

## What is checked

| Run | Specification and bounds | Properties |
|---|---|---|
| `races` | 2 requests, 2 keys, 3 ids, the loop always due | `UniqueKeys`, `ImplementsRegistry` |
| `faults` | 1 request, 1 key, 2 ids, both types, all faults, 2 clock values; port 10002 does not exist | `TypeOK`, `InstanceHasRow`, `AckedGone`, `LastNotInFuture` |
| `requests` | 2 requests, 2 keys, 3 ids, service faults, lost answers and crashes, one tick, a smallest interval no row reaches | `TableServed` |
| `live` | `LiveSpec`, 2 requests, 1 key, 1 id, faults of database, ports and services, lost answers | `NobodyStuck`, `Repaired` |
| `divergence` (violated) | 1 request and the loop, no faults | `UpstreamIsRow` |
| `right_time` (violated) | 1 request and the loop, cooldown 2, `min_time_reset` 2 | `ResetAtTheRightTime` |
| `stale_time` (violated) | 2 goroutines, limit 1, burst 2, no cancellation | `Budget` |
| `upstream` | `MCOutgoing`: see below | `HandedOver`, `DialEnds`; `PoolSound`, `SharedDials`; `CleanStreams`; `WrappedSound`; `CancelFreesCommand`; `BoundedAge`, `LookupEnds`; `OneHand`, `OnlyGranted`, `RequestsEnd` |
| `tunnel` | `MCStreams`: see below | `TunnelSound`, `TunnelEnds`, `QuietAfterReturn`; `NoPartForWhole`, `RequestOver`; `HandlersFirst`, `StopEnds` |
| `loop_http` | `MCServing`: see below | `Budget`; `RefusedIsLoop`, `LoopRefused`; `OneItemPerGroup`, `DropsForgetNothing`; `RightAnswer`, `WaysAgree`; `CacheSound`; `NoneMissed`; `SourcesKept`; `SerialsAgree`; `LinesKept` |
| `loop_socks` (violated) | 2 requests, 4 addresses | `RefusedIsLoop` |
| `grace` (violated) | 2 visitors, three modes | `RequestsHaveGrace` |

Properties that belong together are one formula of named parts: `HandedOver` is
`ReturnedIsOpen`, `ErrorLeavesNothing` and `TunnelUntouched`; `DialEnds` is `CancelReturns` and
`GuardEnds`; `TunnelSound` is `TypeOK`, `InOrder`, `AnswerFirst` and `Complete`; `TunnelEnds` is
`CancelEnds` and `FinishEnds`; `PoolSound` is `PoolTypeOK`, `OneDial` and `NoneLost`; `SharedDials` is
`OwnCancelOnly` and `WaitersWoken`; `CleanStreams` is `ConnectFirst` and `TunnelBytesOnly`;
`WrappedSound` is `WholeResult` and `NoStrayConn`; `LookupEnds` is `FailsWhenAllDo`, `SharersServed`
and `LosersLeave`; `RightAnswer` is `OneAnswer` and `PromptHidden`; `CacheSound` is
`BoundedStaleness` and `CancelNotCached`; `SourcesKept` is `FirstThatWorks` and `NeverUnbound`;
`SerialsAgree` is `WritesBytes`, `ReadsWhatItWrote` and `ListedByValue`; `LinesKept` is `NoHole` and
`CloseFlushes`; `TableServed` is `UpstreamIsRow` and `RowHasInstance`; `NobodyStuck` is
`RequestsAnswered`, `ShutdownEnds` and `PassEnds`. A comment at each part says which lines it
is about.

### The bounds and why they are enough

Every race of the manager is between one request and
another, or one request and the loop, over one key or two: two requests and three ids
give a key an insert, an update, a delete and an insert again beside another key's.
Ids in `faults` reach the end of the table and the end of the ports. Addresses repeat
cyclically, so an old one can come back as new (`MaxGen`). The clock of `faults` moves
once, which is what separates "read before" from "read after". The limiter of
`loop_http` (one caller, requests of 0 to 4 tokens, burst 3, a token every second tick) meets
refusals, debts, waits longer than the test and tokens that come back; 12 ticks fill it twice. In `requests` the
smallest interval is longer than tick and cooldown together, so that no row becomes due. `live` has one id, so that two requests can
queue with the loop and main in a graph small enough for strong fairness: an insert after
a delete fails there for want of ids.

| Component | Bounds in its run | What they let happen |
|---|---|---|
| `UpstreamDial` | 2 bytes before the end of a response, 2 behind it | a response in one piece or several, with bytes of the tunnel in the last |
| `H2Pool` | 2 streams, 1 target, 2 connections, 1 stream each | a stream that starts a dial, one that waits for it, a full connection, a second dial, a retry |
| `OptimisticConn` | 3 chunks each way | CONNECT, data behind it, and data behind an error |
| `CommandConn` | a pipe of 2 chunks | an output that is ahead of its reader, and a command that waits for it |
| `NameCache` | 2 callers, 2 resolvers, all times one tick | sharing, expiry during a lookup, a loser that outlives it |
| `ScriptedDial` | 2 requests, 1 interpreter for access, 2 for routes, 1 for limits, 2 addresses | a wait for the one interpreter, a second address after the first is refused |
| `Tunnel` | 2 chunks in each direction, both HTTP versions | one chunk to be buffered early and one to follow |
| `PlainRequest` | bodies of 2 chunks, with a length and without, answers that are decompressed and such that are not, a signal | an end before, between and behind chunks, on either side |
| `Shutdown` | 2 visitors, three modes | a request that is waited for beside a tunnel that is not |
| `Loopback` | 3 requests, 4 addresses | a tunnel, a loop through it and a bystander; a second tunnel on the address of one that is closed and still on the map |
| `BWLimit` | 2 streams, 2 groups, one bucket for both directions, debt of half a chunk | a drop between two streams of one group, while another is in use |
| `AuthChain` | 3 providers | every kind behind every other, `else` and `next` at once |
| `CertCache` | 2 callers, 2 certificates, TTL of 2 ticks, an answer of the store at most 1 tick on its way (`MaxRead`) | a read across a Put and a Delete, an answer that arrives late, an entry half as old as it may be |
| `FileReload` | 4 changes, 4 ticks | two changes in one tick, a replacement while the replaced file is read |
| `BoundDial` | lists of 2 hints | a first source that fails, a placeholder beside an address |
| `Serials` | base 2, 4 bytes, lines of 5 signs, lists of 2 | digits that are overwritten two turns after they were written; zeroes in front |
| `LogWriter` | 2 authors of 3 lines, a queue of 2 | a full queue before, at and behind the marker |

One host and one target are enough in `NameCache` and `H2Pool`: what the code keeps is
keyed by them, and keys share nothing but the lock.

### What the passing runs show

A key has one row although the schema
does not say so, and it rests on the lock being held across the service calls
(`UniqueKeys`). Among requests alone the table and the instances agree at every moment
when none of them holds the lock, also after crashes (`TableServed`); it is the loop that
breaks this. What it breaks, and what an
answer of the service that is lost leaves behind, a later pass repairs (`Repaired`). A dial and its guard agree on
who won, and what comes behind the upstream's response is left for the tunnel. An HTTP/2
address is dialled once for all who want it, and whoever waits is told when the dial has
answered, and not of another's cancellation. A connection goes to what the access script let
through, but for a name that the router takes back (below). A tunnel carries both streams whole and in order if nobody breaks it;
towards an HTTP/2 client, or one that sent early, a target that finishes first cuts off the
client's direction (`Complete` says how much is promised). A plain request's
bodies are cut off unnoticed only where the receiver hears no length. What the HTTP handler refuses
as a loop is one, and a loop through a live tunnel is refused, but for one moment (below). A group's limit survives the
cache that forgets its limiter, because only full buckets nobody holds are dropped. A
provider chain answers once, and a login over SOCKS and one over HTTP fare alike. A
password file that is replaced while it is read is read again. The loop of `formatSerial`
overwrites its own digits only after it has read them.

### Disagreements found

- `divergence`: `resetProxy` writes the row and the instance in two steps outside the lock;
  an upsert in between leaves the instance with another address than its row.
- `right_time`: `last_reset_at = now - NextResetAfter` has the wrong sign for its purpose; a
  row whose address was reset just now is due at once.
- `stale_time`: a goroutine that read the clock before another but reaches the limiter
  after it sets `last` back, and the time between is credited twice.
- `loop_socks`: the SOCKS handler deletes another key than it stored.
- `grace`: the signal ends the context of every plain request at once (`main.go:862-864`), so the
  "grace period during server shutdown" (`main.go:488`) is for handlers only: requests are cut.

The models of the server and the limiter reach six more that no run is spent on. With
`Types = {"tmproxy", "kiotproxy"}` `RowHasInstance` fails: an update keeps the row's
`service_type` but asks the
service that the request names, so the row holds an address of the other format and is
skipped at the next start. An upsert that waits for the lock while `StopAll` holds it
(`main.go:89` stops the instances before the API) starts an instance afterwards; it lives until
the process ends. A pass decides from a
snapshot, so it may reset a row that a request has reset meanwhile, contrary to
`README.md:175`. In `RateLimiter`, `Budget` fails for `Refill = 0` (the infinite wait of
`rate.go:372` wraps around) and for two callers that cancel in another order than they reserved. A row whose instance did not start stays when its
compensating DELETE fails as well (`manager.go:111`), until the next start of the server: `RowHasInstance` fails
in `faults`.

Things the models of the engine contain as the code has them, which a maintainer may want to
look at (paths below `src/pkg/dumbproxy/`). The first three are exceptions that a property states; TLC
finds it violated when the exception is left out:

- `dialer/jsrouter.go:104`, `123`: the router's script is asked whether it wants the name and again at
  the dial. If it names a proxy first and none afterwards, the name has passed the access filter as a
  name (`access/dst.go:33`), and the system resolves it to an address that nobody asks about (`OnlyGranted`).
- `handler/handler.go:96-98`: a connection is closed before its entry is removed. Its address may be
  another's already: a client that gets it is refused, and a tunnel that gets it loses its entry, so
  that a loop through it is let in (`RefusedIsLoop`, `LoopRefused`).
- `handler/handler.go:195` drops the error of the copy, so an answer whose length the client does not
  hear is ended as if it were whole: one that comes without, one that the transport decompresses
  (`handler.go:50-53` leaves that on, and it takes the length away), after a break or the signal
  (`NoPartForWhole`).
- `dialer/h2_client_conn_pool.go:149`: who waits for a dial waits for nothing else, and no deadline is
  set (`h2.go:153`): while an upstream is silent, the starter and all who joined it stay.
- `certcache/local.go:41` stamps an entry when the store's answer has arrived, so a deleted
  certificate is served for the TTL and the time of a slow answer.

- `main.go:482` stores `-js-bw-limit-instances` in the router's field: the limit has one interpreter
  whatever is asked for, and the router as many as the limit was to have. `main.go:441` lets
  `-bw-limit` override `-js-bw-limit`, contrary to the flag's text.
- `auth/basic.go:58` answers a malformed `reload` with "using default value." and then does not
  reload at all; `basic.go:160` compares the hidden domain a second time, without the port and
  the case the first comparison takes off; `basic.go:85` does not close the file.
  `auth/cert.go:190` panics for the serial 0.
- `dialer/pipewrap.go:112`: `SetDeadline` tests the wrong variable and drops errors.
  `pipewrap.go:85`: `CloseRead` goes through the Once of `CloseWrite`, so `Close` leaves the reading
  end open and a read that waits is not ended by it. `command.go:71`: `cmd.Wait` closes the pipes
  under the reader; the last output of a command may be lost.
- `dialer/h2_client_conn_pool.go:87`: a connection whose random bytes cannot be fetched is neither
  pooled nor closed (the strays that `NoneLost` excepts). `h2_client_conn_pool.go:285`: one that breaks
  before it is added stays in the pool, dead. `h2.go:169`: a failed request does not cancel
  `connCtx`. `jsrouter.go:108` makes the dialers of a route anew for every request, so none of
  their pools and caches is ever shared.
- `forward/bwlimit.go:153` cancels at the time of the reservation; `bwlimit.go:221`: a limit that cannot be
  had ends the copy of a plain request's body before the pipe is closed, and the request hangs
  until its context ends (`RequestOver` begins behind this point). `forward/direct.go:9`: a
  peer that breaks ends one direction only.
- `handler/handler.go:93`: an outgoing connection is on the map only when its dial is over, so a loop
  through an upstream proxy is not seen. `handler.go:169` reads `URL.Host` before it is known to be
  there; `handler.go:200` misses a return. `proxy.go:84` holds the answer to an early sender
  back until the target sends.
- `main.go:890`: in the HTTP mode `run` returns 0 when Serve has failed.
- Of the server: `internal/proxymanager/instance.go:154` writes the handler while Serve
  reads it; `instance.go:177` gives Shutdown five nanoseconds; `internal/api/handlers/proxy.go:25`
  declares validation that nobody runs.

### Fairness

`LiveSpec`: every goroutine goes on (weak fairness of each request, the loop, main); a
service call ends because the HTTP clients have a timeout of 30 seconds; who waits for
the mutex gets it in the end (strong fairness of the steps that take it: Go's mutexes
starve nobody). Nothing is assumed of clients, signals, faults or the ticker. `Repaired` assumes
in addition, as part of the property (`Helpful`), that the services and the database do
what the loop asks of them again and again.

`UpstreamDial` and `Tunnel` assume that a
goroutine that can go on does, and that a dial ends when its context has ended, which
`CancelReturns` shows; peers and clients owe nothing. `FinishEnds` assumes in its own
premise that nobody stalls for ever. `H2Pool`: the goroutine of a dial goes on when the dial has answered, or when
it only waits for random bytes and its starter's context ends, and a stream that was told of a dial's end takes
notice. That a dial answers is not assumed, since nothing sets it a deadline; streams are not made to
close, so none gets a connection for certain. `CommandConn`: the reader and the waiting goroutine go on, and a command that is killed dies.
`NameCache`: time passes and goroutines go on; resolvers may be silent, and then the timeout
ends the lookup. `ScriptedDial`: scripts return, dials and what is forwarded end, and Go's
channels serve those who wait; a script that loops is beyond it, since nothing interrupts one. `PlainRequest`: clients and
targets finish what they have begun or break off, and the transport and the copies
go on. `Shutdown`: the grace period ends and the goroutines go on; connections may last for
ever. `OptimisticConn`, `WrappedDial` and what `MCServing` looks at have safety properties only.

## What is proved

All proofs are checked by TLAPS, for every value of the constants under the named
assumptions of the modules. `ProxyManagerProofs`, `RateLimiterProofs` and `TunnelProofs` are each about
one component; `OutgoingProofs` and `ConnectionProofs` about what goes out, `AccessProofs` about who is let
in, `ServingProofs` about what is kept while serving, under way and at the end; `SelectionProofs` holds the
lemmas about lists that two of them cite.

- `ProxyManagerProofs!TypeCorrect`: `TypeOK`, which also says what a request knows at
  each label. One lemma per group of actions.
- `ProxyManagerProofs!Invariance`: `IInv`, and from it `KeysAreUnique`,
  `InstancesHaveRows`, `DeletesAreFinal`, `TimesHaveCome`. `UniqueKeys` is not inductive: that
  the SELECT found no row must still hold at the INSERT, two service calls later.
  `LockInv` says that whoever is between the two holds the lock; `HolderInv` says what the
  holder knows (its key has no row; its row has no instance), which the loop cannot
  disturb because it writes rows only where rows are and instances only where
  instances are. `FreshInv` (no row at or above `nextId`) keeps deletes final, `ClockInv`
  follows a time from where it was read to the table.
- `ProxyManagerProofs!RegistryImplemented`: the refinement, step by step
  (`StepRegisters`): `InsertRow` is `Register`, `Rollback` and `DeleteTheRow` are
  `Deregister`, all else stutters.
- `ProxyManagerProofs!TableIsServed`: `TableServed` under the hypotheses `RequestsAlone`: the database
  and the ports work, every id has a port, addresses parse, one service (so no row changes its
  service), and the smallest interval is beyond all that a clock up to `MaxClock` and a cooldown can make
  of a time. Services still fail and answers are still lost, and the program may crash anywhere. The
  invariant (`AloneInv`) adds to `IInv` what the table and the instances are to each other while
  somebody is at work: `Changes` says, for each label of the lock's holder, which of the
  two is ahead of the other and for which id; `OthersServed` that all other ids agree; `RowFine` and
  `Cooling` that no row is ever due. The `divergence` run shows that the last cannot be left out.
- `RateLimiterProofs!SoleCallerKeepsBudget`: `Budget` for one caller (`Sole`: one goroutine,
  a limit above zero, times that fit an int64). The invariant balances the books: used, held
  and left in the bucket are at most what there was and what has come (`Books`), and who has
  no reservation finds no debt (`Debts`). `stale_time` and the limiter's
  other two disagreements show that one caller and a limit above zero cannot be left out.
- `OutgoingProofs!HandOver`: `HandedOver` for responses of any length. `Agreement` says what
  guard, channel and connection look like at each place of the dial; `Lossless` says that what
  was read of the response and what is left are together what was sent, which
  makes the bytes behind the response untouched.
- `AccessProofs!LoopsAreTold`: `RefusedIsLoop` for the HTTP handler, for any number of requests and addresses;
  `LoopsAreRefused`: `LoopRefused`. Nothing is assumed of the system's choice of addresses. The
  invariant says that every entry is the address of a tunnel, or of a connection that is closed and
  whose handler is about to remove it (`Owned`), and (`Listed`) that a tunnel's entry is missing only if the tunnel got the
  address in that moment (`shared`).
- `ServingProofs` (`BWTypes`, `GroupsShare`, `DroppingIsHarmless`; assumption `BWAssumption`, for one
  bucket per item or two): the invariant has three parts. `Shared`: a stream that is up holds its
  group's item, and the cache still has it, because what is held is not dropped. `Pumping`: a
  direction moves only while its stream is up. `Distinct`: no item serves two groups, because
  a new item is one that nobody refers to. With them `account` and `tokens` move together.
- `OutgoingProofs` (`InterpretersAreSafe`, `ConnectionsWereGranted`): `OneHand` is inductive with
  the types (`ScriptTypes`); for `OnlyGranted`, `Asked` says that whoever is past the filter was let through
  for the address at the head of its list, and that nobody is connected before the router has answered, so
  that the answer a connection was made with is the last one.
- `ServingProofs!StaleByTTL` (assumption `CertAssumption`): `CacheSound` is not inductive, since an old
  entry was new once. `Aging` says that the age of a cached certificate and the time its
  entry has left are together at most the TTL and the longest time an answer takes, the time the
  answer is still on its way included; `Current` that what the store has is of now, and what a read
  has found is at most as old as its answer has been on its way; and `Blamed` that only a reader
  whose own context has ended finds an error about a context.
- `ServingProofs!LogIsKept`: `LinesKept`. While no marker is queued, what is written and what is queued is
  together what was accepted (`AllLines`); behind the marker nothing is promised, and what
  Close owes stands in front of it (`MarkedAt`).
- `TunnelProofs` (`TunnelsAreSound`, `TunnelsEndQuietly`; assumption `TunnelAssumption`, any number of
  chunks): `TunnelSound` says nothing of what is under way. `Queued` numbers it: what a side has sent is what was
  delivered, the chunk a goroutine holds, what was buffered at the hijack and what is still in the
  connection, in this order; it may end only where the other side cannot be written to any more
  (`Gone`), and connections only wear out (`Worn`). `Places` says what the handler's
  label means for the goroutines, the buffer and the held-back answer; `Sound` that an undisturbed
  connection is closed only when its stream is through, which is what makes `Complete` hold.

- `ConnectionProofs!PoolIsSound` (assumptions `StreamsAssumption`, finitely many calls at a time, and
  `LinksAssumption`): `PoolSound` for any number of streams, targets and connections. It says
  what the tables show; the invariant adds what everybody else knows. `Known`: a call in flight is
  the one its target's entry names, and an entry names nothing else. `Waiting`: a call lives as long
  as a stream waits for it. `Held`: what a call has in each phase; a call that ended because of a
  context ended because of its starter's. `Made`: connections are numbered in the order in which they
  are made, so a new one is in no pool and in nobody else's hand, and two dials never hold the same
  one. `Matched`: a target is among a connection's keys exactly when the connection is in the
  target's list. `Findable` is what of `NoneLost` remains. `OnlyOwnCancel` is an action property and
  follows from `Held`: a waiter fails with another's cancellation only if it is its starter, or its
  own context has ended.
- `ConnectionProofs!SourcesAreKept`: `SourcesKept` for lists of any length. `Tried` says that while
  sources are tried, those up to `turn` that the network allows are exactly those that failed; what
  `parseHints` keeps comes from `SelectionProofs`.
- `OutgoingProofs!StreamsAreClean`: `CleanStreams` for streams of any length. `Written` goes with the
  writer's Once, `Unread` says that the answer is the first thing there is to read until the reader's
  Once is done, and that after a refusal it never is.
- `OutgoingProofs!ResultsAreWhole`: `WrappedSound` for every order of the unlocked writes. `Stored` says
  which variable holds what at which place of the goroutine; it says nothing of the error once the
  context has ended, because the caller writes it too.
- `OutgoingProofs!AnswersAreFresh` (`TimesAssumption`): `BoundedAge` for any number of callers and
  resolvers. `EntryAges` is the heart: an entry's age and the time it has left are together at most
  what is allowed. `FailuresAreUnanimous` (`ResolversAssumption`) needs that the counter of failures is
  the number of resolvers that were heard (`CountInv`).
- `AccessProofs!ClientsGetOneAnswer` (`ChainAssumption`): `RightAnswer` for chains of any length: nobody has been
  answered while a provider is asked.
- `AccessProofs!BothWaysAgree`: `WaysAgree` for chains of any length. `Valid` is a recursive function along
  the chain; that it satisfies its equation (`ValidUnfolds`) is proved from the last provider to the
  first. Then every step of `Validate` goes to a provider that lets in the same clients.
- `AccessProofs!SerialsAreTheSame` (`SerialsAssumption`): `SerialsAgree` for any base, any number of bytes
  and lines of any length. `Buffer` says which places of the one buffer are still the number's and which
  are digits already: a turn writes in front of what is left to read. `CutByValue` says that zeroes
  in front, which are dropped before serials are compared, change no value; the
  values are those of a recursive function, unfolded as in `Selected` below.
- `AccessProofs!ChangesAreSeen`: `NoneMissed` for any clock and any number of changes. `Outdated` follows a text
  from the moment it is opened: if it is not the file's any more it has an older time.
- `ServingProofs!PartsAreTold` (`ChunksAssumption`): `NoPartForWhole` for bodies of any length, by counting where
  each chunk is.
- `ServingProofs!HandlersGoFirst`: `HandlersFirst` for any number of clients: `Waited` says who has waited for whom
  at each place of the shutdown.
- `SelectionProofs`: `SelectedElements` says of `Selected`, for every sequence, that it returns elements at
  the positions to keep and none else. The prover cannot instantiate the library's induction
  theorems, but the one that says that a set of numbers has a least element takes no
  operator: a recursive function exists up to every length because a least length for which
  it does not would follow one for which it does (`PartsExist`). `ValidUnfolds` goes the same way.

Proofs found no flaw in the code that the runs had not shown. They changed three models without changing
what they allow, and made one property say more: `FilterOutClientConn` and `Expand` choose positions (`Selected`) where they chose
elements with `SelectSeq`, whose recursion the prover cannot open, and `GetClientConn` takes the least usable
position in place of the first of the usable connections. `ListedByValue` compares values of serials as long as a
line; it compared two bytes.

Only model-checked: what must happen in the end (`NobodyStuck`, `Repaired`, `DialEnds`, `CancelFreesCommand`,
`RequestsEnd`, `TunnelEnds`, `RequestOver`, `StopEnds`, and what `SharedDials` and `LookupEnds` say
besides `OwnCancelOnly` and `FailsWhenAllDo`, which are proved). Liveness under fairness
and ENABLED are beyond the prover. Every invariant of a passing run is proved. No module uses RECURSIVE operators.

## What is not modelled

The formats and the wording of HTTP, JSON, SQL and logs; the export endpoint, which only
reads; configuration and TLS options, which are read once; the API key middleware, which
nothing installs. An instance's own connections: a tunnel that was hijacked outlives
`Stop`, and requests that overlap `UpdateUpstream` may see either handler. `SetLimit`, `SetBurst`
and the infinite rate of the limiter, which only tests call. `addConnIfNeeded`, which nobody
calls since connections come from `dial` alone, and the bytes of an `h2Conn`. The
standard-input server; the login and the other commands of the SOCKS library; what a script can
call (`jsext`) and the list of networks in `dst.go`, which are pure; the decoding of headers,
tokens and certificates; the resolvers themselves, which are a library, and the preference of
a family, which sorts a list; the random-data page; the flags and the subcommands of the
dumbproxy program apart from how it serves and stops. In `Loopback`, `UpdateUpstream`
makes a new handler with an empty map. `PROJECT.json` gives each part's status.

## Plan

Done: the server with its abstract registry and its proofs; the limiter and its cache; all
dialers with the pool, the cache of names and the scripts; tunnels and plain requests;
authentication, the certificate cache, the log and the end of the program.

Left, in this order:

1. `InstanceServe`: connections of one instance across `UpdateUpstream` and `Stop`, with
   `UpstreamDial` and `Tunnel` under it.
2. Proofs: `QuietAfterReturn` and `OwnCancelOnly` have shown how a safety half is taken out of a
   liveness property; the same for what `TunnelEnds` and `RequestOver` say of the last step. How far
   `TableServed` goes for two services, where a row may change its service.
3. Compositions: `BWLimit` over `RateLimiter` in place of its buckets that fill; a
   request through `AuthChain`, `Loopback` and `ScriptedDial`.
4. Several hosts and targets where a lock joins them (`NameCache`, `H2Pool`).

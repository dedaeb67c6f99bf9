------------------------------- MODULE H2Pool -------------------------------
(***************************************************************************)
(* CONNECT over HTTP/2 to an upstream proxy: H2ProxyDialer.DialContext     *)
(* (pkg/dumbproxy/dialer/h2.go) asks the transport for a stream, and the   *)
(* transport asks clientConnPool (h2_client_conn_pool.go) for a connection *)
(* that can take it.  The pool is keyed by the target's address.  Streams  *)
(* share connections and wait for each other's dials; a connection may     *)
(* break at any time, before it is in the pool too.                        *)
(*                                                                         *)
(* The transport itself (http2.Transport, ClientConn) is a library: a      *)
(* connection can be reserved while it is up and has a stream to spare,    *)
(* and one that breaks is reported with MarkDead.                          *)
(***************************************************************************)
EXTENDS Naturals, FiniteSets, Sequences, Functions, Selection

CONSTANTS
    Streams,        \* the calls of DialContext, a context each
    Targets,        \* host:port, the keys of the pool
    MaxLinks,       \* bound on the HTTP/2 connections that are made
    Garbage,        \* a new connection fetches random bytes first
    StreamLimit,    \* SETTINGS_MAX_CONCURRENT_STREAMS
    Nobody
\* Finitely many calls at a time, and so many connections.
ASSUME StreamsAssumption == IsFiniteSet(Streams)
ASSUME LinksAssumption == MaxLinks \in Nat

Links == 1..MaxLinks
NoLink == 0
Calls == 1..Cardinality(Streams)    \* dialCalls: a waiting stream knows one

VARIABLES
    target,         \* of each stream
    stage,          \* get, wait, reserved, open, over
    ended,          \* the stream's connCtx has ended
    link,           \* the connection it has reserved
    awaits,         \* the dialCall it waits for, 0: none
    call,           \* of each dialCall: phase, starter, link, err
    dialing,        \* clientConnPool.dialing
    pool,           \* clientConnPool.conns
    keys,           \* clientConnPool.keys
    life            \* of each connection: none, up, broken, dead (MarkDead is done),
                    \* stray (up, and given up by prepare)

requester == <<target, stage, ended, link, awaits>>
poolState == <<dialing, pool, keys>>
poolVars == <<requester, call, poolState, life>>

Idle == [phase |-> "idle", starter |-> Nobody, link |-> NoLink, err |-> "none"]

PoolInit ==
    /\ target \in [Streams -> Targets]
    /\ stage = [s \in Streams |-> "get"]
    /\ ended = [s \in Streams |-> FALSE]
    /\ link = [s \in Streams |-> NoLink]
    /\ awaits = [s \in Streams |-> 0]
    /\ call = [k \in Calls |-> Idle]
    /\ dialing = [t \in Targets |-> 0]
    /\ pool = [t \in Targets |-> <<>>]
    /\ keys = [l \in Links |-> {}]
    /\ life = [l \in Links |-> "none"]

Load(l) == Cardinality({s \in Streams : link[s] = l})

\* ClientConn.ReserveNewRequest
Reservable(l) == life[l] = "up" /\ Load(l) < StreamLimit

GiveUp(s) == /\ stage' = [stage EXCEPT ![s] = "over"]
             /\ awaits' = [awaits EXCEPT ![s] = 0]
             /\ link' = [link EXCEPT ![s] = NoLink]
             /\ UNCHANGED <<target, ended>>

Reserve(s, l) == /\ stage' = [stage EXCEPT ![s] = "reserved"]
                 /\ link' = [link EXCEPT ![s] = l]
                 /\ awaits' = [awaits EXCEPT ![s] = 0]
                 /\ UNCHANGED <<target, ended>>

Again(s) == /\ stage' = [stage EXCEPT ![s] = "get"]
            /\ awaits' = [awaits EXCEPT ![s] = 0]
            /\ link' = [link EXCEPT ![s] = NoLink]
            /\ UNCHANGED <<target, ended>>

-----------------------------------------------------------------------------
(* getClientConn, in the caller's goroutine.                               *)

\* getStartDialLocked starts a dial.  A dialCall nobody knows any more is used again.
StartCall(s) ==
    LET k == CHOOSE k \in Calls : /\ call[k].phase = "idle"
                                  /\ \A j \in Calls : call[j].phase = "idle" => k <= j
    IN /\ call' = [call EXCEPT ![k] = [Idle EXCEPT !.phase = "dial", !.starter = s]]
       /\ dialing' = [dialing EXCEPT ![target[s]] = k]
       /\ awaits' = [awaits EXCEPT ![s] = k]

\* A slip: a dial that is in flight is not joined.
StartDialAlone(s) == StartCall(s)

StartDial(s) ==
    IF dialing[target[s]] = 0
    THEN StartCall(s)
    ELSE awaits' = [awaits EXCEPT ![s] = dialing[target[s]]] /\ UNCHANGED <<call, dialing>>

\* One pass of the loop, under the lock: the first connection that can be reserved,
\* or a dial.
GetClientConn(s) ==
    /\ stage[s] = "get"
    /\ LET conns == pool[target[s]]
           usable == {i \in DOMAIN conns : Reservable(conns[i])} IN
       \/ \E i \in usable : /\ \A j \in usable : i <= j
                           /\ Reserve(s, conns[i])
                           /\ UNCHANGED <<call, dialing>>
       \/ /\ usable = {}
          /\ stage' = [stage EXCEPT ![s] = "wait"]
          /\ StartDial(s)
          /\ UNCHANGED <<target, ended, link>>
    /\ UNCHANGED <<pool, keys, life>>

\* A slip: the context of the dial is not looked at.
RetryNever(k, s) == FALSE

\* The context of another stream ended the dial.
ShouldRetryDial(k, s) == /\ call[k].err \in {"cancelled", "timeout"}
                         /\ call[k].starter # s
                         /\ ended[call[k].starter]

\* The dial is over (done is closed).
CallDone(s) ==
    /\ stage[s] = "wait"
    /\ LET k == awaits[s] IN
       /\ call[k].phase = "done"
       /\ \/ /\ ShouldRetryDial(k, s)
             /\ Again(s)
          \/ /\ ~ShouldRetryDial(k, s) /\ call[k].err # "none"
             /\ GiveUp(s)
          \/ /\ call[k].err = "none" /\ Reservable(call[k].link)
             /\ Reserve(s, call[k].link)
          \/ /\ call[k].err = "none" /\ ~Reservable(call[k].link)
             /\ Again(s)
       /\ call' = IF \E q \in Streams \ {s} : awaits[q] = k THEN call
                                                         ELSE [call EXCEPT ![k] = Idle]
    /\ UNCHANGED <<poolState, life>>

-----------------------------------------------------------------------------
(* dialCall.dial, in a goroutine of its own, with the starter's context.   *)

DialFails(k, errs) ==
    \E e \in errs : /\ e = "cancelled" => ended[call[k].starter]
                    /\ call' = [call EXCEPT ![k].phase = "finish", ![k].err = e]

\* dialTLS and NewClientConn, with the handshakes: nothing bounds them, and the
\* handshakes do not look at the context.
DialLink(k) ==
    /\ call[k].phase = "dial"
    /\ \/ /\ DialFails(k, {"cancelled", "timeout", "refused"})
          /\ UNCHANGED life
       \/ \E l \in Links :
            /\ l = 1 + Cardinality({m \in Links : life[m] # "none"})
            /\ life' = [life EXCEPT ![l] = "up"]
            /\ call' = [call EXCEPT ![k].phase = IF Garbage THEN "prepare" ELSE "finish",
                                    ![k].link = l]
    /\ UNCHANGED <<requester, poolState>>

\* prepare fetches random bytes, for as long as the starter's context lasts: it needs
\* a stream and a whole body.  A connection that fails here is not closed.
Prepare(k) ==
    /\ call[k].phase = "prepare"
    /\ \/ /\ life[call[k].link] = "up"
          /\ call' = [call EXCEPT ![k].phase = "finish"]
          /\ UNCHANGED life
       \/ /\ DialFails(k, {"cancelled", "refused"})
          /\ life' = [life EXCEPT ![call[k].link] = IF @ = "up" THEN "stray" ELSE @]
    /\ UNCHANGED <<requester, poolState>>

AddConn(t, l) == /\ pool' = [pool EXCEPT ![t] = Append(@, l)]
                 /\ keys' = [keys EXCEPT ![l] = @ \cup {t}]

\* The second half of dial, under the lock.
EndDial(k) ==
    /\ call[k].phase = "finish"
    /\ LET t == target[call[k].starter] IN
       /\ dialing' = [dialing EXCEPT ![t] = 0]
       /\ IF call[k].err = "none" THEN AddConn(t, call[k].link) ELSE UNCHANGED <<pool, keys>>
    /\ call' = [call EXCEPT ![k].phase = "close"]
    /\ UNCHANGED <<requester, life>>

CloseDone(k) ==
    /\ call[k].phase = "close"
    /\ call' = [call EXCEPT ![k].phase = "done"]
    /\ UNCHANGED <<requester, poolState, life>>

-----------------------------------------------------------------------------
(* The stream's own life.                                                  *)

FilterOutClientConn(conns, l) == Selected(conns, {i \in DOMAIN conns : conns[i] # l})

\* The transport sends CONNECT.  A connection that broke after it was reserved
\* makes it ask the pool again.
RoundTrip(s) ==
    /\ stage[s] = "reserved"
    /\ \/ /\ life[link[s]] = "up"
          /\ \/ stage' = [stage EXCEPT ![s] = "open"] /\ UNCHANGED <<awaits, link>>
             \/ GiveUp(s)
          /\ UNCHANGED <<target, ended>>
       \/ /\ ended[s]
          /\ GiveUp(s)
       \/ /\ life[link[s]] # "up"
          /\ Again(s) \/ GiveUp(s)
    /\ UNCHANGED <<call, poolState, life>>

\* h2Conn.Close: both directions, then the context.
CloseStream(s) ==
    /\ stage[s] = "open"
    /\ stage' = [stage EXCEPT ![s] = "over"]
    /\ ended' = [ended EXCEPT ![s] = TRUE]
    /\ link' = [link EXCEPT ![s] = NoLink]
    /\ UNCHANGED <<target, awaits, call, poolState, life>>

\* (The end of a context nobody looks at any more is left out.)
CancelStream(s) ==
    /\ ~ended[s]
    /\ stage[s] = "over" => \E k \in Calls : call[k].starter = s
    /\ ended' = [ended EXCEPT ![s] = TRUE]
    /\ UNCHANGED <<target, stage, link, awaits, call, poolState, life>>

Break(l) ==
    /\ life[l] = "up"
    /\ life' = [life EXCEPT ![l] = "broken"]
    /\ UNCHANGED <<requester, call, poolState>>

\* The reading goroutine of a broken connection reports it.
MarkDead(l) ==
    /\ life[l] = "broken"
    /\ pool' = [t \in Targets |-> IF t \in keys[l] THEN FilterOutClientConn(pool[t], l)
                                                   ELSE pool[t]]
    /\ keys' = [keys EXCEPT ![l] = {}]
    /\ life' = [life EXCEPT ![l] = "dead"]
    /\ UNCHANGED <<requester, call, dialing>>

PoolNext == \/ \E s \in Streams : \/ GetClientConn(s) \/ CallDone(s)
                                  \/ RoundTrip(s) \/ CloseStream(s) \/ CancelStream(s)
            \/ \E k \in Calls : DialLink(k) \/ Prepare(k) \/ EndDial(k) \/ CloseDone(k)
            \/ \E l \in Links : Break(l) \/ MarkDead(l)

\* prepare returns when the context it was given has ended.
PrepareGivesUp(k) ==
    call[k].phase = "prepare" /\ ended[call[k].starter] /\ Prepare(k)

\* Goroutines run.  A dial need not answer: the upstream proxy may be silent, and no
\* deadline is set.
PoolFairness ==
    /\ \A s \in Streams : WF_poolVars(CallDone(s))
    /\ \A k \in Calls : /\ WF_poolVars(EndDial(k) \/ CloseDone(k))
                        /\ WF_poolVars(PrepareGivesUp(k))

PoolSpec == PoolInit /\ [][PoolNext]_poolVars /\ PoolFairness

-----------------------------------------------------------------------------

PoolTypeOK ==
    /\ target \in [Streams -> Targets]
    /\ stage \in [Streams -> {"get", "wait", "reserved", "open", "over"}]
    /\ ended \in [Streams -> BOOLEAN]
    /\ link \in [Streams -> Links \cup {NoLink}]
    /\ awaits \in [Streams -> Calls \cup {0}]
    /\ \A s \in Streams : stage[s] = "wait" <=> awaits[s] # 0
    /\ call \in [Calls -> [phase : {"idle", "dial", "prepare", "finish", "close", "done"},
                           starter : Streams \cup {Nobody}, link : Links \cup {NoLink},
                           err : {"none", "cancelled", "timeout", "refused"}]]
    /\ dialing \in [Targets -> Calls \cup {0}]
    /\ DOMAIN pool = Targets /\ \A t \in Targets : Range(pool[t]) \subseteq Links
    /\ keys \in [Links -> SUBSET Targets]
    /\ life \in [Links -> {"none", "up", "broken", "dead", "stray"}]

InFlight(k) == call[k].phase \in {"dial", "prepare", "finish"}

\* h2_client_conn_pool.go:181-193: an address is dialled once at a time, and the map
\* knows the dial, whatever waits, retries and fails around it.
OneDial ==
    \A t \in Targets :
        {k \in Calls : InFlight(k) /\ target[call[k].starter] = t}
            = IF dialing[t] = 0 THEN {} ELSE {dialing[t]}

\* A connection that is up can be found: in the pool, under its address, or by the dial
\* that makes it.  (A stray is the exception: nothing closes it.)
NoneLost ==
    \A l \in Links : life[l] = "up" =>
        \/ \E t \in Targets : l \in Range(pool[t]) /\ keys[l] = {t}
        \/ \E k \in Calls : InFlight(k) /\ call[k].link = l

\* The pool knows every dial and every connection.
PoolSound == PoolTypeOK /\ OneDial /\ NoneLost

\* h2_client_conn_pool.go:322-341: a stream does not fail because of the end of a
\* context that is not its own.
OwnCancelOnly ==
    [][\A s \in Streams : /\ stage[s] = "wait" /\ stage'[s] = "over"
                          /\ call[awaits[s]].err = "cancelled"
                          => ended[s]]_poolVars

\* The connection was made or was not; or it only waits for its random bytes, and the
\* context of the stream that started the dial has ended.
Answered(k) == \/ call[k].phase \in {"finish", "close", "done"}
               \/ call[k].phase = "prepare" /\ ended[call[k].starter]

\* h2_client_conn_pool.go:196-207: whoever waits for a dial that has answered is told,
\* its starter and those who joined it.  (They wait for the dial alone, not for the end
\* of their own contexts: while the upstream proxy is silent they all stay.)
WaitersWoken == \A s \in Streams :
    (stage[s] = "wait" /\ Answered(awaits[s])) ~> (stage[s] # "wait")

\* To wait for the dial of another is safe as far as the dial answers: one hears of it,
\* and does not share the end of the other's context.
SharedDials == OwnCancelOnly /\ WaitersWoken
=============================================================================

--------------------------- MODULE ConnectionProofs ---------------------------
(***************************************************************************)
(* The connections that dials share and the addresses they leave from.     *)
(*                                                                         *)
(* The pool of HTTP/2 connections, for any number of calls and targets:    *)
(* what the property says of the calls and the pool is not inductive. A    *)
(* call's number must be its target's entry while it is in flight (Known), *)
(* whoever waits for a call must wait for one that is in flight or over    *)
(* (Waiting), a reservation must be one of the streams its connection      *)
(* counts (Held), a connection must be in the hand of the one call that    *)
(* made it until it is in the pool (Made), and the pool's two tables must  *)
(* agree (Matched).                                                        *)
(*                                                                         *)
(* Source addresses: what has been tried is the first part of the list,    *)
(* and every one that the network allows has failed (Tried).               *)
(***************************************************************************)
EXTENDS H2Pool, BoundDial, SelectionProofs, FiniteSetTheorems

-----------------------------------------------------------------------------
(* The pool of HTTP/2 connections.                                         *)

Phases == {"idle", "dial", "prepare", "finish", "close", "done"}
CallRecords == [phase : Phases, starter : Streams \cup {Nobody}, link : Links \cup {NoLink},
                err : {"none", "cancelled", "timeout", "refused"}]

\* The types, with what the property's weaker form leaves open: pools are sequences.
Typed ==
    /\ target \in [Streams -> Targets]
    /\ stage \in [Streams -> {"get", "wait", "reserved", "open", "over"}]
    /\ ended \in [Streams -> BOOLEAN]
    /\ link \in [Streams -> Links \cup {NoLink}]
    /\ awaits \in [Streams -> Calls \cup {0}]
    /\ call \in [Calls -> CallRecords]
    /\ dialing \in [Targets -> Calls \cup {0}]
    /\ pool \in [Targets -> Seq(Links)]
    /\ keys \in [Links -> SUBSET Targets]
    /\ life \in [Links -> {"none", "up", "broken", "dead", "stray"}]

\* Who waits, waits for a call; a call that is in use has somebody who waits for it.
Waiting == /\ \A s \in Streams : stage[s] = "wait" <=> awaits[s] # 0
           /\ \A s \in Streams : awaits[s] # 0 => call[awaits[s]].phase # "idle"
           /\ \A k \in Calls : call[k].phase # "idle" => \E s \in Streams : awaits[s] = k

\* What a call holds in each of its phases.
HeldBy(k) ==
    /\ call[k].phase # "idle" => call[k].starter \in Streams
    /\ call[k].phase \in {"idle", "dial"} => call[k].link = NoLink /\ call[k].err = "none"
    /\ call[k].phase = "prepare" => call[k].link # NoLink /\ call[k].err = "none"
    /\ call[k].phase \in {"finish", "close", "done"} =>
           (call[k].err = "none" => call[k].link # NoLink)
    /\ call[k].phase = "finish" /\ call[k].err # "none" /\ call[k].link # NoLink =>
           life[call[k].link] # "up"
    /\ call[k].err = "cancelled" => ended[call[k].starter]
Held == \A k \in Calls : HeldBy(k)

\* The map knows the dial of an address.
Known == /\ \A k \in Calls : InFlight(k) => dialing[target[call[k].starter]] = k
         /\ \A t \in Targets : dialing[t] # 0 =>
                InFlight(dialing[t]) /\ target[call[dialing[t]].starter] = t

\* Connections are made one after the other; one that a dial holds is new to the pool,
\* and no other dial has it.
Made == /\ \E n \in 0..MaxLinks : \A l \in Links : life[l] # "none" <=> l <= n
        /\ \A k \in Calls : call[k].link # NoLink => life[call[k].link] # "none"
        /\ \A l \in Links : keys[l] # {} => life[l] # "none"
        /\ \A j, k \in Calls : /\ InFlight(j) /\ InFlight(k) /\ j # k
                               /\ call[j].link # NoLink
                               => call[j].link # call[k].link
        /\ \A k \in Calls : InFlight(k) /\ call[k].link # NoLink => keys[call[k].link] = {}

\* The two maps of the pool agree.
Matched == \A l \in Links, t \in Targets : t \in keys[l] <=> \E i \in 1..Len(pool[t]) : pool[t][i] = l

Findable == \A l \in Links : life[l] = "up" =>
                \/ \E t \in Targets : keys[l] = {t}
                \/ \E k \in Calls : InFlight(k) /\ call[k].link = l

PoolInv == Typed /\ Waiting /\ Held /\ Known /\ Made /\ Matched /\ Findable

LEMMA CallsAreNumbers ==
    /\ Cardinality(Streams) \in Nat /\ Calls \in SUBSET Nat /\ 0 \notin Calls
    /\ IsFiniteSet(Calls) /\ Cardinality(Calls) = Cardinality(Streams)
    /\ NoLink \notin Links
<1>1. Cardinality(Streams) \in Nat
  BY StreamsAssumption, FS_CardinalityType
<1>2. IsFiniteSet(Calls) /\ Cardinality(Calls) = Cardinality(Streams)
  BY <1>1, FS_Interval DEF Calls
<1> QED  BY <1>1, <1>2, LinksAssumption DEF Calls, Links, NoLink

\* There is a call for whoever wants to dial: he does not wait for one himself.
LEMMA SomeCallIsIdle ==
    ASSUME Typed, Waiting, NEW s \in Streams, stage[s] = "get"
    PROVE  \E k \in Calls : /\ call[k].phase = "idle"
                            /\ \A j \in Calls : call[j].phase = "idle" => k <= j
<1>1. \E k \in Calls : call[k].phase = "idle"
  <2>1. SUFFICES ASSUME \A k \in Calls : call[k].phase # "idle" PROVE FALSE
    OBVIOUS
  <2> DEFINE others == Streams \ {s}
             waiter == [k \in Calls |-> CHOOSE q \in Streams : awaits[q] = k]
  <2>2. \A k \in Calls : waiter[k] \in Streams /\ awaits[waiter[k]] = k
    BY <2>1 DEF Waiting
  <2>3. awaits[s] = 0
    BY DEF Waiting
  <2>4. waiter \in [Calls -> others]
    <3>1. \A k \in Calls : waiter[k] # s
      BY <2>2, <2>3, CallsAreNumbers
    <3> HIDE DEF waiter
    <3>2. \A k \in Calls : waiter[k] \in others
      BY <2>2, <3>1
    <3>3. waiter = [k \in Calls |-> waiter[k]]
      BY DEF waiter
    <3> QED  BY <3>2, <3>3
  <2>5. IsFiniteSet(others) /\ Cardinality(others) < Cardinality(Calls)
    <3>1. IsFiniteSet(others) /\ Cardinality(others) = Cardinality(Streams) - 1
      BY StreamsAssumption, FS_RemoveElement
    <3> HIDE DEF others
    <3> QED  BY <3>1, CallsAreNumbers
  <2> HIDE DEF waiter, others
  <2>6. PICK j, k \in Calls : j # k /\ waiter[j] = waiter[k]
    BY <2>4, <2>5, CallsAreNumbers, FS_PigeonHole
  <2> QED  BY <2>2, <2>6
<1> DEFINE idle == {k \in Calls : call[k].phase = "idle"}
<1>2. idle # {} /\ idle \in SUBSET Nat
  BY <1>1, CallsAreNumbers
<1> HIDE DEF idle
<1>3. PICK k \in idle : \A j \in idle : k <= j
  BY <1>2, LeastOf
<1> QED  BY <1>3 DEF idle

\* A step of a call.
CallStep(k, phase, l, err) ==
    /\ call' \in [Calls -> CallRecords]
    /\ \A j \in Calls : j # k => call'[j] = call[j]
    /\ call'[k].phase = phase /\ call'[k].link = l /\ call'[k].err = err
    /\ call'[k].starter = call[k].starter

LEMMA DialFailsStep ==
    ASSUME Typed, NEW k \in Calls, NEW errs,
           errs \subseteq {"cancelled", "timeout", "refused"}, DialFails(k, errs)
    PROVE  \E e \in {"cancelled", "timeout", "refused"} :
              /\ CallStep(k, "finish", call[k].link, e)
              /\ e = "cancelled" => ended[call[k].starter]
<1>1. PICK e \in errs : /\ e = "cancelled" => ended[call[k].starter]
                        /\ call' = [call EXCEPT ![k].phase = "finish", ![k].err = e]
  BY DEF DialFails
<1>2. call \in [Calls -> CallRecords] /\ call[k] \in CallRecords
  BY DEF Typed
<1> DEFINE new == [call[k] EXCEPT !.phase = "finish", !.err = e]
<1>3. /\ new \in CallRecords /\ new.phase = "finish" /\ new.err = e
      /\ new.link = call[k].link /\ new.starter = call[k].starter
  BY <1>2 DEF CallRecords, Phases
<1>4. call' = [call EXCEPT ![k] = new]
  BY <1>1
<1> HIDE DEF new
<1>5. CallStep(k, "finish", call[k].link, e)
  BY <1>2, <1>3, <1>4 DEF CallStep
<1> QED  BY <1>1, <1>5

LEMMA PhaseStep ==
    ASSUME Typed, NEW k \in Calls, NEW phase \in Phases, call' = [call EXCEPT ![k].phase = phase]
    PROVE  CallStep(k, phase, call[k].link, call[k].err)
BY DEF Typed, CallStep, CallRecords, Phases

\* A call that goes on, in flight, changes nothing for those who wait or look it up.
LEMMA FlightGoesOn ==
    ASSUME PoolInv, NEW k \in Calls, NEW p \in {"prepare", "finish"}, NEW l, NEW e,
           InFlight(k), CallStep(k, p, l, e), UNCHANGED <<requester, poolState>>
    PROVE  /\ Waiting' /\ Known' /\ Matched'
           /\ \A j \in Calls : InFlight(j)' <=> InFlight(j)
<1>1. UNCHANGED <<target, stage, ended, link, awaits, dialing, pool, keys>>
  BY DEF requester, poolState
<1>2. \A j \in Calls : InFlight(j)' <=> InFlight(j)
  BY DEF CallStep, InFlight
<1>3. \A j \in Calls : call'[j].starter = call[j].starter
  BY DEF CallStep
<1>4. Waiting'
  <2>1. \A j \in Calls : call'[j].phase # "idle" <=> call[j].phase # "idle"
    BY DEF CallStep, InFlight
  <2>2. \A s \in Streams : awaits[s] # 0 => awaits[s] \in Calls
    BY DEF PoolInv, Typed
  <2> QED  BY <1>1, <2>1, <2>2 DEF PoolInv, Waiting
<1>5. Known'
  <2>1. \A t \in Targets : dialing[t] # 0 => dialing[t] \in Calls
    BY DEF PoolInv, Typed
  <2> QED  BY <1>1, <1>2, <1>3, <2>1 DEF PoolInv, Known
<1>6. Matched'
  BY <1>1 DEF PoolInv, Matched
<1> QED  BY <1>2, <1>4, <1>5, <1>6

LEMMA PoolStarts == PoolInit => PoolInv
<1> SUFFICES ASSUME PoolInit PROVE PoolInv
  OBVIOUS
<1> USE CallsAreNumbers
<1>1. Idle \in CallRecords
  BY DEF Idle, CallRecords, Phases
<1>2. Typed
  BY <1>1 DEF PoolInit, Typed
<1>3. Waiting /\ Known
  BY DEF PoolInit, Waiting, Known, Idle, InFlight
<1>4. Held
  BY DEF PoolInit, Held, HeldBy, Idle
<1>5. Made
  <2>1. 0 \in 0..MaxLinks /\ \A l \in Links : ~(l <= 0)
    BY LinksAssumption DEF Links
  <2>2. \A l \in Links : life[l] # "none" <=> l <= 0
    BY <2>1 DEF PoolInit
  <2>3. \A k \in Calls : ~InFlight(k) /\ call[k].link = NoLink
    BY DEF PoolInit, Idle, InFlight
  <2>4. \A l \in Links : keys[l] = {}
    BY DEF PoolInit
  <2> QED  BY <2>1, <2>2, <2>3, <2>4 DEF Made
<1>6. Matched /\ Findable
  BY DEF PoolInit, Matched, Findable
<1> QED  BY <1>2, <1>3, <1>4, <1>5, <1>6 DEF PoolInv

\* A step of a stream alone.
LEMMA StreamKeeps ==
    ASSUME PoolInv, UNCHANGED <<target, call, dialing, pool, keys, life>>,
           \A s \in Streams : ended[s] => ended'[s],
           ended' \in [Streams -> BOOLEAN], Waiting',
           stage' \in [Streams -> {"get", "wait", "reserved", "open", "over"}],
           link' \in [Streams -> Links \cup {NoLink}], awaits' \in [Streams -> Calls \cup {0}]
    PROVE  PoolInv'
<1>1. Typed'
  BY DEF PoolInv, Typed
<1>2. Held'
  BY DEF PoolInv, Held, HeldBy
<1>3. \A k \in Calls : InFlight(k)' <=> InFlight(k)
  BY DEF InFlight
<1>4. Known'
  <2>1. \A t \in Targets : dialing[t] # 0 => dialing[t] \in Calls
    BY DEF PoolInv, Typed
  <2> QED  BY <1>3, <2>1 DEF PoolInv, Known
<1>5. Made'
  BY <1>3 DEF PoolInv, Made
<1>6. Matched' /\ Findable'
  BY <1>3 DEF PoolInv, Matched, Findable
<1> QED  BY <1>1, <1>2, <1>4, <1>5, <1>6 DEF PoolInv

\* A stream that waited for nothing goes on without waiting.
LEMMA GoOnKeeps ==
    ASSUME PoolInv, NEW s \in Streams, stage[s] # "wait",
           UNCHANGED <<target, call, dialing, pool, keys, life>>,
           \A q \in Streams : ended[q] => ended'[q], ended' \in [Streams -> BOOLEAN],
           NEW next \in {"get", "reserved", "open", "over"}, stage' = [stage EXCEPT ![s] = next],
           NEW l \in Links \cup {NoLink}, link' = [link EXCEPT ![s] = l],
           awaits' = [awaits EXCEPT ![s] = 0]
    PROVE  PoolInv'
<1>1. awaits[s] = 0
  BY DEF PoolInv, Waiting
<1>2. awaits' = awaits
  BY <1>1 DEF PoolInv, Typed
<1>3. Waiting'
  BY <1>1, <1>2 DEF PoolInv, Waiting, Typed
<1>4. /\ stage' \in [Streams -> {"get", "wait", "reserved", "open", "over"}]
      /\ link' \in [Streams -> Links \cup {NoLink}] /\ awaits' \in [Streams -> Calls \cup {0}]
  BY <1>2 DEF PoolInv, Typed
<1> QED  BY <1>3, <1>4, StreamKeeps

\* A new dial.
LEMMA StartKeepsPool ==
    ASSUME PoolInv, NEW s \in Streams, stage[s] = "get", dialing[target[s]] = 0, StartCall(s),
           stage' = [stage EXCEPT ![s] = "wait"], UNCHANGED <<target, ended, link, pool, keys, life>>
    PROVE  PoolInv'
<1>1. PICK k \in Calls :
         /\ call[k].phase = "idle"
         /\ call' = [call EXCEPT ![k] = [Idle EXCEPT !.phase = "dial", !.starter = s]]
         /\ dialing' = [dialing EXCEPT ![target[s]] = k]
         /\ awaits' = [awaits EXCEPT ![s] = k]
  <2>1. \E k \in Calls : /\ call[k].phase = "idle"
                         /\ \A j \in Calls : call[j].phase = "idle" => k <= j
    BY SomeCallIsIdle DEF PoolInv
  <2> QED  BY <2>1 DEF StartCall
<1> DEFINE new == [Idle EXCEPT !.phase = "dial", !.starter = s]
<1>2. /\ new \in CallRecords /\ new.phase = "dial" /\ new.starter = s
      /\ new.link = NoLink /\ new.err = "none"
  BY DEF Idle, CallRecords, Phases
<1>3. call' = [call EXCEPT ![k] = new]
  BY <1>1
<1> HIDE DEF new
<1>4. /\ call' \in [Calls -> CallRecords] /\ call'[k] = new
      /\ \A j \in Calls : j # k => call'[j] = call[j]
  BY <1>2, <1>3 DEF PoolInv, Typed
<1>5. target[s] \in Targets /\ awaits[s] = 0 /\ k # 0
  BY CallsAreNumbers DEF PoolInv, Typed, Waiting
<1>6. Typed'
  BY <1>1, <1>4, <1>5 DEF PoolInv, Typed
<1>7. Waiting'
  <2>1. \A q \in Streams : awaits'[q] = IF q = s THEN k ELSE awaits[q]
    BY <1>1 DEF PoolInv, Typed
  <2>2. \A q \in Streams : stage'[q] = IF q = s THEN "wait" ELSE stage[q]
    BY DEF PoolInv, Typed
  <2>3. \A q \in Streams : stage'[q] = "wait" <=> awaits'[q] # 0
    BY <1>5, <2>1, <2>2 DEF PoolInv, Waiting
  <2>4. \A q \in Streams : awaits'[q] # 0 => call'[awaits'[q]].phase # "idle"
    <3>1. TAKE q \in Streams
    <3>2. CASE q = s
      BY <1>2, <1>4, <2>1, <3>2
    <3>3. CASE q # s
      <4>1. HAVE awaits'[q] # 0
      <4>2. awaits'[q] = awaits[q] /\ awaits[q] \in Calls /\ call[awaits[q]].phase # "idle"
        BY <2>1, <3>3, <4>1 DEF PoolInv, Waiting, Typed
      <4>3. awaits[q] # k
        BY <1>1, <4>2
      <4> QED  BY <1>4, <4>2, <4>3
    <3> QED  BY <3>2, <3>3
  <2>5. \A j \in Calls : call'[j].phase # "idle" => \E q \in Streams : awaits'[q] = j
    <3>1. TAKE j \in Calls
    <3>2. CASE j = k
      BY <2>1, <3>2
    <3>3. CASE j # k
      <4>1. HAVE call'[j].phase # "idle"
      <4>2. PICK q \in Streams : awaits[q] = j
        BY <1>4, <3>3, <4>1 DEF PoolInv, Waiting
      <4>3. q # s
        BY <1>5, <4>2, CallsAreNumbers
      <4> QED  BY <2>1, <4>2, <4>3
    <3> QED  BY <3>2, <3>3
  <2> QED  BY <2>3, <2>4, <2>5 DEF Waiting
<1>8. \A j \in Calls : InFlight(j)' <=> InFlight(j) \/ j = k
  BY <1>2, <1>4 DEF InFlight
<1>9. ~InFlight(k)
  BY <1>1 DEF InFlight
<1>10. Held'
  <2>1. SUFFICES ASSUME NEW j \in Calls PROVE HeldBy(j)'
    BY DEF Held
  <2>2. CASE j = k
    BY <1>2, <1>4, <2>2 DEF HeldBy
  <2>3. CASE j # k
    BY <1>4, <2>3 DEF PoolInv, Held, HeldBy
  <2> QED  BY <2>2, <2>3
<1>11. Known'
  <2>1. \A t \in Targets : dialing'[t] = IF t = target[s] THEN k ELSE dialing[t]
    BY <1>1 DEF PoolInv, Typed
  <2>2. \A j \in Calls : InFlight(j) => call[j].starter \in Streams
    BY DEF PoolInv, Held, HeldBy, InFlight
  <2>3. \A j \in Calls : InFlight(j) => target[call[j].starter] # target[s]
    BY CallsAreNumbers DEF PoolInv, Known
  <2>4. \A j \in Calls : InFlight(j)' => dialing'[target'[call'[j].starter]] = j
    <3>1. TAKE j \in Calls
    <3>2. CASE j = k
      BY <1>2, <1>4, <1>5, <2>1, <3>2
    <3>3. CASE j # k
      <4>1. HAVE InFlight(j)'
      <4>2. InFlight(j) /\ call'[j] = call[j]
        BY <1>4, <1>8, <3>3, <4>1
      <4>3. target[call[j].starter] \in Targets
        BY <2>2, <4>2 DEF PoolInv, Typed
      <4> QED  BY <2>1, <2>3, <4>2, <4>3 DEF PoolInv, Known
    <3> QED  BY <3>2, <3>3
  <2>5. \A t \in Targets : dialing'[t] # 0 =>
             InFlight(dialing[t])' /\ target'[call'[dialing'[t]].starter] = t
    <3>1. TAKE t \in Targets
    <3>2. CASE t = target[s]
      BY <1>2, <1>4, <2>1, <3>2 DEF InFlight
    <3>3. CASE t # target[s]
      <4>1. HAVE dialing'[t] # 0
      <4>2. /\ dialing'[t] = dialing[t] /\ dialing[t] \in Calls
            /\ InFlight(dialing[t]) /\ target[call[dialing[t]].starter] = t
        BY <2>1, <3>3, <4>1 DEF PoolInv, Known, Typed
      <4>3. dialing[t] # k
        BY <1>9, <4>2
      <4> QED  BY <1>4, <4>2, <4>3 DEF InFlight
    <3> QED  BY <3>2, <3>3
  <2> QED  BY <2>4, <2>5 DEF Known
<1>12. Made'
  <2>1. \A j \in Calls : call'[j].link # NoLink => j # k /\ call'[j] = call[j]
    BY <1>2, <1>4
  <2>2. \A j \in Calls : call'[j].link # NoLink => life'[call'[j].link] # "none"
    BY <2>1 DEF PoolInv, Made
  <2>3. \A i, j \in Calls : InFlight(i)' /\ InFlight(j)' /\ i # j /\ call'[i].link # NoLink
                            => call'[i].link # call'[j].link
    <3>1. TAKE i, j \in Calls
    <3>2. HAVE InFlight(i)' /\ InFlight(j)' /\ i # j /\ call'[i].link # NoLink
    <3>3. i # k /\ call'[i] = call[i] /\ InFlight(i)
      BY <1>8, <2>1, <3>2
    <3>4. CASE j = k
      BY <1>2, <1>4, <3>2, <3>4
    <3>5. CASE j # k
      BY <1>4, <1>8, <3>2, <3>3, <3>5 DEF PoolInv, Made
    <3> QED  BY <3>4, <3>5
  <2>4. \A j \in Calls : InFlight(j)' /\ call'[j].link # NoLink => keys'[call'[j].link] = {}
    BY <1>8, <2>1 DEF PoolInv, Made
  <2>5. /\ \E n \in 0..MaxLinks : \A l \in Links : life'[l] # "none" <=> l <= n
        /\ \A l \in Links : keys'[l] # {} => life'[l] # "none"
    BY DEF PoolInv, Made
  <2> QED  BY <2>2, <2>3, <2>4, <2>5 DEF Made
<1>13. Matched'
  BY DEF PoolInv, Matched
<1>14. Findable'
  <2>1. \A j \in Calls : InFlight(j) => InFlight(j)' /\ call'[j].link = call[j].link
    BY <1>4, <1>8, <1>9
  <2> QED  BY <2>1 DEF PoolInv, Findable
<1> QED  BY <1>6, <1>7, <1>10, <1>11, <1>12, <1>13, <1>14 DEF PoolInv

LEMMA GetKeeps == ASSUME PoolInv, NEW s \in Streams, GetClientConn(s) PROVE PoolInv'
<1>1. stage[s] = "get" /\ UNCHANGED <<target, ended, pool, keys, life>>
  BY DEF GetClientConn, Reserve
<1>2. \/ \E i \in DOMAIN pool[target[s]] : Reserve(s, pool[target[s]][i]) /\ UNCHANGED <<call, dialing>>
      \/ stage' = [stage EXCEPT ![s] = "wait"] /\ StartDial(s) /\ UNCHANGED link
  BY DEF GetClientConn
<1>3. ASSUME NEW i \in DOMAIN pool[target[s]], Reserve(s, pool[target[s]][i]),
             UNCHANGED <<call, dialing>>
      PROVE  PoolInv'
  <2>1. pool[target[s]] \in Seq(Links)
    BY DEF PoolInv, Typed
  <2>2. pool[target[s]][i] \in Links
    BY <2>1
  <2>3. ended' \in [Streams -> BOOLEAN] /\ \A q \in Streams : ended[q] => ended'[q]
    BY <1>1 DEF PoolInv, Typed
  <2> QED  BY <1>1, <1>3, <2>2, <2>3, GoOnKeeps DEF Reserve
<1>4. ASSUME stage' = [stage EXCEPT ![s] = "wait"], StartDial(s), UNCHANGED link
      PROVE  PoolInv'
  <2>1. CASE dialing[target[s]] = 0
    BY <1>1, <1>4, <2>1, StartKeepsPool DEF StartDial
  <2>2. CASE dialing[target[s]] # 0
    <3> DEFINE k == dialing[target[s]]
    <3>1. awaits' = [awaits EXCEPT ![s] = k] /\ UNCHANGED <<call, dialing>>
      BY <1>4, <2>2 DEF StartDial
    <3>2. k \in Calls /\ call[k].phase # "idle" /\ k # 0 /\ awaits[s] = 0
      <4>1. target[s] \in Targets /\ awaits[s] = 0
        BY <1>1 DEF PoolInv, Typed, Waiting
      <4>2. k \in Calls /\ InFlight(k)
        BY <2>2, <4>1 DEF PoolInv, Typed, Known
      <4> QED  BY <2>2, <4>1, <4>2 DEF InFlight
    <3> HIDE DEF k
    <3>3. \A q \in Streams : awaits'[q] = IF q = s THEN k ELSE awaits[q]
      BY <3>1 DEF PoolInv, Typed
    <3>4. \A q \in Streams : stage'[q] = IF q = s THEN "wait" ELSE stage[q]
      BY <1>4 DEF PoolInv, Typed
    <3>5. Waiting'
      <4>1. \A q \in Streams : stage'[q] = "wait" <=> awaits'[q] # 0
        BY <3>2, <3>3, <3>4 DEF PoolInv, Waiting
      <4>2. \A q \in Streams : awaits'[q] # 0 => call'[awaits'[q]].phase # "idle"
        BY <3>1, <3>2, <3>3 DEF PoolInv, Waiting
      <4>3. \A j \in Calls : call'[j].phase # "idle" => \E q \in Streams : awaits'[q] = j
        <5>1. TAKE j \in Calls
        <5>2. HAVE call'[j].phase # "idle"
        <5>3. PICK q \in Streams : awaits[q] = j
          BY <3>1, <5>2 DEF PoolInv, Waiting
        <5>4. q # s
          BY <3>2, <5>3, CallsAreNumbers
        <5> QED  BY <3>3, <5>3, <5>4
      <4> QED  BY <4>1, <4>2, <4>3 DEF Waiting
    <3>6. /\ stage' \in [Streams -> {"get", "wait", "reserved", "open", "over"}]
          /\ link' \in [Streams -> Links \cup {NoLink}] /\ awaits' \in [Streams -> Calls \cup {0}]
      BY <1>4, <3>1, <3>2 DEF PoolInv, Typed
    <3>7. ended' \in [Streams -> BOOLEAN] /\ \A q \in Streams : ended[q] => ended'[q]
      BY <1>1 DEF PoolInv, Typed
    <3> QED  BY <1>1, <3>1, <3>5, <3>6, <3>7, StreamKeeps
  <2> QED  BY <2>1, <2>2
<1> QED  BY <1>2, <1>3, <1>4

LEMMA RoundTripKeeps == ASSUME PoolInv, NEW s \in Streams, RoundTrip(s) PROVE PoolInv'
<1>1. /\ stage[s] = "reserved" /\ stage[s] # "wait"
      /\ UNCHANGED <<target, ended, call, dialing, pool, keys, life>>
  BY DEF RoundTrip, poolState, GiveUp, Again
<1>2. ended' \in [Streams -> BOOLEAN] /\ \A q \in Streams : ended[q] => ended'[q]
  BY <1>1 DEF PoolInv, Typed
<1>3. \/ stage' = [stage EXCEPT ![s] = "open"] /\ UNCHANGED <<awaits, link>>
      \/ GiveUp(s) \/ Again(s)
  BY DEF RoundTrip
<1>4. CASE stage' = [stage EXCEPT ![s] = "open"] /\ UNCHANGED <<awaits, link>>
  <2>1. awaits[s] = 0 /\ link[s] \in Links \cup {NoLink}
    BY <1>1 DEF PoolInv, Waiting, Typed
  <2>2. awaits' = [awaits EXCEPT ![s] = 0] /\ link' = [link EXCEPT ![s] = link[s]]
    BY <1>4, <2>1 DEF PoolInv, Typed
  <2> QED  BY <1>1, <1>2, <1>4, <2>1, <2>2, GoOnKeeps
<1>5. CASE GiveUp(s) \/ Again(s)
  <2>1. PICK next \in {"get", "over"} : stage' = [stage EXCEPT ![s] = next]
    BY <1>5 DEF GiveUp, Again
  <2>2. link' = [link EXCEPT ![s] = NoLink] /\ awaits' = [awaits EXCEPT ![s] = 0]
    BY <1>5 DEF GiveUp, Again
  <2>3. next \in {"get", "reserved", "open", "over"} /\ NoLink \in Links \cup {NoLink}
    OBVIOUS
  <2> QED  BY <1>1, <1>2, <2>1, <2>2, <2>3, GoOnKeeps
<1> QED  BY <1>3, <1>4, <1>5

LEMMA EndOfStreamKeeps ==
    ASSUME PoolInv, NEW s \in Streams, CloseStream(s) \/ CancelStream(s)
    PROVE  PoolInv'
<1>1. /\ ended' = [ended EXCEPT ![s] = TRUE]
      /\ UNCHANGED <<target, call, dialing, pool, keys, life>>
  BY DEF CloseStream, CancelStream, poolState
<1>2. ended' \in [Streams -> BOOLEAN] /\ \A q \in Streams : ended[q] => ended'[q]
  BY <1>1 DEF PoolInv, Typed
<1>3. CASE CloseStream(s)
  <2>1. /\ stage[s] # "wait" /\ stage' = [stage EXCEPT ![s] = "over"]
        /\ link' = [link EXCEPT ![s] = NoLink] /\ UNCHANGED awaits
    BY <1>3 DEF CloseStream
  <2>2. awaits' = [awaits EXCEPT ![s] = 0]
    BY <2>1 DEF PoolInv, Waiting, Typed
  <2>3. "over" \in {"get", "reserved", "open", "over"} /\ NoLink \in Links \cup {NoLink}
    OBVIOUS
  <2> QED  BY <1>1, <1>2, <2>1, <2>2, <2>3, GoOnKeeps
<1>4. CASE CancelStream(s)
  <2>1. UNCHANGED <<stage, link, awaits>>
    BY <1>4 DEF CancelStream
  <2>2. Waiting'
    BY <1>1, <2>1 DEF PoolInv, Waiting
  <2>3. /\ stage' \in [Streams -> {"get", "wait", "reserved", "open", "over"}]
        /\ link' \in [Streams -> Links \cup {NoLink}] /\ awaits' \in [Streams -> Calls \cup {0}]
    BY <2>1 DEF PoolInv, Typed
  <2> QED  BY <1>1, <1>2, <2>2, <2>3, StreamKeeps
<1> QED  BY <1>3, <1>4

\* A waiting stream hears of the end of its dial; the last one to hear of it leaves
\* nothing of the call.
LEMMA CallDoneKeeps == ASSUME PoolInv, NEW s \in Streams, CallDone(s) PROVE PoolInv'
<1> DEFINE k == awaits[s]
<1>1. /\ stage[s] = "wait" /\ call[k].phase = "done"
      /\ call' = IF \E q \in Streams \ {s} : awaits[q] = k THEN call ELSE [call EXCEPT ![k] = Idle]
      /\ UNCHANGED <<target, ended, dialing, pool, keys, life>>
  BY DEF CallDone, poolState, Again, GiveUp, Reserve
<1>2. k \in Calls /\ k # 0
  BY <1>1 DEF PoolInv, Typed, Waiting
<1>3. \E next \in {"get", "over", "reserved"}, l \in Links \cup {NoLink} :
         /\ stage' = [stage EXCEPT ![s] = next] /\ link' = [link EXCEPT ![s] = l]
         /\ awaits' = [awaits EXCEPT ![s] = 0]
  <2>1. call[k].link \in Links \cup {NoLink}
    BY <1>2 DEF PoolInv, Typed, CallRecords
  <2>2. Again(s) \/ GiveUp(s) \/ Reserve(s, call[k].link)
    BY DEF CallDone
  <2> QED  BY <2>1, <2>2 DEF Again, GiveUp, Reserve
<1> HIDE DEF k
<1>4. PICK next \in {"get", "over", "reserved"}, l \in Links \cup {NoLink} :
         /\ stage' = [stage EXCEPT ![s] = next] /\ link' = [link EXCEPT ![s] = l]
         /\ awaits' = [awaits EXCEPT ![s] = 0]
  BY <1>3
<1>5. \A q \in Streams : awaits'[q] = IF q = s THEN 0 ELSE awaits[q]
  BY <1>4 DEF PoolInv, Typed
<1>6. \A q \in Streams : stage'[q] = IF q = s THEN next ELSE stage[q]
  BY <1>4 DEF PoolInv, Typed
<1>7. Idle \in CallRecords /\ Idle.phase = "idle" /\ Idle.link = NoLink /\ Idle.err = "none"
  BY DEF Idle, CallRecords, Phases
<1>8. /\ call' \in [Calls -> CallRecords]
      /\ \A j \in Calls : j # k => call'[j] = call[j]
      /\ call'[k] = call[k] \/ call'[k] = Idle
  BY <1>1, <1>2, <1>7 DEF PoolInv, Typed
<1>9. Typed'
  BY <1>1, <1>4, <1>8, CallsAreNumbers DEF PoolInv, Typed
<1>10. Waiting'
  <2>1. \A q \in Streams : stage'[q] = "wait" <=> awaits'[q] # 0
    BY <1>5, <1>6 DEF PoolInv, Waiting
  <2>2. ASSUME NEW q \in Streams, awaits'[q] # 0 PROVE call'[awaits'[q]].phase # "idle"
    <3>1. q # s /\ awaits'[q] = awaits[q] /\ awaits[q] \in Calls /\ call[awaits[q]].phase # "idle"
      BY <1>5, <2>2 DEF PoolInv, Waiting, Typed
    <3>2. CASE awaits[q] = k
      BY <1>1, <3>1, <3>2
    <3>3. CASE awaits[q] # k
      BY <1>8, <3>1, <3>3
    <3> QED  BY <3>2, <3>3
  <2>3. ASSUME NEW j \in Calls, call'[j].phase # "idle" PROVE \E q \in Streams : awaits'[q] = j
    <3>1. CASE j = k
      <4>1. \E q \in Streams \ {s} : awaits[q] = k
        <5>1. SUFFICES ASSUME ~ \E q \in Streams \ {s} : awaits[q] = k PROVE FALSE
          OBVIOUS
        <5>2. call' = [call EXCEPT ![k] = Idle]
          BY <1>1, <5>1
        <5>3. call'[k] = Idle
          BY <1>2, <5>2 DEF PoolInv, Typed
        <5> QED  BY <1>7, <2>3, <3>1, <5>3
      <4> QED  BY <1>5, <3>1, <4>1
    <3>2. CASE j # k
      <4>1. PICK q \in Streams : awaits[q] = j
        BY <1>8, <2>3, <3>2 DEF PoolInv, Waiting
      <4>2. q # s
        BY <3>2, <4>1 DEF k
      <4> QED  BY <1>5, <4>1, <4>2
    <3> QED  BY <3>1, <3>2
  <2> QED  BY <2>1, <2>2, <2>3 DEF Waiting
<1>11. \A j \in Calls : /\ InFlight(j)' <=> InFlight(j)
                        /\ InFlight(j) => j # k /\ call'[j] = call[j]
  BY <1>1, <1>7, <1>8 DEF InFlight
<1>12. Held'
  <2>1. SUFFICES ASSUME NEW j \in Calls PROVE HeldBy(j)'
    BY DEF Held
  <2>2. CASE j = k /\ call'[k] = Idle
    BY <1>7, <2>2 DEF HeldBy
  <2>3. CASE call'[j] = call[j]
    BY <1>1, <2>3 DEF PoolInv, Held, HeldBy
  <2> QED  BY <1>8, <2>2, <2>3
<1>13. Known'
  <2>1. \A j \in Calls : InFlight(j)' => dialing'[target'[call'[j].starter]] = j
    BY <1>1, <1>11 DEF PoolInv, Known
  <2>2. ASSUME NEW t \in Targets, dialing'[t] # 0
        PROVE  InFlight(dialing[t])' /\ target'[call'[dialing'[t]].starter] = t
    <3>1. /\ dialing'[t] = dialing[t] /\ dialing[t] \in Calls
          /\ InFlight(dialing[t]) /\ target[call[dialing[t]].starter] = t
      BY <1>1, <2>2 DEF PoolInv, Known, Typed
    <3> QED  BY <1>1, <1>11, <3>1 DEF InFlight
  <2> QED  BY <2>1, <2>2 DEF Known
<1>14. Made'
  <2>1. \A j \in Calls : call'[j].link # NoLink => call'[j] = call[j]
    BY <1>7, <1>8
  <2>2. \A j \in Calls : call'[j].link # NoLink => life'[call'[j].link] # "none"
    BY <1>1, <2>1 DEF PoolInv, Made
  <2>3. \A i, j \in Calls : InFlight(i)' /\ InFlight(j)' /\ i # j /\ call'[i].link # NoLink
                            => call'[i].link # call'[j].link
    BY <1>11 DEF PoolInv, Made
  <2>4. \A j \in Calls : InFlight(j)' /\ call'[j].link # NoLink => keys'[call'[j].link] = {}
    BY <1>1, <1>11 DEF PoolInv, Made
  <2>5. /\ \E n \in 0..MaxLinks : \A m \in Links : life'[m] # "none" <=> m <= n
        /\ \A m \in Links : keys'[m] # {} => life'[m] # "none"
    BY <1>1 DEF PoolInv, Made
  <2> QED  BY <2>2, <2>3, <2>4, <2>5 DEF Made
<1>15. Matched'
  BY <1>1 DEF PoolInv, Matched
<1>16. Findable'
  BY <1>1, <1>11 DEF PoolInv, Findable
<1> QED  BY <1>9, <1>10, <1>12, <1>13, <1>14, <1>15, <1>16 DEF PoolInv

\* DialLink: the dial fails, or the connection is the next one.
LEMMA DialLinkKeeps == ASSUME PoolInv, NEW k \in Calls, DialLink(k) PROVE PoolInv'
<1>1. call[k].phase = "dial" /\ UNCHANGED <<requester, poolState>>
  BY DEF DialLink
<1>2. /\ InFlight(k) /\ call[k].link = NoLink /\ call[k].err = "none" /\ call[k].starter \in Streams
      /\ call[k].phase # "idle"
  BY <1>1 DEF InFlight, PoolInv, Held, HeldBy
<1>3. /\ UNCHANGED <<target, stage, ended, link, awaits, dialing, pool, keys>>
  BY <1>1 DEF requester, poolState
<1>4. CASE DialFails(k, {"cancelled", "timeout", "refused"}) /\ UNCHANGED life
  <2>1. PICK e \in {"cancelled", "timeout", "refused"} :
           CallStep(k, "finish", NoLink, e) /\ (e = "cancelled" => ended[call[k].starter])
    BY <1>2, <1>4, DialFailsStep DEF PoolInv
  <2>2. Waiting' /\ Known' /\ Matched' /\ \A j \in Calls : InFlight(j)' <=> InFlight(j)
    BY <1>1, <1>2, <2>1, FlightGoesOn
  <2>3. Typed'
    BY <1>3, <1>4, <2>1 DEF PoolInv, Typed, CallStep
  <2>4. Held'
    <3>1. SUFFICES ASSUME NEW j \in Calls PROVE HeldBy(j)'
      BY DEF Held
    <3>2. CASE j = k
      BY <1>2, <1>3, <2>1, <3>2 DEF CallStep, HeldBy
    <3>3. CASE j # k
      BY <1>3, <1>4, <2>1, <3>3 DEF CallStep, PoolInv, Held, HeldBy
    <3> QED  BY <3>2, <3>3
  <2>5. \A j \in Calls : call'[j].link = call[j].link
    BY <1>2, <2>1 DEF CallStep
  <2>6. Made'
    BY <1>3, <1>4, <2>2, <2>5 DEF PoolInv, Made
  <2>7. Findable'
    BY <1>3, <1>4, <2>2, <2>5 DEF PoolInv, Findable
  <2> QED  BY <2>2, <2>3, <2>4, <2>6, <2>7 DEF PoolInv
<1>5. ASSUME NEW l \in Links, l = 1 + Cardinality({m \in Links : life[m] # "none"}),
             life' = [life EXCEPT ![l] = "up"],
             call' = [call EXCEPT ![k].phase = IF Garbage THEN "prepare" ELSE "finish",
                                  ![k].link = l]
      PROVE  PoolInv'
  <2> DEFINE p == IF Garbage THEN "prepare" ELSE "finish"
             new == [call[k] EXCEPT !.phase = p, !.link = l]
  <2>1. p \in {"prepare", "finish"}
    OBVIOUS
  <2>2. call \in [Calls -> CallRecords] /\ call[k] \in CallRecords
    BY DEF PoolInv, Typed
  <2>3. call' = [call EXCEPT ![k] = new]
    BY <1>5
  <2> HIDE DEF p
  <2>4. /\ new \in CallRecords /\ new.phase = p /\ new.link = l
        /\ new.err = "none" /\ new.starter = call[k].starter
    BY <1>2, <2>1, <2>2 DEF CallRecords, Phases
  <2> HIDE DEF new
  <2>5. CallStep(k, p, l, "none")
    BY <1>2, <2>2, <2>3, <2>4 DEF CallStep
  <2>6. Waiting' /\ Known' /\ Matched' /\ \A j \in Calls : InFlight(j)' <=> InFlight(j)
    BY <1>1, <1>2, <2>1, <2>5, FlightGoesOn
  <2>7. \A m \in Links : life'[m] = IF m = l THEN "up" ELSE life[m]
    BY <1>5 DEF PoolInv, Typed
  <2>8. PICK n \in 0..MaxLinks : \A m \in Links : life[m] # "none" <=> m <= n
    BY DEF PoolInv, Made
  <2>9. l = n + 1
    <3> DEFINE made == {m \in Links : life[m] # "none"}
    <3>1. made = 1..n
      BY <2>8, LinksAssumption DEF Links
    <3>2. Cardinality(1..n) = n
      BY FS_Interval
    <3>3. l = 1 + Cardinality(made)
      BY <1>5
    <3> HIDE DEF made
    <3> QED  BY <3>1, <3>2, <3>3
  <2>10. n + 1 \in 0..MaxLinks /\ \A m \in Links : life'[m] # "none" <=> m <= n + 1
    BY <2>7, <2>8, <2>9, LinksAssumption DEF Links
  <2>11. life[l] = "none" /\ l # NoLink
    BY <2>8, <2>9, CallsAreNumbers
  <2>12. \A j \in Calls : call[j].link # l
    BY <2>11 DEF PoolInv, Made
  <2>13. keys[l] = {}
    BY <2>11 DEF PoolInv, Made
  <2>14. Typed'
    BY <1>3, <1>5, <2>5 DEF PoolInv, Typed, CallStep
  <2>15. Held'
    <3>1. SUFFICES ASSUME NEW j \in Calls PROVE HeldBy(j)'
      BY DEF Held
    <3>2. CASE j = k
      BY <1>2, <1>3, <2>1, <2>5, <2>11, <3>2 DEF CallStep, HeldBy
    <3>3. CASE j # k
      <4>1. call'[j] = call[j] /\ (call[j].link # NoLink => life'[call[j].link] = life[call[j].link])
        BY <2>5, <2>7, <2>12, <3>3 DEF CallStep, PoolInv, Typed, CallRecords
      <4> QED  BY <1>3, <4>1 DEF PoolInv, Held, HeldBy
    <3> QED  BY <3>2, <3>3
  <2>16. Made'
    <3>1. \A j \in Calls : call'[j].link = IF j = k THEN l ELSE call[j].link
      BY <2>5 DEF CallStep
    <3>2. \A j \in Calls : call'[j].link # NoLink => life'[call'[j].link] # "none"
      <4>1. \A j \in Calls : call[j].link # NoLink => call[j].link \in Links
        BY DEF PoolInv, Typed, CallRecords
      <4> QED  BY <2>7, <3>1, <4>1 DEF PoolInv, Made
    <3>3. \A m \in Links : keys'[m] # {} => life'[m] # "none"
      BY <1>3, <2>7 DEF PoolInv, Made
    <3>4. \A i, j \in Calls : InFlight(i)' /\ InFlight(j)' /\ i # j /\ call'[i].link # NoLink
                              => call'[i].link # call'[j].link
      BY <2>6, <2>12, <3>1 DEF PoolInv, Made
    <3>5. \A j \in Calls : InFlight(j)' /\ call'[j].link # NoLink => keys'[call'[j].link] = {}
      BY <1>3, <2>6, <2>13, <3>1 DEF PoolInv, Made
    <3> QED  BY <2>10, <3>2, <3>3, <3>4, <3>5 DEF Made
  <2>17. Findable'
    <3>1. SUFFICES ASSUME NEW m \in Links, life'[m] = "up"
                   PROVE  \/ \E t \in Targets : keys'[m] = {t}
                          \/ \E j \in Calls : InFlight(j)' /\ call'[j].link = m
      BY DEF Findable
    <3>2. CASE m = l
      BY <1>2, <2>5, <2>6, <3>2 DEF CallStep
    <3>3. CASE m # l
      <4>1. \/ \E t \in Targets : keys[m] = {t}
            \/ \E j \in Calls : InFlight(j) /\ call[j].link = m
        BY <2>7, <3>1, <3>3 DEF PoolInv, Findable
      <4>2. \A j \in Calls : call[j].link = m => j # k /\ call'[j] = call[j]
        BY <1>2, <2>5, CallsAreNumbers DEF CallStep
      <4> QED  BY <1>3, <2>6, <4>1, <4>2
    <3> QED  BY <3>2, <3>3
  <2> QED  BY <2>6, <2>14, <2>15, <2>16, <2>17 DEF PoolInv
<1> QED  BY <1>4, <1>5 DEF DialLink

LEMMA PrepareKeeps == ASSUME PoolInv, NEW k \in Calls, Prepare(k) PROVE PoolInv'
<1>1. call[k].phase = "prepare" /\ UNCHANGED <<requester, poolState>>
  BY DEF Prepare
<1> DEFINE l == call[k].link
<1>2. /\ InFlight(k) /\ call[k].link # NoLink /\ call[k].err = "none" /\ call[k].starter \in Streams
      /\ l \in Links
  BY <1>1 DEF InFlight, PoolInv, Held, HeldBy, Typed, CallRecords
<1> HIDE DEF l
<1>3. UNCHANGED <<target, stage, ended, link, awaits, dialing, pool, keys>>
  BY <1>1 DEF requester, poolState
<1>4. PICK e \in {"none", "cancelled", "timeout", "refused"} :
         /\ CallStep(k, "finish", l, e)
         /\ e = "cancelled" => ended[call[k].starter]
         /\ IF e = "none" THEN UNCHANGED life
            ELSE life' = [life EXCEPT ![l] = IF @ = "up" THEN "stray" ELSE @]
  <2>1. CASE call' = [call EXCEPT ![k].phase = "finish"] /\ UNCHANGED life
    <3>1. CallStep(k, "finish", l, "none")
      BY <1>2, <2>1, PhaseStep DEF PoolInv, Phases, l
    <3> QED  BY <2>1, <3>1
  <2>2. CASE /\ DialFails(k, {"cancelled", "refused"})
             /\ life' = [life EXCEPT ![call[k].link] = IF @ = "up" THEN "stray" ELSE @]
    <3>1. \E e \in {"cancelled", "timeout", "refused"} :
              /\ CallStep(k, "finish", call[k].link, e)
              /\ e = "cancelled" => ended[call[k].starter]
      BY <2>2, DialFailsStep DEF PoolInv
    <3> QED  BY <2>2, <3>1 DEF l
  <2> QED  BY <2>1, <2>2 DEF Prepare
<1>5. Waiting' /\ Known' /\ Matched' /\ \A j \in Calls : InFlight(j)' <=> InFlight(j)
  BY <1>1, <1>2, <1>4, FlightGoesOn
<1>6. /\ life' \in [Links -> {"none", "up", "broken", "dead", "stray"}]
      /\ \A m \in Links : life'[m] = "up" => life[m] = "up"
      /\ \A m \in Links : life'[m] = "none" <=> life[m] = "none"
      /\ e # "none" => life'[l] # "up"
  BY <1>2, <1>4 DEF PoolInv, Typed
<1>7. Typed'
  BY <1>3, <1>4, <1>6 DEF PoolInv, Typed, CallStep
<1>8. \A j \in Calls : call'[j].link = call[j].link /\ call[j].link \in Links \cup {NoLink}
  BY <1>4 DEF CallStep, PoolInv, Typed, CallRecords, l
<1>9. Held'
  <2>1. SUFFICES ASSUME NEW j \in Calls PROVE HeldBy(j)'
    BY DEF Held
  <2>2. CASE j = k
    BY <1>2, <1>3, <1>4, <1>6, <2>2 DEF CallStep, HeldBy, l
  <2>3. CASE j # k
    BY <1>3, <1>4, <1>6, <1>8, <2>3 DEF CallStep, PoolInv, Held, HeldBy
  <2> QED  BY <2>2, <2>3
<1>10. Made'
  <2>1. \A j \in Calls : call'[j].link # NoLink => life'[call'[j].link] # "none"
    BY <1>6, <1>8 DEF PoolInv, Made
  <2>2. /\ \E n \in 0..MaxLinks : \A m \in Links : life'[m] # "none" <=> m <= n
        /\ \A m \in Links : keys'[m] # {} => life'[m] # "none"
    BY <1>3, <1>6 DEF PoolInv, Made
  <2>3. /\ \A i, j \in Calls : InFlight(i)' /\ InFlight(j)' /\ i # j /\ call'[i].link # NoLink
                               => call'[i].link # call'[j].link
        /\ \A j \in Calls : InFlight(j)' /\ call'[j].link # NoLink => keys'[call'[j].link] = {}
    BY <1>3, <1>5, <1>8 DEF PoolInv, Made
  <2> QED  BY <2>1, <2>2, <2>3 DEF Made
<1>11. Findable'
  BY <1>3, <1>5, <1>6, <1>8 DEF PoolInv, Findable
<1> QED  BY <1>5, <1>7, <1>9, <1>10, <1>11 DEF PoolInv

LEMMA EndDialKeeps == ASSUME PoolInv, NEW k \in Calls, EndDial(k) PROVE PoolInv'
<1> DEFINE t == target[call[k].starter]
           l == call[k].link
<1>1. /\ call[k].phase = "finish" /\ UNCHANGED <<target, stage, ended, link, awaits, life>>
      /\ dialing' = [dialing EXCEPT ![t] = 0]
      /\ IF call[k].err = "none" THEN AddConn(t, l) ELSE UNCHANGED <<pool, keys>>
      /\ call' = [call EXCEPT ![k].phase = "close"]
  BY DEF EndDial, requester
<1>2. CallStep(k, "close", l, call[k].err)
  BY <1>1, PhaseStep DEF PoolInv, Phases
<1>3. /\ InFlight(k) /\ call[k].starter \in Streams /\ t \in Targets /\ dialing[t] = k
      /\ call[k].err = "none" => l \in Links /\ l # NoLink
  BY <1>1 DEF InFlight, PoolInv, Held, HeldBy, Typed, CallRecords, Known
<1> HIDE DEF t, l
<1>4. \A j \in Calls : /\ InFlight(j)' <=> InFlight(j) /\ j # k
                       /\ call'[j].link = call[j].link /\ call'[j].err = call[j].err
                       /\ call'[j].starter = call[j].starter
  BY <1>2 DEF CallStep, InFlight, l
<1>5. \A u \in Targets : dialing'[u] = IF u = t THEN 0 ELSE dialing[u]
  BY <1>1 DEF PoolInv, Typed
<1>6. /\ pool' \in [Targets -> Seq(Links)] /\ keys' \in [Links -> SUBSET Targets]
      /\ Matched'
      /\ \A m \in Links : ~(m = l /\ call[k].err = "none") => keys'[m] = keys[m]
      /\ call[k].err = "none" => keys'[l] = {t}
  <2>1. CASE call[k].err # "none"
    <3>1. UNCHANGED <<pool, keys>>
      BY <1>1, <2>1
    <3> QED  BY <2>1, <3>1 DEF PoolInv, Typed, Matched
  <2>2. CASE call[k].err = "none"
    <3>1. pool' = [pool EXCEPT ![t] = Append(pool[t], l)] /\ keys' = [keys EXCEPT ![l] = keys[l] \cup {t}]
      BY <1>1, <2>2 DEF AddConn
    <3>2. keys[l] = {}
      BY <1>3, <2>2 DEF PoolInv, Made, l
    <3> DEFINE new == Append(pool[t], l)
    <3>3. pool[t] \in Seq(Links) /\ l \in Links
      BY <1>3, <2>2 DEF PoolInv, Typed
    <3>4. /\ new \in Seq(Links) /\ Len(pool[t]) \in Nat /\ Len(new) = Len(pool[t]) + 1
          /\ new[Len(pool[t]) + 1] = l
          /\ \A i \in 1..Len(pool[t]) : new[i] = pool[t][i]
      BY <3>3, AppendProperties
    <3> HIDE DEF new
    <3>5. \A u \in Targets : pool'[u] = IF u = t THEN new ELSE pool[u]
      BY <3>1 DEF PoolInv, Typed, new
    <3>6. \A m \in Links : keys'[m] = IF m = l THEN {t} ELSE keys[m]
      BY <3>1, <3>2 DEF PoolInv, Typed
    <3>7. pool' \in [Targets -> Seq(Links)] /\ keys' \in [Links -> SUBSET Targets]
      <4>1. pool' = [pool EXCEPT ![t] = new]
        BY <3>1 DEF new
      <4>2. keys' = [keys EXCEPT ![l] = {t}]
        BY <3>1, <3>2
      <4> QED  BY <1>3, <3>4, <4>1, <4>2 DEF PoolInv, Typed
    <3>8. ASSUME NEW m \in Links, NEW u \in Targets
          PROVE  u \in keys'[m] <=> \E i \in 1..Len(pool'[u]) : pool'[u][i] = m
      <4>1. u \in keys[m] <=> \E i \in 1..Len(pool[u]) : pool[u][i] = m
        BY DEF PoolInv, Matched
      <4>2. CASE u # t
        BY <3>2, <3>5, <3>6, <4>1, <4>2
      <4>3. CASE u = t
        <5>1. (\E i \in 1..Len(new) : new[i] = m)
                 <=> m = l \/ \E i \in 1..Len(pool[t]) : pool[t][i] = m
          BY <3>4
        <5> QED  BY <3>2, <3>5, <3>6, <4>1, <4>3, <5>1
      <4> QED  BY <4>2, <4>3
    <3> QED  BY <3>6, <3>7, <3>8, <1>3, <2>2 DEF Matched
  <2> QED  BY <2>1, <2>2
<1>7. Typed'
  BY <1>1, <1>2, <1>6 DEF PoolInv, Typed, CallStep
<1>8. Waiting'
  <2>1. \A j \in Calls : call'[j].phase # "idle" <=> call[j].phase # "idle"
    BY <1>1, <1>2 DEF CallStep
  <2>2. \A s \in Streams : awaits[s] # 0 => awaits[s] \in Calls
    BY DEF PoolInv, Typed
  <2> QED  BY <1>1, <2>1, <2>2 DEF PoolInv, Waiting
<1>9. Held'
  <2>1. SUFFICES ASSUME NEW j \in Calls PROVE HeldBy(j)'
    BY DEF Held
  <2>2. HeldBy(j)
    BY DEF PoolInv, Held
  <2>3. CASE j = k
    BY <1>1, <1>2, <1>3, <2>2, <2>3 DEF CallStep, HeldBy, l
  <2>4. CASE j # k
    BY <1>1, <1>2, <2>2, <2>4 DEF CallStep, HeldBy
  <2> QED  BY <2>3, <2>4
<1>10. Known'
  <2>1. ASSUME NEW j \in Calls, InFlight(j)' PROVE dialing'[target'[call'[j].starter]] = j
    <3>1. InFlight(j) /\ j # k
      BY <1>4, <2>1
    <3>2. target[call[j].starter] \in Targets /\ dialing[target[call[j].starter]] = j
      BY <3>1 DEF PoolInv, Held, HeldBy, InFlight, Typed, Known
    <3>3. target[call[j].starter] # t
      BY <1>3, <3>1, <3>2
    <3> QED  BY <1>1, <1>4, <1>5, <3>2, <3>3
  <2>2. ASSUME NEW u \in Targets, dialing'[u] # 0
        PROVE  InFlight(dialing[u])' /\ target'[call'[dialing'[u]].starter] = u
    <3>1. u # t /\ dialing'[u] = dialing[u] /\ dialing[u] \in Calls
      BY <1>5, <2>2 DEF PoolInv, Typed
    <3>2. InFlight(dialing[u]) /\ target[call[dialing[u]].starter] = u
      BY <2>2, <3>1 DEF PoolInv, Known
    <3>3. dialing[u] # k
      BY <3>1, <3>2 DEF t
    <3>4. call'[dialing[u]] = call[dialing[u]]
      BY <1>2, <3>1, <3>3 DEF CallStep
    <3> QED  BY <1>1, <3>1, <3>2, <3>4 DEF InFlight
  <2> QED  BY <2>1, <2>2 DEF Known
<1>11. Made'
  <2>1. \A j \in Calls : call'[j].link # NoLink => life'[call'[j].link] # "none"
    BY <1>1, <1>4 DEF PoolInv, Made
  <2>2. \E n \in 0..MaxLinks : \A m \in Links : life'[m] # "none" <=> m <= n
    BY <1>1 DEF PoolInv, Made
  <2>3. \A m \in Links : keys'[m] # {} => life'[m] # "none"
    <3>1. call[k].err = "none" => life[l] # "none"
      BY <1>3 DEF PoolInv, Made, l
    <3> QED  BY <1>1, <1>6, <3>1 DEF PoolInv, Made
  <2>4. \A i, j \in Calls : InFlight(i)' /\ InFlight(j)' /\ i # j /\ call'[i].link # NoLink
                            => call'[i].link # call'[j].link
    BY <1>4 DEF PoolInv, Made
  <2>5. ASSUME NEW j \in Calls, InFlight(j)', call'[j].link # NoLink
        PROVE  keys'[call'[j].link] = {}
    <3>1. InFlight(j) /\ j # k /\ call'[j].link = call[j].link /\ call[j].link # NoLink
      BY <1>4, <2>5
    <3>2. keys[call[j].link] = {} /\ call[j].link # l /\ call[j].link \in Links
      BY <1>3, <3>1 DEF PoolInv, Made, Typed, CallRecords, l
    <3> QED  BY <1>6, <3>1, <3>2
  <2> QED  BY <2>1, <2>2, <2>3, <2>4, <2>5 DEF Made
<1>12. Findable'
  <2>1. SUFFICES ASSUME NEW m \in Links, life'[m] = "up"
                 PROVE  \/ \E u \in Targets : keys'[m] = {u}
                        \/ \E j \in Calls : InFlight(j)' /\ call'[j].link = m
    BY DEF Findable
  <2>2. life[m] = "up" /\ (\/ \E u \in Targets : keys[m] = {u}
                           \/ \E j \in Calls : InFlight(j) /\ call[j].link = m)
    BY <1>1, <2>1 DEF PoolInv, Findable
  <2>3. CASE m = l /\ call[k].err = "none"
    BY <1>3, <1>6, <2>3
  <2>4. CASE m = l /\ call[k].err # "none"
    BY <1>1, <2>2, <2>4, CallsAreNumbers DEF PoolInv, Held, HeldBy, l
  <2>5. CASE m # l
    <3>1. \A j \in Calls : call[j].link = m => j # k
      BY <2>5 DEF l
    <3> QED  BY <1>4, <1>6, <2>2, <2>5, <3>1
  <2> QED  BY <2>3, <2>4, <2>5
<1> QED  BY <1>6, <1>7, <1>8, <1>9, <1>10, <1>11, <1>12 DEF PoolInv

LEMMA CloseDoneKeeps == ASSUME PoolInv, NEW k \in Calls, CloseDone(k) PROVE PoolInv'
<1>1. /\ call[k].phase = "close" /\ call' = [call EXCEPT ![k].phase = "done"]
      /\ UNCHANGED <<target, stage, ended, link, awaits, dialing, pool, keys, life>>
  BY DEF CloseDone, requester, poolState
<1>2. CallStep(k, "done", call[k].link, call[k].err)
  BY <1>1, PhaseStep DEF PoolInv, Phases
<1>3. \A j \in Calls : /\ InFlight(j)' <=> InFlight(j)
                       /\ InFlight(j) => j # k
                       /\ call'[j].phase # "idle" <=> call[j].phase # "idle"
                       /\ call'[j].link = call[j].link /\ call'[j].starter = call[j].starter
  BY <1>1, <1>2 DEF CallStep, InFlight
<1>4. Typed'
  BY <1>1, <1>2 DEF PoolInv, Typed, CallStep
<1>5. Waiting'
  <2>1. \A s \in Streams : awaits[s] # 0 => awaits[s] \in Calls
    BY DEF PoolInv, Typed
  <2> QED  BY <1>1, <1>3, <2>1 DEF PoolInv, Waiting
<1>6. Held'
  <2>1. SUFFICES ASSUME NEW j \in Calls PROVE HeldBy(j)'
    BY DEF Held
  <2>2. HeldBy(j)
    BY DEF PoolInv, Held
  <2>3. CASE j = k
    BY <1>1, <1>2, <2>2, <2>3 DEF CallStep, HeldBy
  <2>4. CASE j # k
    BY <1>1, <1>2, <2>2, <2>4 DEF CallStep, HeldBy
  <2> QED  BY <2>3, <2>4
<1>7. Known'
  <2>1. \A j \in Calls : InFlight(j)' => dialing'[target'[call'[j].starter]] = j
    BY <1>1, <1>3 DEF PoolInv, Known
  <2>2. ASSUME NEW u \in Targets, dialing'[u] # 0
        PROVE  InFlight(dialing[u])' /\ target'[call'[dialing'[u]].starter] = u
    <3>1. /\ dialing'[u] = dialing[u] /\ dialing[u] \in Calls
          /\ InFlight(dialing[u]) /\ target[call[dialing[u]].starter] = u
      BY <1>1, <2>2 DEF PoolInv, Known, Typed
    <3>2. call'[dialing[u]] = call[dialing[u]]
      BY <1>2, <1>3, <3>1 DEF CallStep
    <3> QED  BY <1>1, <3>1, <3>2 DEF InFlight
  <2> QED  BY <2>1, <2>2 DEF Known
<1>8. Made'
  BY <1>1, <1>3 DEF PoolInv, Made
<1>9. Matched' /\ Findable'
  BY <1>1, <1>3 DEF PoolInv, Matched, Findable
<1> QED  BY <1>4, <1>5, <1>6, <1>7, <1>8, <1>9 DEF PoolInv

\* A connection that breaks or is given up.
LEMMA LifeKeeps ==
    ASSUME PoolInv, NEW l \in Links, NEW to \in {"broken", "dead"},
           life[l] \in {"up", "broken"}, life' = [life EXCEPT ![l] = to],
           UNCHANGED <<target, stage, ended, link, awaits, call, dialing>>,
           pool' \in [Targets -> Seq(Links)], keys' \in [Links -> SUBSET Targets], Matched',
           \A m \in Links : keys'[m] = keys[m] \/ (m = l /\ keys'[m] = {})
    PROVE  PoolInv'
<1>1. /\ \A m \in Links : life'[m] = IF m = l THEN to ELSE life[m]
      /\ \A m \in Links : life'[m] = "none" <=> life[m] = "none"
  BY DEF PoolInv, Typed
<1>2. Typed'
  BY DEF PoolInv, Typed
<1>3. \A j \in Calls : InFlight(j)' <=> InFlight(j)
  BY DEF InFlight
<1>4. Waiting'
  BY DEF PoolInv, Waiting
<1>5. \A j \in Calls : call[j].link # NoLink => call[j].link \in Links
  BY DEF PoolInv, Typed, CallRecords
<1>6. Held'
  <2>1. SUFFICES ASSUME NEW j \in Calls PROVE HeldBy(j)'
    BY DEF Held
  <2>2. HeldBy(j)
    BY DEF PoolInv, Held
  <2>3. call[j].link # NoLink /\ life[call[j].link] # "up" => life'[call[j].link] # "up"
    BY <1>1, <1>5
  <2> QED  BY <2>2, <2>3 DEF HeldBy
<1>7. Known'
  BY DEF PoolInv, Known, InFlight
<1>8. Made'
  <2>1. \A j \in Calls : call'[j].link # NoLink => life'[call'[j].link] # "none"
    BY <1>1, <1>5 DEF PoolInv, Made
  <2>2. \E n \in 0..MaxLinks : \A m \in Links : life'[m] # "none" <=> m <= n
    BY <1>1 DEF PoolInv, Made
  <2>3. \A m \in Links : keys'[m] # {} => life'[m] # "none"
    BY <1>1 DEF PoolInv, Made
  <2>4. /\ \A i, j \in Calls : InFlight(i)' /\ InFlight(j)' /\ i # j /\ call'[i].link # NoLink
                               => call'[i].link # call'[j].link
        /\ \A j \in Calls : InFlight(j)' /\ call'[j].link # NoLink => keys'[call'[j].link] = {}
    BY <1>3, <1>5 DEF PoolInv, Made
  <2> QED  BY <2>1, <2>2, <2>3, <2>4 DEF Made
<1>9. Findable'
  <2>1. \A m \in Links : life'[m] = "up" => m # l /\ life[m] = "up" /\ keys'[m] = keys[m]
    BY <1>1
  <2> QED  BY <1>3, <2>1 DEF PoolInv, Findable
<1> QED  BY <1>2, <1>4, <1>6, <1>7, <1>8, <1>9 DEF PoolInv

LEMMA BreakKeeps == ASSUME PoolInv, NEW l \in Links, Break(l) PROVE PoolInv'
<1>1. /\ life[l] = "up" /\ life' = [life EXCEPT ![l] = "broken"]
      /\ UNCHANGED <<target, stage, ended, link, awaits, call, dialing, pool, keys>>
  BY DEF Break, requester, poolState
<1>2. /\ pool' \in [Targets -> Seq(Links)] /\ keys' \in [Links -> SUBSET Targets] /\ Matched'
      /\ \A m \in Links : keys'[m] = keys[m]
  BY <1>1 DEF PoolInv, Typed, Matched
<1> QED  BY <1>1, <1>2, LifeKeeps

LEMMA MarkDeadKeeps == ASSUME PoolInv, NEW l \in Links, MarkDead(l) PROVE PoolInv'
<1>1. /\ life[l] = "broken" /\ life' = [life EXCEPT ![l] = "dead"]
      /\ UNCHANGED <<target, stage, ended, link, awaits, call, dialing>>
      /\ keys' = [keys EXCEPT ![l] = {}]
      /\ pool' = [t \in Targets |-> IF t \in keys[l] THEN FilterOutClientConn(pool[t], l)
                                                     ELSE pool[t]]
  BY DEF MarkDead, requester
<1>2. ASSUME NEW t \in Targets
      PROVE  LET rest == FilterOutClientConn(pool[t], l) IN
             /\ rest \in Seq(Links)
             /\ \A m \in Links : (\E i \in 1..Len(rest) : rest[i] = m)
                                    <=> m # l /\ \E i \in 1..Len(pool[t]) : pool[t][i] = m
  <2> DEFINE conns == pool[t]
             keep == {i \in DOMAIN conns : conns[i] # l}
             rest == FilterOutClientConn(conns, l)
  <2>1. conns \in Seq(Links)
    BY DEF PoolInv, Typed
  <2>2. \A j \in 1..Len(conns) : j \in keep <=> conns[j] # l
    BY <2>1
  <2>3. rest = Selected(conns, keep)
    BY DEF FilterOutClientConn
  <2> HIDE DEF keep, conns, rest
  <2>4. /\ Selected(conns, keep) \in Seq(Links)
        /\ \A i \in 1..Len(Selected(conns, keep)) :
              \E j \in 1..Len(conns) : j \in keep /\ Selected(conns, keep)[i] = conns[j]
        /\ \A j \in 1..Len(conns) : j \in keep =>
              \E i \in 1..Len(Selected(conns, keep)) : Selected(conns, keep)[i] = conns[j]
    BY <2>1, SelectedElements
  <2>5. /\ rest \in Seq(Links)
        /\ \A i \in 1..Len(rest) : \E j \in 1..Len(conns) : j \in keep /\ rest[i] = conns[j]
        /\ \A j \in 1..Len(conns) : j \in keep => \E i \in 1..Len(rest) : rest[i] = conns[j]
    BY <2>3, <2>4
  <2>6. \A m \in Links : (\E i \in 1..Len(rest) : rest[i] = m)
                            <=> m # l /\ \E i \in 1..Len(conns) : conns[i] = m
    BY <2>2, <2>5
  <2> QED  BY <2>5, <2>6 DEF conns, rest
<1>3. \A m \in Links : keys'[m] = IF m = l THEN {} ELSE keys[m]
  BY <1>1 DEF PoolInv, Typed
<1>4. keys' \in [Links -> SUBSET Targets]
  BY <1>1 DEF PoolInv, Typed
<1>5. pool' \in [Targets -> Seq(Links)]
  BY <1>1, <1>2 DEF PoolInv, Typed
<1>6. Matched'
  <2>1. SUFFICES ASSUME NEW m \in Links, NEW t \in Targets
                 PROVE  t \in keys'[m] <=> \E i \in 1..Len(pool'[t]) : pool'[t][i] = m
    BY DEF Matched
  <2>2. /\ t \in keys[m] <=> \E i \in 1..Len(pool[t]) : pool[t][i] = m
        /\ t \in keys[l] <=> \E i \in 1..Len(pool[t]) : pool[t][i] = l
    BY DEF PoolInv, Matched
  <2>3. CASE t \in keys[l]
    BY <1>1, <1>2, <1>3, <2>2, <2>3
  <2>4. CASE t \notin keys[l]
    BY <1>1, <1>3, <2>2, <2>4
  <2> QED  BY <2>3, <2>4
<1> QED  BY <1>1, <1>3, <1>4, <1>5, <1>6, LifeKeeps

LEMMA PoolInvariance == PoolSpec => []PoolInv
<1>1. ASSUME PoolInv, PoolNext PROVE PoolInv'
  <2>1. ASSUME NEW s \in Streams, \/ GetClientConn(s) \/ CallDone(s)
                                  \/ RoundTrip(s) \/ CloseStream(s) \/ CancelStream(s)
        PROVE  PoolInv'
    BY <1>1, <2>1, GetKeeps, CallDoneKeeps, RoundTripKeeps, EndOfStreamKeeps
  <2>2. ASSUME NEW k \in Calls, DialLink(k) \/ Prepare(k) \/ EndDial(k) \/ CloseDone(k)
        PROVE  PoolInv'
    BY <1>1, <2>2, DialLinkKeeps, PrepareKeeps, EndDialKeeps, CloseDoneKeeps
  <2>3. ASSUME NEW l \in Links, Break(l) \/ MarkDead(l) PROVE PoolInv'
    BY <1>1, <2>3, BreakKeeps, MarkDeadKeeps
  <2> QED  BY <1>1, <2>1, <2>2, <2>3 DEF PoolNext
<1>2. PoolInv /\ UNCHANGED poolVars => PoolInv'
  <2> HAVE PoolInv /\ UNCHANGED poolVars
  <2>1. UNCHANGED <<target, stage, ended, link, awaits, call, dialing, pool, keys, life>>
    BY DEF poolVars, requester, poolState
  <2>2. Waiting' /\ ended' \in [Streams -> BOOLEAN] /\ \A s \in Streams : ended[s] => ended'[s]
    BY <2>1 DEF PoolInv, Waiting, Typed
  <2>3. /\ stage' \in [Streams -> {"get", "wait", "reserved", "open", "over"}]
        /\ link' \in [Streams -> Links \cup {NoLink}] /\ awaits' \in [Streams -> Calls \cup {0}]
    BY <2>1 DEF PoolInv, Typed
  <2> QED  BY <2>1, <2>2, <2>3, StreamKeeps
<1> QED  BY PoolStarts, <1>1, <1>2, PTL DEF PoolSpec

\* h2_client_conn_pool.go:117-316: for any number of streams, targets and connections,
\* whoever cancels and whatever breaks: one dial per address, and a connection that is up
\* is in the pool or in the hand of the dial that makes it.
THEOREM PoolIsSound == PoolSpec => []PoolSound
<1>1. ASSUME PoolInv PROVE PoolTypeOK
  <2>1. \A t \in Targets : Range(pool[t]) \subseteq Links
    <3>1. TAKE t \in Targets
    <3>2. pool[t] \in Seq(Links)
      BY <1>1 DEF PoolInv, Typed
    <3> QED  BY <3>2 DEF Range
  <2>2. DOMAIN pool = Targets
    BY <1>1 DEF PoolInv, Typed
  <2> QED  BY <1>1, <2>1, <2>2 DEF PoolInv, Typed, Waiting, PoolTypeOK, CallRecords, Phases
<1>2. ASSUME PoolInv PROVE OneDial
  <2>1. ASSUME NEW t \in Targets, NEW k \in Calls
        PROVE  InFlight(k) /\ target[call[k].starter] = t <=> dialing[t] = k
    BY <1>2, CallsAreNumbers DEF PoolInv, Known
  <2>2. \A t \in Targets : dialing[t] \in Calls \cup {0} /\ 0 \notin Calls
    BY <1>2, CallsAreNumbers DEF PoolInv, Typed
  <2> QED  BY <2>1, <2>2 DEF OneDial
<1>3. ASSUME PoolInv PROVE NoneLost
  <2>1. ASSUME NEW l \in Links, NEW t \in Targets, keys[l] = {t} PROVE l \in Range(pool[t])
    <3>1. PICK i \in 1..Len(pool[t]) : pool[t][i] = l
      BY <1>3, <2>1 DEF PoolInv, Matched
    <3>2. pool[t] \in Seq(Links)
      BY <1>3 DEF PoolInv, Typed
    <3> QED  BY <3>1, <3>2 DEF Range
  <2> QED  BY <1>3, <2>1 DEF PoolInv, Findable, NoneLost
<1> QED  BY PoolInvariance, <1>1, <1>2, <1>3, PTL DEF PoolSound

\* A waiting stream leaves by hearing of the end of its dial.
LEMMA OwnCancel ==
    ASSUME PoolInv, PoolNext, NEW s \in Streams, stage[s] = "wait", stage'[s] = "over",
           call[awaits[s]].err = "cancelled"
    PROVE  ended[s]
<1>1. CallDone(s)
  <2>1. ASSUME NEW q \in Streams, stage'[s] # stage[s],
               \/ GetClientConn(q) \/ RoundTrip(q) \/ CloseStream(q) \/ CancelStream(q)
        PROVE  FALSE
    <3>1. stage[q] # "wait"
      BY <2>1 DEF GetClientConn, RoundTrip, CloseStream, CancelStream
    <3>2. \E next : stage' = [stage EXCEPT ![q] = next]
      BY <2>1 DEF GetClientConn, RoundTrip, CloseStream, CancelStream, Reserve, GiveUp, Again
    <3> QED  BY <2>1, <3>1, <3>2 DEF PoolInv, Typed
  <2>2. ASSUME NEW q \in Streams, q # s, CallDone(q) PROVE FALSE
    <3>1. \E next : stage' = [stage EXCEPT ![q] = next]
      BY <2>2 DEF CallDone, Reserve, GiveUp, Again
    <3> QED  BY <2>2, <3>1 DEF PoolInv, Typed
  <2>3. ASSUME NEW k \in Calls, DialLink(k) \/ Prepare(k) \/ EndDial(k) \/ CloseDone(k)
        PROVE  FALSE
    BY <2>3 DEF DialLink, Prepare, EndDial, CloseDone, requester
  <2>4. ASSUME NEW l \in Links, Break(l) \/ MarkDead(l) PROVE FALSE
    BY <2>4 DEF Break, MarkDead, requester
  <2> QED  BY <2>1, <2>2, <2>3, <2>4 DEF PoolNext
<1> DEFINE k == awaits[s]
<1>2. k \in Calls /\ call[k].phase # "idle" /\ call[k].starter \in Streams /\ ended[call[k].starter]
  BY DEF PoolInv, Waiting, Typed, Held, HeldBy
<1>3. ~ShouldRetryDial(k, s)
  <2>1. SUFFICES ASSUME ShouldRetryDial(k, s) PROVE FALSE
    OBVIOUS
  <2>2. Again(s)
    BY <1>1, <2>1 DEF CallDone
  <2> QED  BY <2>2 DEF Again, PoolInv, Typed
<1> QED  BY <1>2, <1>3 DEF ShouldRetryDial

\* h2_client_conn_pool.go:322-341: a stream that shares a dial does not fail because its
\* starter's context ended.
THEOREM OnlyOwnCancel == PoolSpec => OwnCancelOnly
<1>1. PoolInv /\ [PoolNext]_poolVars =>
        [\A s \in Streams : /\ stage[s] = "wait" /\ stage'[s] = "over"
                            /\ call[awaits[s]].err = "cancelled"
                            => ended[s]]_poolVars
  BY OwnCancel
<1> QED  BY PoolInvariance, <1>1, PTL DEF PoolSpec, OwnCancelOnly

-----------------------------------------------------------------------------
(* Source addresses.                                                       *)

Named == {"v4", "v6", "lAddr", "junk"}
HintElements == Named \cup {"name", "empty"}

BoundTypes ==
    /\ depth \in {"new", "chain", "try", "over"}
    /\ lAddr \in Locals /\ asked \in Networks
    /\ hinted = Absent \/ hinted \in Seq(Named)
    /\ sources \in Seq(HintElements) /\ turn \in Nat /\ turn <= Len(sources)

\* While the sources are tried, those that are allowed and were looked at have failed.
Tried ==
    /\ depth \in {"new", "chain"} => sources = <<>> /\ turn = 0 /\ failures = {}
    /\ depth = "try" => /\ asked # "unix"
                        /\ failures = {i \in Fitting : i <= turn}
    /\ depth # "over" => madeBy = "nothing"

BoundInv == BoundTypes /\ Tried /\ SourcesKept

LEMMA HintsAreSequences == ASSUME NEW h \in Hints PROVE h \in Seq(Named)
<1>1. PICK n \in 0..MaxHints : h \in [1..n -> {"v4", "v6", "lAddr", "junk"}]
  BY DEF Hints
<1>2. n \in Nat
  OBVIOUS
<1> QED  BY <1>1, <1>2, SeqDef DEF Named

\* The list with the local address in it; nothing is left of it only if every element
\* was the local address, and that missing.
LEMMA ExpandIsRight ==
    ASSUME NEW list \in Seq(Named), NEW local \in Locals
    PROVE  /\ Expand(list, local) \in Seq(HintElements)
           /\ Expand(list, local) = <<>> =>
                 \A i \in DOMAIN list : list[i] = "lAddr" /\ local = "empty"
<1> DEFINE full == Put(list, local)
           keep == {i \in DOMAIN full : full[i] # "empty"}
<1>1. DOMAIN list = 1..Len(list) /\ Len(list) \in Nat /\ \A i \in DOMAIN list : list[i] \in Named
  OBVIOUS
<1>2. /\ DOMAIN full = DOMAIN list
      /\ \A i \in DOMAIN list : full[i] = IF list[i] = "lAddr" THEN local ELSE list[i]
  BY DEF Put
<1>3. full \in [1..Len(list) -> HintElements]
  BY <1>1 DEF Put, Named, HintElements, Locals
<1>4. full \in Seq(HintElements)
  BY <1>1, <1>3, SeqDef
<1>5. Expand(list, local) = Selected(full, keep)
  BY DEF Expand
<1> HIDE DEF full, keep
<1>6. Len(full) = Len(list)
  BY <1>1, <1>2, <1>4
<1>7. /\ Selected(full, keep) \in Seq(HintElements)
      /\ \A j \in 1..Len(full) : j \in keep =>
            \E i \in 1..Len(Selected(full, keep)) : Selected(full, keep)[i] = full[j]
  BY <1>4, SelectedElements
<1>8. ASSUME Selected(full, keep) = <<>>, NEW i \in DOMAIN list
      PROVE  list[i] = "lAddr" /\ local = "empty"
  <2>1. i \notin keep
    BY <1>1, <1>6, <1>7, <1>8
  <2>2. full[i] = "empty"
    BY <1>2, <2>1 DEF keep
  <2>3. list[i] # "empty"
    BY <1>1 DEF Named
  <2> QED  BY <1>2, <2>2, <2>3
<1> QED  BY <1>5, <1>7, <1>8

LEMMA BoundStarts == BoundInit => BoundInv
BY DEF BoundInit, BoundInv, BoundTypes, Tried, SourcesKept, FirstThatWorks, NeverUnbound, Locals,
       Networks

\* On the way down nothing is tried yet.
LEMMA DownKeeps == ASSUME BoundInv, Enter \/ PassSetter PROVE BoundInv'
<1>1. depth' = "chain" /\ UNCHANGED <<sources, turn, failures, madeBy>>
      /\ sources = <<>> /\ turn = 0 /\ failures = {} /\ madeBy = "nothing"
  BY DEF Enter, PassSetter, BoundInv, Tried
<1>2. lAddr' \in Locals /\ asked' \in Networks /\ hinted' \in Hints \cup {Absent}
  BY DEF Enter, PassSetter, BoundInv, BoundTypes
<1>3. BoundTypes'
  BY <1>1, <1>2, HintsAreSequences DEF BoundInv, BoundTypes
<1> QED  BY <1>1, <1>3 DEF BoundInv, Tried, SourcesKept, FirstThatWorks, NeverUnbound

LEMMA StartKeeps == ASSUME BoundInv, BoundStart PROVE BoundInv'
<1>1. depth = "chain" /\ UNCHANGED <<asked, lAddr, hinted, turn, failures>>
      /\ sources = <<>> /\ turn = 0 /\ failures = {} /\ madeBy = "nothing"
  BY DEF BoundStart, BoundInv, Tried
<1>2. PICK default \in Hints :
       LET list == Expand(IF hinted = Absent THEN default ELSE hinted, lAddr) IN
       \/ /\ Spoilt(list)
          /\ depth' = "over" /\ madeBy' = "error" /\ UNCHANGED sources
       \/ /\ ~Spoilt(list) /\ (list = <<>> \/ asked = "unix")
          /\ depth' = "over" /\ madeBy' \in {"system", "error"} /\ UNCHANGED sources
       \/ /\ ~Spoilt(list) /\ list # <<>> /\ asked # "unix"
          /\ depth' = "try" /\ sources' = list /\ UNCHANGED madeBy
  BY DEF BoundStart
<1> DEFINE given == IF hinted = Absent THEN default ELSE hinted
           list == Expand(given, lAddr)
<1>3. given \in Seq(Named) /\ lAddr \in Locals
  BY HintsAreSequences DEF BoundInv, BoundTypes
<1>4. /\ list \in Seq(HintElements)
      /\ list = <<>> => \A i \in DOMAIN given : given[i] = "lAddr" /\ lAddr = "empty"
  <2> HIDE DEF given
  <2> QED  BY <1>3, ExpandIsRight
<1>5. \/ depth' = "over" /\ madeBy' = "error" /\ UNCHANGED sources
      \/ /\ list = <<>> \/ asked = "unix"
         /\ depth' = "over" /\ madeBy' \in {"system", "error"} /\ UNCHANGED sources
      \/ asked # "unix" /\ depth' = "try" /\ sources' = list /\ UNCHANGED madeBy
  BY <1>2
<1> HIDE DEF list
<1>6. BoundTypes'
  <2>1. depth' \in {"new", "chain", "try", "over"}
    BY <1>5
  <2>2. lAddr' \in Locals /\ asked' \in Networks /\ (hinted' = Absent \/ hinted' \in Seq(Named))
    BY <1>1 DEF BoundInv, BoundTypes
  <2>3. sources' \in Seq(HintElements)
    BY <1>4, <1>5 DEF BoundInv, BoundTypes
  <2>4. turn' = 0 /\ 0 <= Len(sources')
    BY <1>1, <2>3
  <2> QED  BY <2>1, <2>2, <2>3, <2>4 DEF BoundTypes
<1>7. Tried'
  <2>1. CASE depth' = "try"
    <3>1. \A i \in Fitting' : ~(i <= turn')
      BY <1>1, <1>4, <1>5, <2>1 DEF Fitting
    <3> QED  BY <1>1, <1>5, <2>1, <3>1 DEF Tried
  <2>2. CASE depth' = "over"
    BY <2>2 DEF Tried
  <2> QED  BY <1>5, <2>1, <2>2
<1>8. SourcesKept'
  <2>1. FirstThatWorks'
    BY <1>1, <1>5 DEF FirstThatWorks
  <2>2. NeverUnbound'
    <3>1. hinted # Absent => given = hinted
      OBVIOUS
    <3> QED  BY <1>1, <1>4, <1>5, <3>1 DEF NeverUnbound
  <2> QED  BY <2>1, <2>2 DEF SourcesKept
<1> QED  BY <1>6, <1>7, <1>8 DEF BoundInv

\* The network allows a source exactly when it is of the right family.
LEMMA FitsIsFitting ==
    ASSUME BoundInv, depth = "try", NEW i \in DOMAIN sources
    PROVE  Fits(sources[i]) <=> i \in Fitting
<1>1. asked \in {"tcp", "tcp4", "tcp6"}
  BY DEF BoundInv, BoundTypes, Tried, Networks
<1>2. CASE sources[i] = "v4"
  BY <1>1, <1>2 DEF Fits, Restricted, Fitting
<1>3. CASE sources[i] # "v4"
  BY <1>1, <1>3 DEF Fits, Restricted, Fitting
<1> QED  BY <1>2, <1>3

LEMMA TryKeeps == ASSUME BoundInv, TrySource PROVE BoundInv'
<1>1. /\ depth = "try" /\ turn < Len(sources) /\ turn' = turn + 1
      /\ UNCHANGED <<asked, lAddr, hinted, sources>>
  BY DEF TrySource
<1>2. /\ turn \in Nat /\ Len(sources) \in Nat /\ DOMAIN sources = 1..Len(sources)
      /\ asked # "unix" /\ failures = {i \in Fitting : i <= turn} /\ madeBy = "nothing"
  BY <1>1 DEF BoundInv, BoundTypes, Tried
<1>3. turn + 1 \in DOMAIN sources /\ Fitting' = Fitting /\ Fitting \subseteq Nat
  BY <1>1, <1>2 DEF Fitting
<1>4. depth' \in {"try", "over"}
  BY <1>1 DEF TrySource
<1>5. BoundTypes'
  BY <1>1, <1>2, <1>4 DEF BoundInv, BoundTypes
<1>6. CASE turn + 1 \notin Fitting
  <2>1. UNCHANGED <<depth, failures, madeBy>>
    BY <1>1, <1>3, <1>6, FitsIsFitting DEF TrySource
  <2>2. \A i \in Fitting : i <= turn + 1 <=> i <= turn
    BY <1>2, <1>3, <1>6
  <2>5. failures' = {i \in Fitting : i <= turn + 1}
    BY <1>2, <2>1, <2>2
  <2>3. Tried'
    BY <1>1, <1>2, <1>3, <2>1, <2>5 DEF Tried
  <2>4. SourcesKept'
    BY <1>1, <1>2, <2>1 DEF SourcesKept, FirstThatWorks, NeverUnbound
  <2> QED  BY <1>5, <2>3, <2>4 DEF BoundInv
<1>7. CASE turn + 1 \in Fitting
  <2>1. \/ depth' = "over" /\ madeBy' = "source" /\ UNCHANGED failures
        \/ failures' = failures \cup {turn + 1} /\ UNCHANGED <<depth, madeBy>>
    BY <1>1, <1>3, <1>7, FitsIsFitting DEF TrySource
  <2>2. CASE depth' = "over" /\ madeBy' = "source" /\ UNCHANGED failures
    <3>0. \A i \in Fitting : i < turn + 1 <=> i <= turn
      BY <1>2, <1>3
    <3>1. turn' \in Fitting' /\ failures' = {i \in Fitting' : i < turn'}
      BY <1>1, <1>2, <1>3, <1>7, <2>2, <3>0
    <3>2. Tried'
      BY <2>2 DEF Tried
    <3>3. SourcesKept'
      BY <2>2, <3>1 DEF SourcesKept, FirstThatWorks, NeverUnbound
    <3> QED  BY <1>5, <3>2, <3>3 DEF BoundInv
  <2>3. CASE failures' = failures \cup {turn + 1} /\ UNCHANGED <<depth, madeBy>>
    <3>0. \A i \in Fitting : i <= turn + 1 <=> i <= turn \/ i = turn + 1
      BY <1>2, <1>3
    <3>1. failures' = {i \in Fitting : i <= turn + 1}
      BY <1>2, <1>7, <2>3, <3>0
    <3>2. Tried'
      BY <1>1, <1>2, <1>3, <2>3, <3>1 DEF Tried
    <3>3. SourcesKept'
      BY <1>1, <1>2, <2>3 DEF SourcesKept, FirstThatWorks, NeverUnbound
    <3> QED  BY <1>5, <3>2, <3>3 DEF BoundInv
  <2> QED  BY <2>1, <2>2, <2>3
<1> QED  BY <1>6, <1>7

LEMMA NoneKeeps == ASSUME BoundInv, NoSource PROVE BoundInv'
<1>1. /\ depth = "try" /\ turn = Len(sources) /\ depth' = "over" /\ madeBy' = "error"
      /\ UNCHANGED <<asked, lAddr, hinted, sources, turn, failures>>
  BY DEF NoSource
<1>2. \A i \in Fitting : i <= turn
  BY <1>1 DEF Fitting, BoundInv, BoundTypes
<1>3. failures' = Fitting'
  <2>1. failures = Fitting
    BY <1>1, <1>2 DEF BoundInv, Tried
  <2> QED  BY <1>1, <2>1 DEF Fitting
<1> QED  BY <1>1, <1>3
         DEF BoundInv, BoundTypes, Tried, SourcesKept, FirstThatWorks, NeverUnbound

LEMMA BoundInvariance == BoundSpec => []BoundInv
<1>1. BoundInv /\ UNCHANGED boundVars => BoundInv'
  BY DEF boundVars, BoundInv, BoundTypes, Tried, SourcesKept, FirstThatWorks, NeverUnbound, Fitting
<1>2. BoundInv /\ [BoundNext]_boundVars => BoundInv'
  BY <1>1, DownKeeps, StartKeeps, TryKeeps, NoneKeeps DEF BoundNext
<1> QED  BY BoundStarts, <1>2, PTL DEF BoundSpec

\* hintdialer.go:38-94: for lists of any length a connection leaves by the first source
\* that can be had, and never by one of the system's choice when any was asked for.
THEOREM SourcesAreKept == BoundSpec => []SourcesKept
<1>1. BoundInv => SourcesKept
  BY DEF BoundInv
<1> QED  BY BoundInvariance, <1>1, PTL
===============================================================================

----------------------------- MODULE ServingProofs ----------------------------
(***************************************************************************)
(* Two caches and a log that serve many at once, for any number of them,   *)
(* one request on its way, and the way out.                                *)
(*                                                                         *)
(* The cache of limiters may drop what it likes: the streams of a group    *)
(* share their buckets, and a bucket is what it would be if it were never  *)
(* dropped. Neither is inductive. A stream's item must be its group's in   *)
(* the cache (Shared), which holds because an item that is held is not     *)
(* dropped, and an item must stand for one group only (Distinct), which    *)
(* holds because a new one is an item nobody refers to.                    *)
(*                                                                         *)
(* A certificate is handed out no later than the TTL, and the time of one  *)
(* answer, after it was in the store or on its way there: writes and reads *)
(* that cross each other make the cache stale, but never for longer. What  *)
(* a read brings is as old as its answer (Current), and the age of an      *)
(* entry and the time it has left are at most that bound (Aging).          *)
(*                                                                         *)
(* The log writes what it accepted, in order: what is written and what is  *)
(* queued in front of the marker is how the accepted lines begin           *)
(* (InPlace).                                                              *)
(*                                                                         *)
(* A chunk of a body is at the far end, in a copier's hand or lost, and    *)
(* was taken from what the near end has sent (UpCounts, DownCounts): who   *)
(* counts to an announced length has heard all of it.                      *)
(*                                                                         *)
(* Shutdown waits for the plain requests it found until the watcher gives  *)
(* up, and what is deferred is closed after that (Waited).                 *)
(***************************************************************************)
EXTENDS BWLimit, CertCache, LogWriter, PlainRequest, Shutdown, TLAPS, FiniteSetTheorems,
        SequenceTheorems

-----------------------------------------------------------------------------
(* The limiters of groups.                                                 *)

Shared == \A f \in Flows : phase[f] = "paired" =>
             /\ group[f] \in Groups
             /\ item[f] = cache[group[f]]

\* Nothing is copied before or after.
Pumping == \A f \in Flows : \A w \in Ways : pump[f][w] # "off" => phase[f] = "paired"

Distinct == \A g, h \in Groups : cache[g] = cache[h] /\ cache[g] # NoItem => g = h

BWInv == BWTypeOK /\ Shared /\ Pumping /\ Distinct /\ DropsForgetNothing

-----------------------------------------------------------------------------

\* 0 stands for no item.
LEMMA ItemsArePositive == /\ \A i \in Items : i \in Nat /\ i # NoItem
                          /\ NoItem \notin Items
<1>1. Cardinality(Flows) \in Nat /\ Cardinality(Groups) \in Nat
  BY FS_CardinalityType, BWAssumption
<1> QED  BY <1>1 DEF Items, NoItem

\* A direction draws from one of the buckets.
LEMMA BucketType == \A w \in Ways : Bucket(w) \in Ways
BY DEF Bucket, Ways

\* A full bucket is at a level.
LEMMA Levels == /\ Full \in Level
                /\ Level \subseteq Int
                /\ \A n \in Level : n >= Full => n = Full
                /\ \A n \in Int : Floored(Capped(n)) \in Level
                /\ \A n \in Level : Capped(n + 1) \in Level
                /\ \A n \in Int : n <= Full => Floored(n) \in Level
                /\ \A n \in Int : Capped(n) \in Int /\ Capped(n) <= Full
                /\ FullPair \in [Ways -> Level]
BY BWAssumption DEF Level, Full, Floored, Capped, FullPair

-----------------------------------------------------------------------------

\* In the beginning nothing is cached and all buckets are full.
LEMMA BWStarts == BWInit => BWInv
<1> SUFFICES ASSUME BWInit PROVE BWInv
  OBVIOUS
<1> USE DEF BWInit
<1>1. BWTypeOK
  BY Levels, ItemsArePositive DEF BWTypeOK
<1>2. Shared /\ Pumping /\ Distinct
  BY DEF Shared, Pumping, Distinct
<1>3. DropsForgetNothing
  BY BucketType DEF DropsForgetNothing, FullPair
<1> QED  BY <1>1, <1>2, <1>3 DEF BWInv

\* What a stream does to its item it does to its group's account.
LEMMA UpdateKeeps ==
    ASSUME BWInv, NEW f \in Flows, phase[f] = "paired", NEW w \in Ways,
           NEW op \in [Level -> Level], Update(f, w, op), UNCHANGED <<calls, cache>>
    PROVE  /\ tokens' \in [Items -> [Ways -> Level]]
           /\ account' \in [Groups -> [Ways -> Level]]
           /\ DropsForgetNothing'
<1> DEFINE i == item[f]
           g == group[f]
           b == Bucket(w)
<1>1. i \in Items /\ g \in Groups /\ i = cache[g] /\ b \in Ways /\ cache[g] # NoItem
  BY BucketType, ItemsArePositive DEF BWInv, BWTypeOK, Shared
<1>2. account[g][b] = tokens[i][b]
  BY <1>1 DEF BWInv, DropsForgetNothing
<1>3. tokens[i][b] \in Level /\ op[tokens[i][b]] \in Level
  BY <1>1 DEF BWInv, BWTypeOK
<1>4. /\ tokens' = [tokens EXCEPT ![i] = [tokens[i] EXCEPT ![b] = op[tokens[i][b]]]]
      /\ account' = [account EXCEPT ![g] = [account[g] EXCEPT ![b] = op[tokens[i][b]]]]
  BY <1>2 DEF Update
<1>5. tokens' \in [Items -> [Ways -> Level]] /\ account' \in [Groups -> [Ways -> Level]]
  BY <1>1, <1>3, <1>4 DEF BWInv, BWTypeOK
<1>6. ASSUME NEW h \in Groups, NEW v \in Ways
      PROVE  account'[h][Bucket(v)]
                = IF cache'[h] = NoItem THEN Full ELSE tokens'[cache'[h]][Bucket(v)]
  <2>0. /\ cache' = cache /\ Bucket(v) \in Ways
        /\ account[h][Bucket(v)] = IF cache[h] = NoItem THEN Full
                                   ELSE tokens[cache[h]][Bucket(v)]
    BY BucketType DEF BWInv, DropsForgetNothing
  <2>1. CASE h = g
    BY <1>1, <1>3, <1>4, <2>0, <2>1 DEF BWInv, BWTypeOK
  <2>2. CASE h # g
    <3>1. account'[h] = account[h]
      BY <1>1, <1>4, <2>2 DEF BWInv, BWTypeOK
    <3>2. cache[h] # NoItem => cache[h] # i /\ cache[h] \in Items
      BY <1>1, <2>2 DEF BWInv, BWTypeOK, Distinct
    <3>3. cache[h] # NoItem => tokens'[cache[h]] = tokens[cache[h]]
      BY <1>1, <1>4, <3>2 DEF BWInv, BWTypeOK
    <3> QED  BY <2>0, <3>1, <3>3
  <2> QED  BY <2>1, <2>2
<1> QED  BY <1>5, <1>6 DEF DropsForgetNothing

\* A chunk is reserved; a copy gives back what it did not use.
LEMMA PumpKeeps == ASSUME BWInv, NEW f \in Flows, NEW w \in Ways, Pump(f, w) PROVE BWInv'
<1>1. phase[f] = "paired"
  BY DEF Pump, ReserveChunk, AwaitDelay, CopyChunk, BWInv, Pumping
<1>2. /\ UNCHANGED <<calls, cache>>
      /\ \E s \in {"reserve", "wait", "copy", "sent"} : pump' = [pump EXCEPT ![f][w] = s]
  BY DEF Pump, ReserveChunk, AwaitDelay, CopyChunk
<1>3. \/ UNCHANGED <<tokens, account>>
      \/ \E op \in [Level -> Level] : Update(f, w, op)
  <2>1. CASE ReserveChunk(f, w)
    <3>1. [n \in Level |-> Floored(n - Chunk)] \in [Level -> Level]
      BY BWAssumption DEF Level, Floored, Full, Chunk
    <3> QED  BY <2>1, <3>1 DEF ReserveChunk
  <2>2. CASE AwaitDelay(f, w)
    BY <2>2 DEF AwaitDelay
  <2>3. CASE CopyChunk(f, w)
    <3>1. CASE UNCHANGED <<tokens, account>>
      BY <3>1
    <3>2. CASE \E bytes \in 0..(Chunk - 1), again \in {0, 1} :
                  Update(f, w, [n \in Level |-> Floored(Capped(n + Chunk + again) - bytes)])
      <4>1. PICK bytes \in 0..(Chunk - 1), again \in {0, 1} :
                  Update(f, w, [n \in Level |-> Floored(Capped(n + Chunk + again) - bytes)])
        BY <3>2
      <4>2. [n \in Level |-> Floored(Capped(n + Chunk + again) - bytes)] \in [Level -> Level]
        BY BWAssumption DEF Level, Floored, Capped, Full, Chunk
      <4> QED  BY <4>1, <4>2
    <3> QED  BY <2>3, <3>1, <3>2 DEF CopyChunk
  <2> QED  BY <2>1, <2>2, <2>3 DEF Pump
<1>4. /\ tokens' \in [Items -> [Ways -> Level]]
      /\ account' \in [Groups -> [Ways -> Level]]
      /\ DropsForgetNothing'
  <2>1. CASE UNCHANGED <<tokens, account>>
    BY <1>2, <2>1 DEF BWInv, BWTypeOK, DropsForgetNothing
  <2>2. CASE \E op \in [Level -> Level] : Update(f, w, op)
    BY <1>1, <1>2, <2>2, UpdateKeeps
  <2> QED  BY <1>3, <2>1, <2>2
<1>5. BWTypeOK' /\ Pumping'
  BY <1>1, <1>2, <1>4 DEF calls, BWInv, BWTypeOK, Pumping
<1>6. Shared' /\ Distinct'
  BY <1>2 DEF calls, BWInv, Shared, Distinct
<1> QED  BY <1>4, <1>5, <1>6 DEF BWInv

\* A new item is nobody else's, and only full ones are dropped.
LEMMA PairKeeps == ASSUME BWInv, NEW f \in Flows, Pair(f) PROVE BWInv'
<1>1. PICK g \in Groups :
         /\ group' = [group EXCEPT ![f] = g]
         /\ IF cache[g] # NoItem
            THEN item' = [item EXCEPT ![f] = cache[g]] /\ UNCHANGED <<cache, tokens>>
            ELSE NewItem(f, g)
  BY DEF Pair
<1>2. /\ phase' = [phase EXCEPT ![f] = "paired"]
      /\ pump' = [pump EXCEPT ![f] = [w \in Ways |-> "reserve"]]
      /\ UNCHANGED <<lapsed, account>>
      /\ phase[f] = "away" /\ item[f] = NoItem
  BY DEF Pair, BWInv, BWTypeOK
<1>3. CASE cache[g] # NoItem
  <2>1. cache[g] \in Items /\ item' = [item EXCEPT ![f] = cache[g]]
        /\ cache' = cache /\ tokens' = tokens
    BY <1>1, <1>3 DEF BWInv, BWTypeOK
  <2>2. BWTypeOK'
    BY <1>1, <1>2, <1>3, <2>1 DEF BWInv, BWTypeOK
  <2>3. Shared' /\ Pumping' /\ Distinct'
    BY <1>1, <1>2, <2>1 DEF BWInv, BWTypeOK, Shared, Pumping, Distinct
  <2>4. DropsForgetNothing'
    BY <1>2, <2>1 DEF BWInv, DropsForgetNothing
  <2> QED  BY <2>2, <2>3, <2>4 DEF BWInv
<1>4. CASE cache[g] = NoItem
  <2>1. PICK i \in Items, sample \in SUBSET (Groups \ {g}) :
          /\ Unknown(i)
          /\ cache' = [h \in Groups |->
                         IF h = g THEN i
                         ELSE IF h \in sample /\ cache[h] # NoItem /\ Droppable(cache[h])
                              THEN NoItem ELSE cache[h]]
          /\ tokens' = [tokens EXCEPT ![i] = FullPair]
          /\ item' = [item EXCEPT ![f] = i]
    BY <1>1, <1>4 DEF NewItem
  <2>2. i # NoItem /\ \A h \in Groups : cache[h] # i
    BY <2>1, ItemsArePositive DEF Unknown
  <2>3. BWTypeOK'
    <3>1. tokens' \in [Items -> [Ways -> Level]] /\ cache' \in [Groups -> Items \cup {NoItem}]
      BY <2>1, Levels DEF BWInv, BWTypeOK
    <3>2. group' \in [Flows -> Groups \cup {NoGroup}] /\ item' \in [Flows -> Items \cup {NoItem}]
          /\ phase' \in [Flows -> {"away", "paired"}]
      BY <1>1, <1>2, <2>1 DEF BWInv, BWTypeOK
    <3>3. pump' \in [Flows -> [Ways -> {"off", "reserve", "wait", "copy", "sent"}]]
      BY <1>2 DEF BWInv, BWTypeOK
    <3>4. \A e \in Flows : item'[e] # NoItem <=> phase'[e] = "paired"
      BY <1>2, <2>1, <2>2 DEF BWInv, BWTypeOK
    <3> QED  BY <1>2, <3>1, <3>2, <3>3, <3>4 DEF BWInv, BWTypeOK
  <2>4. Shared'
    <3> SUFFICES ASSUME NEW e \in Flows, phase'[e] = "paired"
                 PROVE  group'[e] \in Groups /\ item'[e] = cache'[group'[e]]
      BY DEF Shared
    <3>1. CASE e = f
      BY <1>1, <2>1, <3>1 DEF BWInv, BWTypeOK
    <3>2. CASE e # f
      <4>1. phase[e] = "paired" /\ group'[e] = group[e] /\ item'[e] = item[e]
            /\ group[e] \in Groups /\ item[e] = cache[group[e]] /\ item[e] # NoItem
        BY <1>1, <1>2, <2>1, <3>2 DEF BWInv, BWTypeOK, Shared
      <4>2. group[e] # g /\ ~Droppable(cache[group[e]])
        BY <1>4, <4>1 DEF Droppable, Held
      <4> QED  BY <2>1, <4>1, <4>2
    <3> QED  BY <3>1, <3>2
  <2>5. Pumping' /\ Distinct'
    BY <1>2, <2>1, <2>2 DEF BWInv, BWTypeOK, Pumping, Distinct
  <2>6. DropsForgetNothing'
    <3> SUFFICES ASSUME NEW h \in Groups, NEW w \in Ways
                 PROVE  account'[h][Bucket(w)]
                           = IF cache'[h] = NoItem THEN Full ELSE tokens'[cache'[h]][Bucket(w)]
      BY DEF DropsForgetNothing
    <3>1. /\ account' = account /\ Bucket(w) \in Ways
          /\ account[h][Bucket(w)] = IF cache[h] = NoItem THEN Full
                                     ELSE tokens[cache[h]][Bucket(w)]
      BY <1>2, BucketType DEF BWInv, DropsForgetNothing
    <3>2. CASE h = g
      BY <1>4, <2>1, <2>2, <3>1, <3>2 DEF BWInv, BWTypeOK, FullPair
    <3>3. CASE h # g /\ cache'[h] = cache[h]
      BY <2>1, <2>2, <3>1, <3>3 DEF BWInv, BWTypeOK
    <3>4. CASE h # g /\ cache'[h] # cache[h]
      <4>1. cache'[h] = NoItem /\ cache[h] # NoItem /\ Droppable(cache[h])
        BY <2>1, <3>4
      <4>2. cache[h] \in Items /\ tokens[cache[h]][Bucket(w)] \in Level
            /\ tokens[cache[h]][Bucket(w)] >= Full
        BY <3>1, <4>1 DEF BWInv, BWTypeOK, Droppable
      <4> QED  BY <3>1, <4>1, <4>2, Levels
    <3> QED  BY <3>2, <3>3, <3>4
  <2> QED  BY <2>3, <2>4, <2>5, <2>6 DEF BWInv
<1> QED  BY <1>3, <1>4

\* Who leaves lets go of the item; nothing else changes.
LEMMA LeavingKeeps == ASSUME BWInv, NEW f \in Flows, Unpair(f) \/ Lapse(f) PROVE BWInv'
<1>1. CASE Unpair(f)
  <2>1. /\ phase' = [phase EXCEPT ![f] = "away"]
        /\ item' = [item EXCEPT ![f] = NoItem]
        /\ group' = [group EXCEPT ![f] = NoGroup]
        /\ lapsed' = [lapsed EXCEPT ![f] = FALSE]
        /\ pump' = [pump EXCEPT ![f] = [w \in Ways |-> "off"]]
        /\ UNCHANGED <<cache, tokens, account>>
    BY <1>1 DEF Unpair, Forget
  <2>2. BWTypeOK' /\ Shared' /\ Pumping'
    BY <2>1 DEF BWInv, BWTypeOK, Shared, Pumping
  <2>3. Distinct' /\ DropsForgetNothing'
    BY <2>1 DEF BWInv, Distinct, DropsForgetNothing
  <2> QED  BY <2>2, <2>3 DEF BWInv
<1>2. CASE Lapse(f)
  BY <1>2 DEF Lapse, BWInv, BWTypeOK, Shared, Pumping, Distinct, DropsForgetNothing
<1> QED  BY <1>1, <1>2

\* Time fills the buckets of an item and of its group alike, and leaves full ones full.
LEMMA TickKeeps == ASSUME BWInv, BWTick PROVE BWInv'
<1>1. /\ tokens' = [i \in Items |-> [w \in Ways |-> Capped(tokens[i][w] + 1)]]
      /\ account' = [g \in Groups |-> [w \in Ways |-> Capped(account[g][w] + 1)]]
      /\ UNCHANGED <<calls, pump, cache>>
  BY DEF BWTick
<1>2. BWTypeOK' /\ Shared' /\ Pumping' /\ Distinct'
  <2>1. \A n \in Level : Capped(n + 1) \in Level
    BY Levels DEF BWInv
  <2>2. UNCHANGED <<phase, lapsed, group, item, pump, cache>>
    BY <1>1 DEF calls
  <2>3. tokens' \in [Items -> [Ways -> Level]] /\ account' \in [Groups -> [Ways -> Level]]
    BY <1>1, <2>1 DEF BWInv, BWTypeOK
  <2>4. BWTypeOK'
    BY <2>2, <2>3 DEF BWInv, BWTypeOK
  <2>5. Shared' /\ Pumping' /\ Distinct'
    BY <2>2 DEF BWInv, Shared, Pumping, Distinct
  <2> QED  BY <2>4, <2>5
<1>3. DropsForgetNothing'
  <2> SUFFICES ASSUME NEW g \in Groups, NEW w \in Ways
               PROVE  account'[g][Bucket(w)]
                         = IF cache'[g] = NoItem THEN Full ELSE tokens'[cache'[g]][Bucket(w)]
    BY DEF DropsForgetNothing
  <2>1. /\ cache' = cache /\ Bucket(w) \in Ways /\ cache[g] \in Items \cup {NoItem}
        /\ account[g][Bucket(w)] = IF cache[g] = NoItem THEN Full
                                   ELSE tokens[cache[g]][Bucket(w)]
    BY <1>1, BucketType DEF BWInv, BWTypeOK, DropsForgetNothing
  <2>2. Capped(Full + 1) = Full
    BY DEF Capped, Full
  <2> QED  BY <1>1, <2>1, <2>2
<1> QED  BY <1>2, <1>3 DEF BWInv

-----------------------------------------------------------------------------

\* BWInv is an invariant.
LEMMA BWInvariance == BWSpec => []BWInv
<1>1. BWInv /\ [BWNext]_bwVars => BWInv'
  <2> SUFFICES ASSUME BWInv, [BWNext]_bwVars PROVE BWInv'
    OBVIOUS
  <2>1. CASE UNCHANGED bwVars
    BY <2>1 DEF bwVars, calls, BWInv, BWTypeOK, Shared, Pumping, Distinct, DropsForgetNothing
  <2>2. ASSUME NEW f \in Flows, Pair(f) PROVE BWInv'
    BY <2>2, PairKeeps
  <2>3. ASSUME NEW f \in Flows, Unpair(f) \/ Lapse(f) PROVE BWInv'
    BY <2>3, LeavingKeeps
  <2>4. ASSUME NEW f \in Flows, NEW w \in Ways, Pump(f, w) PROVE BWInv'
    BY <2>4, PumpKeeps
  <2>5. CASE BWTick
    BY <2>5, TickKeeps
  <2> QED  BY <2>1, <2>2, <2>3, <2>4, <2>5 DEF BWNext
<1> QED  BY BWStarts, <1>1, PTL DEF BWSpec

\* The types are right; in particular no bucket is ever more than full.
THEOREM BWTypes == BWSpec => []BWTypeOK
<1>1. BWInv => BWTypeOK
  BY DEF BWInv
<1> QED  BY BWInvariance, <1>1, PTL

\* bwlimit.go:187-218: two streams of a group that are up draw from the same buckets.
THEOREM GroupsShare == BWSpec => []OneItemPerGroup
<1>1. BWInv => OneItemPerGroup
  BY DEF BWInv, Shared, OneItemPerGroup
<1> QED  BY BWInvariance, <1>1, PTL

\* bwlimit.go:113-126: dropping a limiter changes no group's buckets.
THEOREM DroppingIsHarmless == BWSpec => []DropsForgetNothing
<1>1. BWInv => DropsForgetNothing
  BY DEF BWInv
<1> QED  BY BWInvariance, <1>1, PTL

-----------------------------------------------------------------------------
(* The certificates.                                                       *)

CertTypes ==
    /\ store \in Certs /\ certs \in Certs
    /\ copy \in Certs \cup {NoCopy, Cancelled, Failed}
    /\ rest \in 0..TTL
    /\ getting \in [Getters -> {"idle", "missed", "sharing", "reading", "read", "got"}]
    /\ found \in [Getters -> Certs \cup {NoCopy, Cancelled, Failed}]
    /\ writer \in {"idle", "put", "delete"}
    /\ onWay \in [Getters -> 0..MaxRead]
    /\ since0 \in [Certs -> 0..MaxSince]

Aging == copy \in Certs /\ rest > 0 => since0[copy] + rest <= TTL + MaxRead

\* What the store has is of now; what was read is as old as the answer at most.
Current ==
    /\ since0[store] = 0
    /\ writer = "put" => since0[certs] = 0
    /\ \A g \in Getters : (getting[g] = "read" /\ found[g] \in Certs)
                           => since0[found[g]] <= onWay[g]

\* An error about a context is found only by a read whose context has ended.
Blamed == /\ \A g \in Getters : (getting[g] = "read" /\ found[g] = Cancelled) => gone[g]
          /\ gone \in [Getters -> BOOLEAN]
          /\ CancelNotCached

CertInv == CertTypes /\ Aging /\ Current /\ BoundedStaleness

-----------------------------------------------------------------------------

\* An error is no certificate.
LEMMA ErrorsApart == /\ NoCopy \notin Certs /\ Cancelled \notin Certs /\ Failed \notin Certs
                     /\ Certs \subseteq Nat /\ 0 \in Certs
                     /\ TTL \in Nat /\ MaxRead \in Nat /\ MaxSince = TTL + MaxRead + 1
BY CertAssumption DEF NoCopy, Cancelled, Failed, Certs, MaxSince

LEMMA CertStarts == CertInit => CertInv
BY ErrorsApart DEF CertInit, CertInv, CertTypes, Aging, Current, BoundedStaleness

\* A hit has time left, so it is young.
LEMMA GetKeeps ==
    ASSUME CertInv, NEW g \in Getters,
           GetCached(g) \/ ShareRead(g) \/ ReturnCert(g) \/ EndGet(g)
    PROVE  CertInv'
<1> USE ErrorsApart
<1>1. CASE GetCached(g)
  <2>1. CertTypes' /\ Aging' /\ Current'
    BY <1>1 DEF GetCached, CertInv, CertTypes, Aging, Current
  <2>2. BoundedStaleness'
    <3>1. UNCHANGED since0
      BY <1>1 DEF GetCached
    <3>2. CASE copy # NoCopy /\ rest > 0
      <4>1. copy \in Certs => since0[copy] <= TTL + MaxRead
        <5> SUFFICES ASSUME copy \in Certs PROVE since0[copy] <= TTL + MaxRead
          OBVIOUS
        <5>1. since0[copy] \in 0..MaxSince /\ rest \in 0..TTL
          BY DEF CertInv, CertTypes
        <5>2. since0[copy] + rest <= TTL + MaxRead
          BY <3>2 DEF CertInv, Aging
        <5> QED  BY <5>1, <5>2
      <4>2. getting' = [getting EXCEPT ![g] = "got"] /\ found' = [found EXCEPT ![g] = copy]
        BY <1>1, <3>2 DEF GetCached
      <4> QED  BY <3>1, <4>1, <4>2 DEF CertInv, CertTypes, BoundedStaleness
    <3>3. CASE ~(copy # NoCopy /\ rest > 0)
      <4>1. getting' = [getting EXCEPT ![g] = "missed"] /\ UNCHANGED found
        BY <1>1, <3>3 DEF GetCached
      <4> QED  BY <3>1, <4>1 DEF CertInv, CertTypes, BoundedStaleness
    <3> QED  BY <3>2, <3>3
  <2> QED  BY <2>1, <2>2 DEF CertInv
<1>2. CASE ShareRead(g) \/ ReturnCert(g) \/ EndGet(g)
  BY <1>2 DEF ShareRead, ReturnCert, EndGet, CertInv, CertTypes, Aging, Current,
              BoundedStaleness
<1> QED  BY <1>1, <1>2

\* What is read is in the store.
LEMMA ReadKeeps == ASSUME CertInv, NEW g \in Getters, ReadStore(g) PROVE CertInv'
<1> USE ErrorsApart
<1>1. PICK result \in {store, Failed, Cancelled} : found' = [found EXCEPT ![g] = result]
  BY DEF ReadStore
<1>2. /\ getting' = [getting EXCEPT ![g] = "read"]
      /\ UNCHANGED <<store, certs, copy, rest, gone, writer, onWay, since0>>
  BY DEF ReadStore
<1>3. CertTypes' /\ Aging'
  BY <1>1, <1>2 DEF CertInv, CertTypes, Aging
<1>4. Current' /\ BoundedStaleness'
  BY <1>1, <1>2 DEF CertInv, CertTypes, Current, BoundedStaleness
<1> QED  BY <1>3, <1>4 DEF CertInv

\* It is cached, and handed out, as old as the answer and with the whole TTL left.
LEMMA FillKeeps == ASSUME CertInv, NEW g \in Getters, Fill(g) PROVE CertInv'
<1> USE ErrorsApart
<1> DEFINE sharers == {h \in Getters : h = g \/ getting[h] = "sharing"}
<1>1. /\ getting' = [h \in Getters |-> IF h \in sharers THEN "got" ELSE getting[h]]
      /\ found' = [h \in Getters |-> IF h \in sharers THEN found[g] ELSE found[h]]
      /\ (copy' = copy /\ rest' = rest) \/ (copy' = found[g] /\ rest' = TTL)
      /\ getting[g] = "read" /\ onWay' = [onWay EXCEPT ![g] = 0]
      /\ UNCHANGED <<store, certs, gone, writer, since0>>
  BY DEF Fill, Hand
<1>2. CertTypes'
  BY <1>1 DEF CertInv, CertTypes
<1>3. found[g] \in Certs => since0[found[g]] \in 0..MaxRead
  <2> SUFFICES ASSUME found[g] \in Certs PROVE since0[found[g]] \in 0..MaxRead
    OBVIOUS
  <2>1. since0[found[g]] \in 0..MaxSince /\ onWay[g] \in 0..MaxRead
    BY DEF CertInv, CertTypes
  <2>2. since0[found[g]] <= onWay[g]
    BY <1>1 DEF CertInv, Current
  <2> QED  BY <2>1, <2>2
<1>4. Aging'
  BY <1>1, <1>3 DEF CertInv, Aging
<1>5. Current'
  BY <1>1 DEF CertInv, CertTypes, Current
<1>6. BoundedStaleness'
  <2>1. found[g] \in Certs => since0[found[g]] <= TTL + MaxRead
    BY <1>3
  <2> QED  BY <1>1, <2>1 DEF CertInv, BoundedStaleness
<1> QED  BY <1>2, <1>4, <1>5, <1>6 DEF CertInv

\* A write makes its certificate a current one.
LEMMA WriteKeeps == ASSUME CertInv, PutCached \/ DeleteCached \/ WriteStore PROVE CertInv'
<1> USE ErrorsApart
<1>1. CASE PutCached
  <2>1. certs + 1 \in Certs
    BY <1>1, CertAssumption DEF PutCached, CertInv, CertTypes, Certs
  <2> QED  BY <1>1, <2>1 DEF PutCached, CertInv, CertTypes, Aging, Current, BoundedStaleness
<1>2. CASE DeleteCached
  BY <1>2 DEF DeleteCached, CertInv, CertTypes, Aging, Current, BoundedStaleness
<1>3. CASE WriteStore
  BY <1>3 DEF WriteStore, CertInv, CertTypes, Aging, Current, BoundedStaleness
<1> QED  BY <1>1, <1>2, <1>3

\* What an entry gains in age it loses of its time.
LEMMA CertTickKeeps == ASSUME CertInv, CertTick PROVE CertInv'
<1> USE ErrorsApart
<1>1. CertTypes'
  BY DEF CertTick, CertInv, CertTypes
<1>2. ASSUME NEW c \in Certs PROVE since0'[c] <= since0[c] + 1 /\ since0'[c] \in Nat
  BY DEF CertTick, CertInv, CertTypes
<1>3. Aging'
  <2> SUFFICES ASSUME copy \in Certs, rest' > 0 PROVE since0'[copy] + rest' <= TTL + MaxRead
    BY DEF CertTick, Aging
  <2>1. since0[copy] \in Nat /\ rest \in Nat /\ rest > 0 /\ rest' = rest - 1
    BY DEF CertTick, CertInv, CertTypes
  <2> QED  BY <1>2, <2>1 DEF CertInv, Aging
<1>4. Current'
  <2>1. since0'[store'] = 0 /\ (writer' = "put" => since0'[certs'] = 0)
    BY DEF CertTick, CertInv, CertTypes
  <2>2. ASSUME NEW g \in Getters, getting'[g] = "read", found'[g] \in Certs
        PROVE  since0'[found'[g]] <= onWay'[g]
    <3>1. /\ getting[g] = "read" /\ found'[g] = found[g] /\ found[g] \in Certs
          /\ onWay'[g] = onWay[g] + 1
      BY <2>2 DEF CertTick
    <3>2. since0[found[g]] \in Nat /\ onWay[g] \in Nat
      <4>1. since0 \in [Certs -> 0..MaxSince] /\ onWay \in [Getters -> 0..MaxRead]
        BY DEF CertInv, CertTypes
      <4>2. since0[found[g]] \in 0..MaxSince /\ onWay[g] \in 0..MaxRead
        BY <3>1, <4>1
      <4> QED  BY <4>2
    <3>3. since0[found[g]] <= onWay[g]
      BY <3>1 DEF CertInv, Current
    <3> QED  BY <1>2, <3>1, <3>2, <3>3
  <2> QED  BY <2>1, <2>2 DEF Current
<1>5. BoundedStaleness'
  BY DEF CertTick, BoundedStaleness
<1> QED  BY <1>1, <1>3, <1>4, <1>5 DEF CertInv

-----------------------------------------------------------------------------

LEMMA CertInvariance == CertSpec => []CertInv
<1>1. CertInv /\ [CertNext]_certVars => CertInv'
  <2> SUFFICES ASSUME CertInv, [CertNext]_certVars PROVE CertInv'
    OBVIOUS
  <2>1. CASE UNCHANGED certVars
    BY <2>1 DEF certVars, CertInv, CertTypes, Aging, Current, BoundedStaleness
  <2>2. ASSUME NEW g \in Getters, GetCached(g) \/ ShareRead(g) \/ ReturnCert(g) \/ EndGet(g)
        PROVE  CertInv'
    BY <2>2, GetKeeps
  <2>3. ASSUME NEW g \in Getters, ReadStore(g) PROVE CertInv'
    BY <2>3, ReadKeeps
  <2>4. ASSUME NEW g \in Getters, Fill(g) PROVE CertInv'
    BY <2>4, FillKeeps
  <2>5. CASE PutCached \/ DeleteCached \/ WriteStore
    BY <2>5, WriteKeeps
  <2>6. CASE CertTick
    BY <2>6, CertTickKeeps
  <2> QED  BY <2>1, <2>2, <2>3, <2>4, <2>5, <2>6 DEF CertNext
<1> QED  BY CertStarts, <1>1, PTL DEF CertSpec

LEMMA BlameStarts == CertInit => Blamed
BY CertAssumption DEF CertInit, Blamed, CancelNotCached, NoCopy, Cancelled

\* A read with an error about its context does not fill the cache.
LEMMA BlameStep == CertInv /\ Blamed /\ [CertNext]_certVars => Blamed'
<1> SUFFICES ASSUME CertInv, Blamed, [CertNext]_certVars PROVE Blamed'
  OBVIOUS
<1> USE DEF Blamed, CertInv, CertTypes
<1>1. NoCopy # Cancelled /\ \A c \in Certs : c # Cancelled
  BY CertAssumption DEF NoCopy, Cancelled, Certs
<1>2. ASSUME NEW g \in Getters, GetCached(g) PROVE Blamed'
  BY <1>1, <1>2 DEF GetCached, CancelNotCached
<1>3. ASSUME NEW g \in Getters, ShareRead(g) \/ ReturnCert(g) \/ EndGet(g) PROVE Blamed'
  BY <1>1, <1>3 DEF ShareRead, ReturnCert, EndGet, CancelNotCached
<1>4. ASSUME NEW g \in Getters, ReadStore(g) PROVE Blamed'
  <2>1. PICK result \in {store, Failed} \cup (IF gone[g] THEN {Cancelled} ELSE {}) :
           found' = [found EXCEPT ![g] = result]
    BY <1>4 DEF ReadStore
  <2>2. result = Cancelled => gone[g]
    BY <2>1, <1>1, CertAssumption DEF Failed, Cancelled
  <2>3. /\ getting' = [getting EXCEPT ![g] = "read"] /\ UNCHANGED <<copy, gone>>
    BY <1>4 DEF ReadStore
  <2> QED  BY <2>1, <2>2, <2>3 DEF CancelNotCached
<1>5. ASSUME NEW g \in Getters, Fill(g) PROVE Blamed'
  <2> DEFINE sharers == {h \in Getters : h = g \/ getting[h] = "sharing"}
  <2>1. /\ getting' = [h \in Getters |-> IF h \in sharers THEN "got" ELSE getting[h]]
        /\ found' = [h \in Getters |-> IF h \in sharers THEN found[g] ELSE found[h]]
        /\ getting[g] = "read" /\ UNCHANGED gone
    BY <1>5 DEF Fill, Hand
  <2>2. CancelNotCached'
    BY <1>5 DEF Fill, CancelNotCached
  <2> QED  BY <2>1, <2>2
<1>6. CASE PutCached
  <2>1. certs + 1 \in Certs
    BY <1>6, CertAssumption DEF PutCached, Certs
  <2> QED  BY <1>1, <1>6, <2>1 DEF PutCached, CancelNotCached
<1>7. CASE DeleteCached \/ WriteStore \/ CertTick \/ UNCHANGED certVars
  BY <1>1, <1>7 DEF DeleteCached, WriteStore, CertTick, certVars, CancelNotCached
<1> QED  BY <1>2, <1>3, <1>4, <1>5, <1>6, <1>7 DEF CertNext

\* local.go:35-67: what Get returns is out of date by the TTL and the time of one answer
\* of the store at most, however long answers take, and the end of a caller's context is
\* not remembered.
THEOREM StaleByTTL == CertSpec => []CacheSound
<1>1. CertInv /\ Blamed => CacheSound
  BY DEF CertInv, Blamed, CacheSound
<1>2. CertInv /\ Blamed /\ [CertNext]_certVars => Blamed'
  BY BlameStep
<1> QED  BY CertInvariance, BlameStarts, <1>1, <1>2, PTL DEF CertSpec

-----------------------------------------------------------------------------
(* The log.                                                                *)

Offered == Authors \X (Nat \ {0})
LogTypes ==
    /\ lines \in [Authors -> Nat]
    /\ queue \in Seq(Offered \cup {Marker})
    /\ accepted \in Seq(Offered) /\ written \in Seq(Offered) /\ owed \in Seq(Offered)
    /\ loopDone \in BOOLEAN
    /\ closer \in {"no", "call", "wait", "nil", "ctx"}

\* Sequence s is how sequence t begins.
Begins(s, t) == Len(s) <= Len(t) /\ \A i \in 1..Len(s) : s[i] = t[i]

\* No marker is queued, and all that is queued is to be written.
AllLines ==
    /\ \A i \in 1..Len(queue) : queue[i] # Marker /\ queue[i] = accepted[Len(written) + i]
    /\ Len(accepted) = Len(written) + Len(queue)

\* The marker is the m-th in the queue: the lines before it are to be written.
MarkedAt(m) ==
    /\ queue[m] = Marker
    /\ \A i \in 1..m - 1 : queue[i] # Marker /\ queue[i] = accepted[Len(written) + i]
    /\ Len(written) + (m - 1) <= Len(accepted)
    /\ Len(owed) <= Len(written) + (m - 1)

InPlace == AllLines \/ \E m \in 1..Len(queue) : MarkedAt(m)

LogInv ==
    /\ LogTypes
    /\ Begins(written, accepted) /\ Begins(owed, accepted)
    /\ ~loopDone => InPlace
    /\ loopDone => Len(owed) <= Len(written)
    /\ closer \in {"no", "call"} => ~loopDone /\ AllLines
    /\ closer = "nil" => loopDone

LEMMA LinesAreNoMarkers == Marker \notin Offered
BY DEF Marker, Offered

LEMMA BeginsIsPrefix ==
    ASSUME NEW S, NEW s \in Seq(S), NEW t \in Seq(S), Begins(s, t) PROVE IsPrefix(s, t)
<1> DEFINE a == SubSeq(s, 1, Len(s))
           b == SubSeq(t, 1, Len(s))
<1>1. Len(s) \in Nat /\ Len(t) \in Nat /\ Len(s) <= Len(t)
  BY DEF Begins
<1>2. a \in Seq(S) /\ Len(a) = Len(s) /\ \A i \in 1..Len(s) : a[i] = s[i]
  BY <1>1
<1>3. b \in Seq(S) /\ Len(b) = Len(s) /\ \A i \in 1..Len(s) : b[i] = t[i]
  BY <1>1
<1>4. \A i \in 1..Len(a) : a[i] = b[i]
  BY <1>2, <1>3 DEF Begins
<1> HIDE DEF a, b
<1>5. a = b
  BY <1>2, <1>3, <1>4, SeqEqual
<1> QED  BY <1>1, <1>5 DEF a, b, IsPrefix

\* A line more at the end changes nothing about how a sequence begins.
LEMMA BeginsLonger ==
    ASSUME NEW S, NEW s \in Seq(S), NEW t \in Seq(S), NEW e \in S, Begins(s, t)
    PROVE  Begins(s, Append(t, e))
<1>1. /\ Len(Append(t, e)) = Len(t) + 1
      /\ \A i \in 1..Len(t) : Append(t, e)[i] = t[i]
  BY AppendProperties
<1>2. Len(s) \in Nat /\ Len(t) \in Nat
  OBVIOUS
<1> QED  BY <1>1, <1>2 DEF Begins

LEMMA LogStarts == LogInit => LogInv
<1> SUFFICES ASSUME LogInit PROVE LogInv
  OBVIOUS
<1>1. /\ queue = <<>> /\ accepted = <<>> /\ written = <<>> /\ owed = <<>>
      /\ loopDone = FALSE /\ closer = "no" /\ lines = [a \in Authors |-> 0]
  BY DEF LogInit
<1>2. Len(<<>>) = 0 /\ \A S : <<>> \in Seq(S)
  OBVIOUS
<1>3. LogTypes
  BY <1>1, <1>2 DEF LogTypes
<1>4. AllLines /\ Begins(<<>>, <<>>)
  BY <1>1, <1>2 DEF AllLines, Begins
<1> QED  BY <1>1, <1>3, <1>4 DEF LogInv, InPlace

\* A line goes behind the lines, or behind the marker.
LEMMA WriteLineKeeps == ASSUME LogInv, NEW a \in Authors, WriteLine(a) PROVE LogInv'
<1> DEFINE line == <<a, lines[a] + 1>>
<1>1. line \in Offered /\ line # Marker
  BY LinesAreNoMarkers DEF LogInv, LogTypes, Offered
<1>2. /\ lines' = [lines EXCEPT ![a] = @ + 1]
      /\ UNCHANGED <<written, loopDone, closer, owed>>
  BY DEF WriteLine
<1>3. lines' \in [Authors -> Nat]
  BY <1>2 DEF LogInv, LogTypes
<1>4. CASE UNCHANGED <<queue, accepted>>
  BY <1>2, <1>3, <1>4 DEF LogInv, LogTypes, InPlace, AllLines, MarkedAt, Begins
<1>5. CASE queue' = Append(queue, line) /\ accepted' = Append(accepted, line)
  <2> HIDE DEF line
  <2>1. /\ queue \in Seq(Offered \cup {Marker}) /\ accepted \in Seq(Offered)
        /\ written \in Seq(Offered) /\ owed \in Seq(Offered)
        /\ Len(queue) \in Nat /\ Len(accepted) \in Nat /\ Len(written) \in Nat
        /\ Len(owed) \in Nat
    BY DEF LogInv, LogTypes
  <2>2. /\ queue' \in Seq(Offered \cup {Marker}) /\ Len(queue') = Len(queue) + 1
        /\ queue'[Len(queue) + 1] = line
        /\ \A i \in 1..Len(queue) : queue'[i] = queue[i]
    BY <1>1, <1>5, <2>1, AppendProperties
  <2>3. /\ accepted' \in Seq(Offered) /\ Len(accepted') = Len(accepted) + 1
        /\ accepted'[Len(accepted) + 1] = line
        /\ \A i \in 1..Len(accepted) : accepted'[i] = accepted[i]
    BY <1>1, <1>5, <2>1, AppendProperties
  <2>4. Begins(written, accepted)' /\ Begins(owed, accepted)'
    BY <1>1, <1>2, <1>5, <2>1, BeginsLonger DEF LogInv
  <2>5. ASSUME AllLines PROVE AllLines'
    <3>1. Len(accepted') = Len(written) + Len(queue')
      BY <2>1, <2>2, <2>3, <2>5 DEF AllLines
    <3>2. ASSUME NEW i \in 1..Len(queue')
          PROVE  queue'[i] # Marker /\ queue'[i] = accepted'[Len(written) + i]
      <4>1. CASE i \in 1..Len(queue)
        <5>1. Len(written) + i \in 1..Len(accepted)
          BY <2>1, <2>5, <4>1 DEF AllLines
        <5> QED  BY <2>2, <2>3, <2>5, <4>1, <5>1 DEF AllLines
      <4>2. CASE i = Len(queue) + 1
        <5>1. Len(written) + i = Len(accepted) + 1
          BY <2>1, <2>5, <4>2 DEF AllLines
        <5> QED  BY <1>1, <2>2, <2>3, <4>2, <5>1
      <4> QED  BY <2>1, <2>2, <4>1, <4>2
    <3> QED  BY <1>2, <3>1, <3>2 DEF AllLines
  <2>6. ASSUME NEW m \in 1..Len(queue), MarkedAt(m) PROVE m \in 1..Len(queue') /\ MarkedAt(m)'
    <3>1. m \in 1..Len(queue')
      BY <2>1, <2>2
    <3>2. ASSUME NEW i \in 1..m - 1
          PROVE  queue'[i] # Marker /\ queue'[i] = accepted'[Len(written) + i]
      <4>1. i \in 1..Len(queue) /\ Len(written) + i \in 1..Len(accepted)
        BY <2>1, <2>6 DEF MarkedAt
      <4> QED  BY <2>2, <2>3, <2>6, <4>1 DEF MarkedAt
    <3>3. Len(written) + (m - 1) <= Len(accepted')
      BY <2>1, <2>3, <2>6 DEF MarkedAt
    <3> QED  BY <1>2, <2>2, <2>6, <3>1, <3>2, <3>3 DEF MarkedAt
  <2>7. ~loopDone => InPlace'
    BY <2>5, <2>6 DEF LogInv, InPlace
  <2>8. LogTypes'
    BY <1>2, <1>3, <2>2, <2>3 DEF LogInv, LogTypes
  <2> QED  BY <1>2, <2>4, <2>5, <2>7, <2>8 DEF LogInv
<1> QED  BY <1>4, <1>5 DEF WriteLine

\* The first in the queue is the next accepted line, or the marker.
LEMMA LoopTurnKeeps == ASSUME LogInv, LoopTurn PROVE LogInv'
<1>1. /\ queue \in Seq(Offered \cup {Marker}) /\ accepted \in Seq(Offered)
      /\ written \in Seq(Offered) /\ owed \in Seq(Offered)
      /\ Len(queue) \in Nat /\ Len(accepted) \in Nat /\ Len(written) \in Nat
      /\ Len(owed) \in Nat
  BY DEF LogInv, LogTypes
<1>2. /\ queue # <<>> /\ ~loopDone /\ queue' = Tail(queue) /\ InPlace
      /\ UNCHANGED <<lines, accepted, closer, owed>>
  BY DEF LoopTurn, LogInv
<1>3. /\ Len(queue) > 0 /\ Head(queue) = queue[1]
      /\ queue' \in Seq(Offered \cup {Marker}) /\ Len(queue') = Len(queue) - 1
      /\ \A i \in 1..Len(queue') : queue'[i] = queue[i + 1]
  BY <1>1, <1>2, HeadTailProperties
<1>4. CASE queue[1] = Marker
  <2>1. loopDone' = TRUE /\ UNCHANGED written
    BY <1>3, <1>4 DEF LoopTurn
  <2>2. ~AllLines
    BY <1>1, <1>3, <1>4 DEF AllLines
  <2>3. PICK m \in 1..Len(queue) : MarkedAt(m)
    BY <1>2, <2>2 DEF InPlace
  <2>4. m = 1
    BY <1>1, <1>4, <2>3 DEF MarkedAt
  <2>5. Len(owed) <= Len(written)
    BY <1>1, <2>3, <2>4 DEF MarkedAt
  <2>6. closer \notin {"no", "call"}
    BY <2>2 DEF LogInv
  <2> QED  BY <1>2, <1>3, <2>1, <2>5, <2>6 DEF LogInv, LogTypes, Begins
<1>5. CASE queue[1] # Marker
  <2>1. written' = Append(written, queue[1]) /\ UNCHANGED loopDone
    BY <1>3, <1>5 DEF LoopTurn
  <2>2. queue[1] \in Offered
    BY <1>1, <1>3, <1>5
  <2>3. /\ written' \in Seq(Offered) /\ Len(written') = Len(written) + 1
        /\ written'[Len(written) + 1] = queue[1]
        /\ \A i \in 1..Len(written) : written'[i] = written[i]
    BY <1>1, <2>1, <2>2, AppendProperties
  <2>4. ASSUME AllLines
        PROVE  AllLines' /\ queue[1] = accepted[Len(written) + 1]
                         /\ Len(written) + 1 <= Len(accepted)
    <3>1. queue[1] = accepted[Len(written) + 1] /\ Len(written) + 1 <= Len(accepted)
      BY <1>1, <1>3, <2>4 DEF AllLines
    <3>2. ASSUME NEW i \in 1..Len(queue')
          PROVE  queue'[i] # Marker /\ queue'[i] = accepted[Len(written') + i]
      <4>1. i + 1 \in 1..Len(queue) /\ Len(written') + i = Len(written) + (i + 1)
        BY <1>1, <1>3, <2>3
      <4>2. queue[i + 1] # Marker /\ queue[i + 1] = accepted[Len(written) + (i + 1)]
        BY <2>4, <4>1 DEF AllLines
      <4> QED  BY <1>3, <4>1, <4>2
    <3>3. Len(accepted) = Len(written') + Len(queue')
      BY <1>1, <1>3, <2>3, <2>4 DEF AllLines
    <3> QED  BY <1>2, <3>1, <3>2, <3>3 DEF AllLines
  <2>5. ASSUME NEW m \in 1..Len(queue), MarkedAt(m)
        PROVE  /\ m - 1 \in 1..Len(queue') /\ MarkedAt(m - 1)'
               /\ queue[1] = accepted[Len(written) + 1]
               /\ Len(written) + 1 <= Len(accepted)
    <3>1. m # 1
      BY <1>5, <2>5 DEF MarkedAt
    <3>2. m - 1 \in 1..Len(queue') /\ (m - 1) + 1 = m
      BY <1>1, <1>3, <3>1
    <3>3. queue'[m - 1] = Marker
      BY <1>3, <2>5, <3>2 DEF MarkedAt
    <3>4. ASSUME NEW i \in 1..(m - 1) - 1
          PROVE  queue'[i] # Marker /\ queue'[i] = accepted[Len(written') + i]
      <4>1. /\ i + 1 \in 1..m - 1 /\ i \in 1..Len(queue')
            /\ Len(written') + i = Len(written) + (i + 1)
        BY <1>1, <1>3, <2>3
      <4>2. queue[i + 1] # Marker /\ queue[i + 1] = accepted[Len(written) + (i + 1)]
        BY <2>5, <4>1 DEF MarkedAt
      <4> QED  BY <1>3, <4>1, <4>2
    <3>5. /\ Len(written') + ((m - 1) - 1) <= Len(accepted)
          /\ Len(owed) <= Len(written') + ((m - 1) - 1)
      BY <1>1, <2>3, <2>5 DEF MarkedAt
    <3>6. queue[1] = accepted[Len(written) + 1]
      BY <2>5, <3>1 DEF MarkedAt
    <3>7. Len(written) + 1 <= Len(accepted)
      BY <1>1, <2>5, <3>1 DEF MarkedAt
    <3> QED  BY <1>2, <3>2, <3>3, <3>4, <3>5, <3>6, <3>7 DEF MarkedAt
  <2>6. queue[1] = accepted[Len(written) + 1] /\ Len(written) + 1 <= Len(accepted)
    BY <1>2, <2>4, <2>5 DEF InPlace
  <2>7. InPlace'
    BY <1>2, <2>4, <2>5 DEF InPlace
  <2>8. Begins(written, accepted)'
    <3>1. \A i \in 1..Len(written') : i \in 1..Len(written) \/ i = Len(written) + 1
      BY <1>1, <2>3
    <3> QED  BY <1>2, <2>3, <2>6, <3>1 DEF LogInv, Begins
  <2>9. LogTypes'
    BY <1>2, <1>3, <2>1, <2>3 DEF LogInv, LogTypes
  <2>10. Begins(owed, accepted)'
    BY <1>2 DEF LogInv, Begins
  <2> QED  BY <1>2, <2>1, <2>4, <2>7, <2>8, <2>9, <2>10 DEF LogInv
<1> QED  BY <1>4, <1>5

\* The marker goes behind what was accepted before Close.
LEMMA CloseKeeps ==
    ASSUME LogInv, CallClose \/ QueueMarker \/ CloseReturns \/ ExpireClose PROVE LogInv'
<1>1. CASE CallClose
  <2>1. Begins(accepted, accepted)
    BY DEF Begins, LogInv, LogTypes
  <2>2. AllLines /\ AllLines' /\ ~loopDone
    BY <1>1 DEF CallClose, LogInv, AllLines
  <2>3. LogTypes' /\ Begins(written, accepted)' /\ Begins(owed, accepted)'
    BY <1>1, <2>1 DEF CallClose, LogInv, LogTypes, Begins
  <2> QED  BY <1>1, <2>2, <2>3 DEF CallClose, LogInv, InPlace
<1>2. CASE QueueMarker
  <2>1. /\ queue \in Seq(Offered \cup {Marker})
        /\ Len(queue) \in Nat /\ Len(accepted) \in Nat /\ Len(written) \in Nat
        /\ Len(owed) \in Nat
    BY DEF LogInv, LogTypes
  <2>2. /\ queue' = Append(queue, Marker) /\ closer = "call" /\ closer' = "wait"
        /\ UNCHANGED <<lines, accepted, written, loopDone, owed>>
    BY <1>2 DEF QueueMarker
  <2>3. /\ queue' \in Seq(Offered \cup {Marker}) /\ Len(queue') = Len(queue) + 1
        /\ queue'[Len(queue) + 1] = Marker
        /\ \A i \in 1..Len(queue) : queue'[i] = queue[i]
    BY <2>1, <2>2, AppendProperties
  <2>4. AllLines
    BY <2>2 DEF LogInv
  <2>0. PICK m \in Nat : m = Len(queue) + 1
    BY <2>1
  <2>5. m - 1 = Len(queue) /\ m \in 1..Len(queue')
    BY <2>0, <2>1, <2>3
  <2>6. \A i \in 1..Len(queue) : queue'[i] # Marker /\ queue'[i] = accepted[Len(written) + i]
    BY <2>3, <2>4 DEF AllLines
  <2>7. /\ Len(written) + Len(queue) <= Len(accepted)
        /\ Len(owed) <= Len(written) + Len(queue)
    BY <2>1, <2>4 DEF AllLines, LogInv, Begins
  <2>8. MarkedAt(m)'
    BY <2>0, <2>2, <2>3, <2>5, <2>6, <2>7 DEF MarkedAt
  <2>9. InPlace'
    BY <2>5, <2>8 DEF InPlace
  <2> QED  BY <2>2, <2>3, <2>9 DEF LogInv, LogTypes, Begins
<1>3. CASE CloseReturns
  BY <1>3 DEF CloseReturns, LogInv, LogTypes, Begins, InPlace, AllLines, MarkedAt
<1>4. CASE ExpireClose
  BY <1>4 DEF ExpireClose, LogInv, LogTypes, Begins, InPlace, AllLines, MarkedAt
<1> QED  BY <1>1, <1>2, <1>3, <1>4

LEMMA LogInvariance == LogSpec => []LogInv
<1>1. LogInv /\ [LogNext]_logVars => LogInv'
  <2> SUFFICES ASSUME LogInv, [LogNext]_logVars PROVE LogInv'
    OBVIOUS
  <2>1. CASE UNCHANGED logVars
    BY <2>1 DEF logVars, LogInv, LogTypes, Begins, InPlace, AllLines, MarkedAt
  <2> QED  BY <2>1, WriteLineKeeps, LoopTurnKeeps, CloseKeeps DEF LogNext
<1> QED  BY LogStarts, <1>1, PTL DEF LogSpec

\* logwriter.go:22-60: a line that was accepted is written in its place, and before
\* Close answers nil, for any number of authors and any length of the queue.
THEOREM LogIsKept == LogSpec => []LinesKept
<1>1. ASSUME LogInv PROVE LinesKept
  <2>1. /\ accepted \in Seq(Offered) /\ written \in Seq(Offered) /\ owed \in Seq(Offered)
        /\ Begins(written, accepted)
    BY <1>1 DEF LogInv, LogTypes
  <2>2. NoHole
    BY <2>1, BeginsIsPrefix DEF NoHole
  <2>3. closer = "nil" => Begins(owed, written)
    BY <1>1, <2>1 DEF LogInv, Begins
  <2>4. CloseFlushes
    BY <2>1, <2>3, BeginsIsPrefix DEF CloseFlushes
  <2> QED  BY <2>2, <2>4 DEF LinesKept
<1> QED  BY LogInvariance, <1>1, PTL

-----------------------------------------------------------------------------
(* One plain request.                                                      *)

\* A chunk is at the target, in the copying goroutine's hand or lost, and was taken
\* from what the client has sent.
UpCounts ==
    /\ offered \in Nat /\ taken \in Nat /\ arrived \in Nat
    /\ offered <= UpChunks /\ taken <= offered
    /\ arrived <= taken /\ (inHand => arrived < taken)
    /\ upEnd = "whole" /\ upSized => arrived = UpChunks

DownCounts ==
    /\ answered \in Nat /\ relayed \in Nat
    /\ answered <= DownChunks /\ relayed <= answered
    /\ answer = "all" => answered = DownChunks

\* What the handler has done so far, and what it knew then.
RelayFits ==
    /\ plain \in {"trip", "relay", "over"} /\ client \in {"sending", "sent", "left"}
    /\ plain = "relay" => trip = "answered"
    /\ plain # "over" => seen = "open" /\ (ended => client = "left" \/ told)
    /\ seen = "whole" => /\ trip = "answered"
                         /\ ~told => relayed = answered /\ answer \in {"all", "broken"}
                         /\ PassLength(downSized, unzips) => relayed = DownChunks

PlainInv == UpCounts /\ DownCounts /\ RelayFits

LEMMA PlainStarts == PlainInit => PlainInv
<1> SUFFICES ASSUME PlainInit PROVE PlainInv
  OBVIOUS
<1>1. UpCounts
  BY ChunksAssumption DEF PlainInit, UpCounts
<1>2. DownCounts
  BY ChunksAssumption DEF PlainInit, DownCounts
<1>3. RelayFits
  BY ChunksAssumption DEF PlainInit, RelayFits, PassLength
<1> QED BY <1>1, <1>2, <1>3 DEF PlainInv

\* The client's side and the copying goroutine.
LEMMA UploadKeeps ==
    ASSUME PlainInv,
           \/ Offer \/ Leave \/ EndContext \/ StopRequest
           \/ StartFlow \/ TakeChunk \/ EndFlow \/ CloseFlow
    PROVE  PlainInv'
<1>1. CASE Offer \/ Leave
  BY <1>1, ChunksAssumption DEF Offer, Leave, inputs, upload, target, relay,
                       PlainInv, UpCounts, DownCounts, RelayFits, PassLength
<1>2. CASE EndContext \/ StopRequest \/ StartFlow
  BY <1>2 DEF EndContext, StopRequest, StartFlow, inputs, sideUp, upload, target, relay,
              PlainInv, UpCounts, DownCounts, RelayFits, PassLength
<1>3. CASE TakeChunk
  BY <1>3 DEF TakeChunk, inputs, sideUp, target, relay,
              PlainInv, UpCounts, DownCounts, RelayFits, PassLength
<1>4. CASE EndFlow \/ CloseFlow
  BY <1>4 DEF EndFlow, CloseFlow, inputs, sideUp, target, relay,
              PlainInv, UpCounts, DownCounts, RelayFits, PassLength
<1> QED  BY <1>1, <1>2, <1>3, <1>4

\* RoundTrip.
LEMMA TripKeeps ==
    ASSUME PlainInv,
           DialTarget \/ SendChunk \/ SendEnd \/ GiveUpTrip \/ AnswerHead \/ AnswerBody
           \/ BreakTarget
    PROVE  PlainInv'
<1>1. CASE DialTarget \/ GiveUpTrip
  BY <1>1 DEF DialTarget, GiveUpTrip, inputs, sideUp, relay,
              PlainInv, UpCounts, DownCounts, RelayFits, PassLength
<1>2. CASE SendChunk
  BY <1>2 DEF SendChunk, inputs, sideUp, relay, PlainInv, UpCounts, DownCounts, RelayFits, PassLength
<1>3. CASE SendEnd
  BY <1>3, ChunksAssumption DEF SendEnd, inputs, sideUp, relay,
                                PlainInv, UpCounts, DownCounts, RelayFits, PassLength
<1>4. CASE AnswerHead \/ AnswerBody
  BY <1>4, ChunksAssumption DEF AnswerHead, AnswerBody, inputs, sideUp, upload, relay,
                                PlainInv, UpCounts, DownCounts, RelayFits, PassLength
<1>5. CASE BreakTarget
  BY <1>5 DEF BreakTarget, inputs, sideUp, relay, PlainInv, UpCounts, DownCounts, RelayFits, PassLength
<1> QED  BY <1>1, <1>2, <1>3, <1>4, <1>5

\* The handler.
LEMMA RelayKeeps ==
    ASSUME PlainInv, FailRequest \/ RelayHead \/ RelayChunk \/ RelayOver
    PROVE  PlainInv'
<1>1. CASE FailRequest \/ RelayHead \/ RelayChunk
  BY <1>1 DEF FailRequest, RelayHead, RelayChunk, inputs, sideUp, upload, target,
              PlainInv, UpCounts, DownCounts, RelayFits, PassLength
<1>2. CASE RelayOver
  BY <1>2, ChunksAssumption DEF RelayOver, inputs, sideUp,
                                PlainInv, UpCounts, DownCounts, RelayFits, PassLength
<1> QED  BY <1>1, <1>2

LEMMA PlainInvariance == PlainSpec => []PlainInv
<1>1. PlainInv /\ UNCHANGED plainVars => PlainInv'
  BY DEF plainVars, PlainInv, UpCounts, DownCounts, RelayFits, PassLength
<1>2. PlainInv /\ [PlainNext]_plainVars => PlainInv'
  BY <1>1, UploadKeeps, TripKeeps, RelayKeeps DEF PlainNext
<1> QED  BY PlainStarts, <1>2, PTL DEF PlainSpec

\* handler.go:165-195, for bodies of any length: nobody takes a part for the whole where
\* the length is announced and no decompression takes it away, also at a signal.
THEOREM PartsAreTold == PlainSpec => []NoPartForWhole
<1>1. PlainInv => NoPartForWhole
  BY DEF PlainInv, UpCounts, DownCounts, RelayFits, NoPartForWhole, PassLength
<1> QED  BY PlainInvariance, <1>1, PTL

-----------------------------------------------------------------------------
(* Shutting down.                                                          *)

Deferred == {"listener", "certCache", "auth", "log"}
VisitStates == {"away", "plain", "tunnel", "aborted", "over", "cut", "lost"}

ShutTypes ==
    /\ toClose \in Seq(Deferred)
    /\ visit \in [Visitors -> VisitStates]
    /\ serving \in {"runs", "closed", "failed"}
    /\ watcher \in {"waits", "grace", "complete"}
    /\ listener \in {"open", "closed"}

\* Who has waited for whom: the loop for the listener, the watcher for the requests
\* (none comes after the listener is closed), run() for the loop and the watcher, the
\* exit for run().
Waited ==
    /\ serving = "closed" \/ watcher # "waits" => listener = "closed"
    /\ watcher = "complete" /\ mode = "http" /\ ~graceOver =>
          \A v \in Visitors : visit[v] \notin InHandler
    /\ serving # "runs" => mode # "none"
    /\ watcher # "waits" => stopped
    /\ stopped => mode # "none"
    /\ code # 2 => /\ serving # "runs"
                   /\ serving = "closed" /\ mode = "http" => watcher = "complete"
    /\ (\E v \in Visitors : visit[v] = "lost") => code # 2

ShutInv == ShutTypes /\ Waited /\ HandlersFirst

LEMMA ShutStarts == ShutInit => ShutInv
<1> SUFFICES ASSUME ShutInit PROVE ShutInv
  OBVIOUS
<1>1. <<"listener", "certCache", "auth", "log">> \in Seq(Deferred)
  BY DEF Deferred
<1>2. ShutTypes
  BY <1>1 DEF ShutInit, ShutTypes, VisitStates
<1>3. Waited /\ HandlersFirst
  BY DEF ShutInit, Waited, HandlersFirst
<1> QED  BY <1>2, <1>3 DEF ShutInv

\* What nobody's visit ends or begins with.
LEMMA StopperKeeps ==
    ASSUME ShutInv,
           ChooseMode \/ Signal \/ WatcherWakes \/ GraceEnds \/ ShutdownReturns
           \/ ServeReturns \/ RunReturns
    PROVE  ShutInv'
<1>1. UNCHANGED <<visit, toClose>>
  BY DEF ChooseMode, Signal, WatcherWakes, GraceEnds, ShutdownReturns, ServeReturns, RunReturns
<1>2. ShutTypes'
  BY <1>1 DEF ChooseMode, Signal, WatcherWakes, GraceEnds, ShutdownReturns, ServeReturns,
              RunReturns, ShutInv, ShutTypes
<1>3. CASE ChooseMode \/ Signal \/ WatcherWakes
  <2>1. CASE ChooseMode
    <3>1. mode = "none" /\ UNCHANGED <<stopped, listener, serving, watcher, graceOver, visit, code>>
      BY <2>1 DEF ChooseMode
    <3>2. serving = "runs" /\ code = 2
      BY <3>1 DEF ShutInv, ShutTypes, Waited
    <3>3. watcher # "complete"
      BY <3>1 DEF ShutInv, ShutTypes, Waited
    <3> QED  BY <1>2, <3>1, <3>2, <3>3 DEF ShutInv, ShutTypes, Waited, HandlersFirst
  <2>2. CASE Signal
    BY <1>2, <2>2 DEF Signal, ShutInv, ShutTypes, Waited, HandlersFirst
  <2>3. CASE WatcherWakes
    BY <1>2, <2>3 DEF WatcherWakes, ShutInv, ShutTypes, Waited, HandlersFirst
  <2> QED  BY <1>3, <2>1, <2>2, <2>3
<1>4. CASE GraceEnds \/ ShutdownReturns
  BY <1>2, <1>4 DEF GraceEnds, ShutdownReturns, ShutInv, ShutTypes, Waited, HandlersFirst
<1>5. CASE ServeReturns
  <2>1. code = 2
    BY <1>5 DEF ServeReturns, ShutInv, Waited
  <2> QED  BY <1>2, <1>5, <2>1 DEF ServeReturns, ShutInv, ShutTypes, Waited, HandlersFirst
<1>6. CASE RunReturns
  <2>1. /\ code = 2 /\ code' \in {0, 1} /\ serving # "runs"
        /\ serving = "closed" /\ mode = "http" => watcher = "complete"
    BY <1>6 DEF RunReturns, MayReturn
  <2>2. UNCHANGED <<mode, stopped, listener, serving, watcher, graceOver, visit>>
    BY <1>6 DEF RunReturns
  <2> QED  BY <1>2, <2>1, <2>2 DEF ShutInv, ShutTypes, Waited, HandlersFirst
<1> QED  BY <1>3, <1>4, <1>5, <1>6

LEMMA VisitKeeps ==
    ASSUME ShutInv, NEW v \in Visitors, Accept(v) \/ ContextEnds(v) \/ VisitEnds(v) PROVE ShutInv'
<1>1. UNCHANGED <<mode, stopped, listener, serving, watcher, graceOver, toClose, code>>
  BY DEF Accept, ContextEnds, VisitEnds
<1>2. /\ visit' \in [Visitors -> VisitStates]
      /\ \A u \in Visitors : visit'[u] = "lost" => visit[u] = "lost"
      /\ \A u \in Visitors : visit'[u] \in InHandler => visit[u] \in InHandler \/ Accept(v)
  BY DEF Accept, ContextEnds, VisitEnds, InHandler, ShutInv, ShutTypes, VisitStates
<1>3. Accept(v) => serving = "runs" /\ listener = "open"
  BY DEF Accept
<1> QED  BY <1>1, <1>2, <1>3 DEF ShutInv, ShutTypes, Waited, HandlersFirst

\* The last of the deferred calls is the exit.
LEMMA DeferredKeeps == ASSUME ShutInv, CloseNext PROVE ShutInv'
<1>1. /\ code # 2 /\ toClose # <<>> /\ toClose' = Tail(toClose)
      /\ listener' \in {"closed", listener}
      /\ UNCHANGED <<mode, stopped, serving, watcher, graceOver, code>>
  BY DEF CloseNext
<1>2. visit' = visit \/
        visit' = [v \in Visitors |-> CASE visit[v] \in InHandler -> "lost"
                                       [] visit[v] = "tunnel"   -> "cut"
                                       [] OTHER                 -> visit[v]]
  BY DEF CloseNext
<1>3. /\ visit' \in [Visitors -> VisitStates]
      /\ \A u \in Visitors : visit'[u] = "lost" => visit[u] \in InHandler \cup {"lost"}
      /\ \A u \in Visitors : visit'[u] \in InHandler => visit[u] \in InHandler
  BY <1>2 DEF InHandler, ShutInv, ShutTypes, VisitStates
<1>4. toClose' \in Seq(Deferred)
  <2>1. toClose \in Seq(Deferred)
    BY DEF ShutInv, ShutTypes
  <2> QED  BY <1>1, <2>1, HeadTailProperties
<1>5. ShutTypes'
  BY <1>1, <1>3, <1>4 DEF ShutInv, ShutTypes
<1> QED  BY <1>1, <1>3, <1>5 DEF ShutInv, Waited, HandlersFirst

LEMMA ShutInvariance == ShutSpec => []ShutInv
<1>1. ShutInv /\ UNCHANGED shutVars => ShutInv'
  BY DEF shutVars, ShutInv, ShutTypes, Waited, HandlersFirst
<1>2. ShutInv /\ [ShutNext]_shutVars => ShutInv'
  BY <1>1, StopperKeeps, VisitKeeps, DeferredKeeps DEF ShutNext
<1> QED  BY ShutStarts, <1>2, PTL DEF ShutSpec

\* main.go:876-893: for any number of clients, run() goes on to close and exit only
\* behind the handlers of plain requests or the end of the grace period.
THEOREM HandlersGoFirst == ShutSpec => []HandlersFirst
<1>1. ShutInv => HandlersFirst
  BY DEF ShutInv
<1> QED  BY ShutInvariance, <1>1, PTL
===============================================================================

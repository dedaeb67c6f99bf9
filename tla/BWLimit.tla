------------------------------- MODULE BWLimit -------------------------------
(***************************************************************************)
(* Streams under a bandwidth limit: forward.BWLimit (bwlimit.go in         *)
(* pkg/dumbproxy/forward).  The streams of a group share a pair of         *)
(* limiters, kept in a cache.  A stream holds its item's read lock while   *)
(* it lasts.  Every new item makes the cache try some others, and it drops *)
(* one that nobody holds and whose buckets are full.                       *)
(*                                                                         *)
(* The cache (secache) is a library: SetLocked samples items, three here,  *)
(* and deletes those the function given to New calls invalid.  Do runs     *)
(* under its lock.  The arithmetic of a limiter is RateLimiter's; here a   *)
(* bucket is a number of half chunks that may be negative.                 *)
(***************************************************************************)
EXTENDS Integers, FiniteSets

CONSTANTS
    Flows,      \* calls of PairConnections
    Groups,     \* group keys, chosen by the limit provider
    NoGroup,
    Separate,   \* LimitParameters.Separate: a bucket for each direction
    MaxDebt     \* bound on the half chunks a bucket is behind: more is taken for this

ASSUME BWAssumption == /\ IsFiniteSet(Flows) /\ IsFiniteSet(Groups) /\ NoGroup \notin Groups
                       /\ Separate \in BOOLEAN /\ MaxDebt \in Nat

Chunk == 2      \* copyChunkSize, in half chunks
Full == 2       \* the burst, which is at least a chunk
Ways == {"ul", "dl"}
Items == 1..(Cardinality(Flows) + Cardinality(Groups))   \* cacheItems that can be referred to
NoItem == 0
Level == -MaxDebt..Full

\* The bucket of an item that a direction draws from: dl is ul if not Separate.
Bucket(w) == IF Separate THEN w ELSE "ul"

VARIABLES
    phase,      \* of a call: away, paired
    lapsed,     \* its context has ended, and it has closed both connections
    group,      \* its group
    item,       \* its cacheItem, read-locked
    pump,       \* the goroutine of a direction: off, reserve, wait, copy, sent
    cache,      \* group -> cacheItem
    tokens,     \* the buckets of a cacheItem
    account     \* history: the buckets a group would have if nothing were dropped

calls == <<phase, lapsed, group, item>>
bwVars == <<calls, pump, cache, tokens, account>>

FullPair == [w \in Ways |-> Full]

BWInit == /\ phase = [f \in Flows |-> "away"]
          /\ lapsed = [f \in Flows |-> FALSE]
          /\ group = [f \in Flows |-> NoGroup]
          /\ item = [f \in Flows |-> NoItem]
          /\ pump = [f \in Flows |-> [w \in Ways |-> "off"]]
          /\ cache = [g \in Groups |-> NoItem]
          /\ tokens = [i \in Items |-> FullPair]
          /\ account = [g \in Groups |-> FullPair]

-----------------------------------------------------------------------------
(* getRatelimiters.                                                        *)

Held(i) == \E f \in Flows : item[f] = i

\* A slip: the lock is not tried.
DroppableHeld(i) == \A w \in Ways : tokens[i][Bucket(w)] >= Full

\* The function given to secache.New says that the item is not valid.
Droppable(i) == ~Held(i) /\ \A w \in Ways : tokens[i][Bucket(w)] >= Full

\* Nobody refers to it: there is always such an item.
Unknown(i) == ~Held(i) /\ \A g \in Groups : cache[g] # i

\* A new item for the group, and of up to three others those that can be dropped are.
NewItem(f, g) ==
    \E i \in Items :
       /\ Unknown(i) /\ \A j \in 1..(i - 1) : ~Unknown(j)
       /\ \E sample \in SUBSET (Groups \ {g}) :
            /\ Cardinality(sample) <= 3
            /\ cache' = [h \in Groups |->
                           IF h = g THEN i
                           ELSE IF h \in sample /\ cache[h] # NoItem /\ Droppable(cache[h])
                                THEN NoItem ELSE cache[h]]
       /\ tokens' = [tokens EXCEPT ![i] = FullPair]
       /\ item' = [item EXCEPT ![f] = i]

\* Under the lock of the cache: the group's item, or a new one, and its read lock.
Pair(f) ==
    /\ phase[f] = "away"
    /\ \E g \in Groups :
         /\ group' = [group EXCEPT ![f] = g]
         /\ IF cache[g] # NoItem
            THEN item' = [item EXCEPT ![f] = cache[g]] /\ UNCHANGED <<cache, tokens>>
            ELSE NewItem(f, g)
    /\ phase' = [phase EXCEPT ![f] = "paired"]
    /\ pump' = [pump EXCEPT ![f] = [w \in Ways |-> "reserve"]]
    /\ UNCHANGED <<lapsed, account>>

-----------------------------------------------------------------------------
(* copy, one goroutine per direction.                                      *)

\* What the flow does to its limiter, and so to its group's account.
Update(f, w, op) ==
    /\ tokens' = [tokens EXCEPT ![item[f]][Bucket(w)] = op[@]]
    /\ account' = [account EXCEPT ![group[f]][Bucket(w)] = op[@]]

Capped(n) == IF n > Full THEN Full ELSE n
Floored(n) == IF n < -MaxDebt THEN -MaxDebt ELSE n

\* ReserveN of a chunk, and the delay.
ReserveChunk(f, w) ==
    /\ pump[f][w] = "reserve"
    /\ Update(f, w, [n \in Level |-> Floored(n - Chunk)])
    /\ pump' = [pump EXCEPT ![f][w] =
                   IF tokens[item[f]][Bucket(w)] < Chunk THEN "wait" ELSE "copy"]
    /\ UNCHANGED <<calls, cache>>

\* The wait for the delay, however long, looks at the context; what is reserved is not given back.
AwaitDelay(f, w) ==
    /\ pump[f][w] = "wait"
    /\ \/ pump' = [pump EXCEPT ![f][w] = "copy"]
       \/ lapsed[f] /\ pump' = [pump EXCEPT ![f][w] = "sent"]
    /\ UNCHANGED <<calls, cache, tokens, account>>

\* A whole chunk goes on.  Fewer bytes are the end, or an error: the reservation is
\* given back, as of the time it was made, which may credit time that has passed
\* once more; then what was sent is reserved.
CopyChunk(f, w) ==
    /\ pump[f][w] = "copy"
    /\ \/ /\ ~lapsed[f]
          /\ pump' = [pump EXCEPT ![f][w] = "reserve"]
          /\ UNCHANGED <<tokens, account>>
       \/ \E bytes \in 0..(Chunk - 1), again \in {0, 1} :
            /\ Update(f, w, [n \in Level |-> Floored(Capped(n + Chunk + again) - bytes)])
            /\ pump' = [pump EXCEPT ![f][w] = "sent"]
    /\ UNCHANGED <<calls, cache>>

-----------------------------------------------------------------------------
(* PairConnections, and the world.                                         *)

Forget(f) == /\ item' = [item EXCEPT ![f] = NoItem]
             /\ group' = [group EXCEPT ![f] = NoGroup]
             /\ lapsed' = [lapsed EXCEPT ![f] = FALSE]
             /\ pump' = [pump EXCEPT ![f] = [w \in Ways |-> "off"]]

\* Both directions have reported: PairConnections returns.
Unpair(f) ==
    /\ phase[f] = "paired" /\ \A w \in Ways : pump[f][w] = "sent"
    /\ phase' = [phase EXCEPT ![f] = "away"]
    /\ Forget(f)
    /\ UNCHANGED <<cache, tokens, account>>

\* The end of the context, which the loop over the results selects.
Lapse(f) ==
    /\ phase[f] = "paired" /\ ~lapsed[f]
    /\ lapsed' = [lapsed EXCEPT ![f] = TRUE]
    /\ UNCHANGED <<phase, group, item, pump, cache, tokens, account>>

\* Time passes: half a chunk.
BWTick ==
    /\ LET Filled(pair) == [w \in Ways |-> Capped(pair[w] + 1)] IN
       /\ tokens' = [i \in Items |-> Filled(tokens[i])]
       /\ account' = [g \in Groups |-> Filled(account[g])]
    /\ UNCHANGED <<calls, pump, cache>>

Pump(f, w) == ReserveChunk(f, w) \/ AwaitDelay(f, w) \/ CopyChunk(f, w)

BWNext == \/ \E f \in Flows : \/ Pair(f) \/ Unpair(f) \/ Lapse(f)
                              \/ \E w \in Ways : Pump(f, w)
          \/ BWTick

BWSpec == BWInit /\ [][BWNext]_bwVars

-----------------------------------------------------------------------------

BWTypeOK ==
    /\ phase \in [Flows -> {"away", "paired"}]
    /\ lapsed \in [Flows -> BOOLEAN]
    /\ group \in [Flows -> Groups \cup {NoGroup}]
    /\ item \in [Flows -> Items \cup {NoItem}]
    /\ \A f \in Flows : item[f] # NoItem <=> phase[f] = "paired"
    /\ pump \in [Flows -> [Ways -> {"off", "reserve", "wait", "copy", "sent"}]]
    /\ cache \in [Groups -> Items \cup {NoItem}]
    /\ tokens \in [Items -> [Ways -> Level]]
    /\ account \in [Groups -> [Ways -> Level]]

\* bwlimit.go:187-218: two streams of a group that are up at the same time draw from the
\* same buckets, whatever other groups came and went.
OneItemPerGroup ==
    \A f, h \in Flows : (phase[f] = "paired" /\ phase[h] = "paired" /\ group[f] = group[h])
                            => item[f] = item[h]

\* bwlimit.go:113-126: to drop a limiter is to forget nothing.  A group's buckets are
\* what they would be if every limiter were kept for ever.
DropsForgetNothing ==
    \A g \in Groups : \A w \in Ways :
        account[g][Bucket(w)] = IF cache[g] = NoItem THEN Full ELSE tokens[cache[g]][Bucket(w)]
=============================================================================

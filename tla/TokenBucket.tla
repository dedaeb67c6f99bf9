---------------------------- MODULE TokenBucket ----------------------------
(***************************************************************************)
(* The arithmetic of pkg/dumbproxy/rate: a bucket of Burst tokens that is  *)
(* refilled as time passes.  Tokens are counted in credits, the time that  *)
(* one of them takes to come: a token is Unit credits and a tick brings    *)
(* Refill credits, so the limit is Refill/Unit tokens per tick and every   *)
(* conversion between tokens and durations is exact, as the code's floats  *)
(* are meant to be.  Times are int64 nanoseconds in the code and wrap      *)
(* around at MaxInt here.                                                  *)
(***************************************************************************)
EXTENDS Integers

CONSTANTS
    Unit,       \* credits per token
    Refill,     \* credits per tick: 1, or 0 for the limit zero
    Burst,      \* size of the bucket, in tokens
    MaxInt      \* largest int64

ASSUME BucketAssumption == /\ Unit \in Nat \ {0}
                           /\ Refill \in {0, 1}
                           /\ Burst \in Nat
                           /\ MaxInt \in Nat

\* time.Duration's maximum: "never" for the code.
InfDuration == MaxInt

Least(a, b) == IF a <= b THEN a ELSE b

\* The int64 that UnixNano makes of a time up to twice its range.
Wrap(x) == IF x > MaxInt THEN x - 2 * (MaxInt + 1) ELSE x

\* The limiter's fields that change.
Limiter == [tokens : Int, last : Int, lastEvent : Int]

NewLimiter == [tokens |-> Burst * Unit, last |-> 0, lastEvent |-> 0]

\* Credits at time t.  A t from before the last update counts as no time.
Advance(lim, t) ==
    Least(Burst * Unit,
          lim.tokens + Refill * (IF t < lim.last THEN 0 ELSE t - lim.last))

\* How long until a bucket with so many credits is back at zero.
DurationFromTokens(credits) ==
    IF Refill = 0 THEN InfDuration ELSE Least(credits, InfDuration)

\* Taking n tokens at time t: whether it is allowed, when it may happen, and
\* the limiter afterwards.
ReserveN(lim, t, n, maxFutureReserve) ==
    LET left == Advance(lim, t) - n * Unit
        wait == IF left < 0 THEN DurationFromTokens(-left) ELSE 0
        ok   == n <= Burst /\ wait <= maxFutureReserve
        act  == Wrap(t + wait)
    IN  [ok |-> ok,
         timeToAct |-> act,
         lim |-> IF ok THEN [tokens |-> left, last |-> t, lastEvent |-> act]
                 ELSE lim]

\* A slip: all tokens are given back, those that later reservations have
\* already been promised as well.
RestoreAll(lim, r) == r.n * Unit

\* What a cancelled reservation gives back: not what was reserved after it.
Restore(lim, r) == r.n * Unit - Refill * (lim.lastEvent - r.timeToAct)

\* The event before a reservation, if that was the last one.
PrevEvent(r) ==
    IF Refill = 0 THEN r.timeToAct + InfDuration ELSE r.timeToAct - r.n * Unit

\* Cancelling reservation r at time t: nothing once its time has passed.
CancelAt(lim, r, t) ==
    IF r.n = 0 \/ r.timeToAct < t \/ Restore(lim, r) <= 0 THEN lim
    ELSE [tokens |-> Least(Burst * Unit, Advance(lim, t) + Restore(lim, r)),
          last |-> t,
          lastEvent |-> IF r.timeToAct = lim.lastEvent /\ PrevEvent(r) >= t
                        THEN Wrap(PrevEvent(r)) ELSE lim.lastEvent]
=============================================================================

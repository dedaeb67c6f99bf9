------------------------- MODULE RateLimiterProofs -------------------------
(***************************************************************************)
(* A limiter with one caller keeps its budget, cancellations included, for *)
(* every limit, burst and clock that stays within an int64.  With two      *)
(* callers it does not: see the runs stale_time and cancel_order.          *)
(***************************************************************************)
EXTENDS RateLimiter, TLAPS

\* What the caller still holds.
Held(p) == IF res[p] = None THEN 0 ELSE res[p].n

\* Nothing was taken yet: the limiter was never updated.
Untouched(p) == lim = NewLimiter /\ used = 0 /\ res[p] = None

Times(p) == /\ Start <= clock /\ clock <= MaxClock
            /\ time[p] <= clock
            /\ lim.last <= clock
            /\ pc[p] \in {"called", "cancelling"} => lim.last <= time[p]
            /\ pc[p] \in {"called", "cancelling"} => Start <= time[p]

\* What was used, what is held and what is in the bucket: the books balance.
Books(p) == Unit * used + Unit * Held(p) + lim.tokens
                <= Unit * Burst + (lim.last - Start)

\* A caller without a reservation finds no debt, one with a reservation has
\* made what debt there is and waits for it.
Debts(p) ==
    /\ pc[p] = "idle" => lim.tokens + (clock - lim.last) >= 0
    /\ pc[p] = "called" => lim.tokens + (time[p] - lim.last) >= 0
    /\ res[p] # None =>
          /\ lim.tokens + Unit * res[p].n >= 0
          /\ lim.lastEvent = res[p].timeToAct
          /\ res[p].timeToAct >= lim.last
          /\ res[p].timeToAct >= lim.last - lim.tokens

SoleInv(p) == /\ TypeOK
              /\ Times(p)
              /\ Debts(p)
              /\ Untouched(p) \/ (lim.last >= Start /\ Books(p))

-----------------------------------------------------------------------------
(* The bucket.                                                             *)

LEMMA CapacityIsNat == Burst * Unit \in Nat /\ Burst * Unit = Unit * Burst
BY BucketAssumption

LEMMA TimesUnit ==
    ASSUME NEW a \in Nat, NEW b \in Nat
    PROVE  /\ Unit * a \in Nat
           /\ Unit * (a + b) = Unit * a + Unit * b
           /\ a * Unit = Unit * a
           /\ a <= b => Unit * a <= Unit * b
BY BucketAssumption

\* The bucket at a later time: no more than what has come since, never over the
\* brim, never less than before.
LEMMA Advances ==
    ASSUME Refill = 1, NEW l \in Limiter, l.tokens <= Burst * Unit,
           NEW t \in Nat, l.last <= t
    PROVE  /\ Advance(l, t) \in Int
           /\ Advance(l, t) <= Burst * Unit
           /\ Advance(l, t) <= l.tokens + (t - l.last)
           /\ Advance(l, t) >= l.tokens
           /\ l.tokens + (t - l.last) >= 0 => Advance(l, t) >= 0
<1>1. l.tokens \in Int /\ l.last \in Int
  BY DEF Limiter
<1>2. Advance(l, t) = Least(Burst * Unit, l.tokens + (t - l.last))
  BY <1>1 DEF Advance
<1> QED
  BY <1>1, <1>2, CapacityIsNat DEF Least

\* A reservation granted to a caller who found no debt.
LEMMA Reserves ==
    ASSUME Refill = 1, NEW l \in Limiter, l.tokens <= Burst * Unit,
           NEW t \in Nat, NEW n \in Nat, NEW m \in Nat,
           l.last <= t, l.tokens + (t - l.last) >= 0,
           t + Burst * Unit <= MaxInt,
           ReserveN(l, t, n, m).ok
    PROVE  LET new == ReserveN(l, t, n, m).lim
               act == ReserveN(l, t, n, m).timeToAct
           IN  /\ new \in Limiter
               /\ new.tokens <= Burst * Unit
               /\ new.tokens + Unit * n >= 0
               /\ new.tokens + Unit * n <= l.tokens + (t - l.last)
               /\ new.tokens + Unit * n <= Burst * Unit
               /\ new.last = t
               /\ new.lastEvent = act
               /\ act \in Int /\ act >= t /\ act >= t - new.tokens
<1> DEFINE left == Advance(l, t) - n * Unit
           delay == IF left < 0 THEN DurationFromTokens(-left) ELSE 0
           act == Wrap(t + delay)
<1>1. /\ Advance(l, t) \in Int
      /\ Advance(l, t) <= Burst * Unit
      /\ Advance(l, t) <= l.tokens + (t - l.last)
      /\ Advance(l, t) >= 0
  BY Advances
<1>2. /\ Unit * n \in Nat /\ n * Unit = Unit * n
  BY TimesUnit
<1>3. left \in Int /\ left = Advance(l, t) - Unit * n
  BY <1>1, <1>2
<1>4. n <= Burst
  BY DEF ReserveN
<1>5. Unit * n <= Burst * Unit
  BY <1>4, TimesUnit, CapacityIsNat, BucketAssumption
<1>6. /\ delay \in Int /\ delay >= 0 /\ delay >= -left
      /\ delay <= Burst * Unit
  <2>1. -left <= Burst * Unit
    BY <1>1, <1>2, <1>3, <1>5, CapacityIsNat
  <2>2. MaxInt \in Nat /\ MaxInt >= -left
    BY <2>1, <1>3, CapacityIsNat, BucketAssumption
  <2>3. CASE left < 0
    <3>1. delay = -left
      BY <2>2, <2>3, <1>3 DEF DurationFromTokens, Least, InfDuration
    <3> QED BY <3>1, <2>1, <2>3, <1>3
  <2>4. CASE ~(left < 0)
    <3>1. delay = 0
      BY <2>4
    <3> QED BY <3>1, <2>4, <1>3, CapacityIsNat
  <2> QED BY <2>3, <2>4
<1>7. act = t + delay
  <2>1. t + delay \in Int /\ t + delay <= MaxInt
    BY <1>6, CapacityIsNat, BucketAssumption
  <2> HIDE DEF delay
  <2> QED BY <2>1, BucketAssumption DEF Wrap
<1>8. /\ ReserveN(l, t, n, m).timeToAct = act
      /\ ReserveN(l, t, n, m).lim = [tokens |-> left, last |-> t, lastEvent |-> act]
  BY DEF ReserveN
<1> HIDE DEF left, delay, act
<1>9. act \in Int /\ act >= t /\ act >= t - left
  BY <1>6, <1>7, <1>3
<1> QED
  BY <1>1, <1>2, <1>3, <1>8, <1>9, CapacityIsNat DEF Limiter

\* A refusal changes nothing.
LEMMA Refuses ==
    ASSUME NEW l, NEW t, NEW n, NEW m, ~ReserveN(l, t, n, m).ok
    PROVE  ReserveN(l, t, n, m).lim = l
BY DEF ReserveN

\* Cancelling the only reservation there is: either its time has come, or it
\* asked for nothing, and nothing changes; or its tokens are back.
LEMMA CancelsSole ==
    ASSUME Refill = 1, NEW l \in Limiter, l.tokens <= Burst * Unit,
           NEW r \in Reservation, NEW t \in Nat, l.last <= t,
           l.lastEvent = r.timeToAct,
           l.tokens + Unit * r.n >= 0
    PROVE  \/ /\ CancelAt(l, r, t) = l
              /\ r.timeToAct < t \/ r.n = 0
           \/ /\ CancelAt(l, r, t) \in Limiter
              /\ CancelAt(l, r, t).last = t
              /\ CancelAt(l, r, t).tokens <= Burst * Unit
              /\ CancelAt(l, r, t).tokens <= l.tokens + (t - l.last) + Unit * r.n
              /\ CancelAt(l, r, t).tokens >= 0
<1>1. r.n \in Nat /\ r.timeToAct \in Int
  BY DEF Reservation
<1>2. Unit * r.n \in Nat /\ r.n * Unit = Unit * r.n
  BY <1>1, TimesUnit
<1>3. r.n # 0 => Unit * r.n > 0
  BY <1>1, BucketAssumption
<1>4. Restore(l, r) = Unit * r.n
  BY <1>1, <1>2 DEF Restore, Limiter
<1>5. CASE r.n = 0 \/ r.timeToAct < t
  BY <1>5 DEF CancelAt
<1>6. CASE ~(r.n = 0 \/ r.timeToAct < t)
  <2> DEFINE back == Least(Burst * Unit, Advance(l, t) + Unit * r.n)
             event == IF r.timeToAct = l.lastEvent /\ PrevEvent(r) >= t
                      THEN Wrap(PrevEvent(r)) ELSE l.lastEvent
  <2>1. ~(Restore(l, r) <= 0)
    BY <1>2, <1>3, <1>4, <1>6
  <2>2. CancelAt(l, r, t) = [tokens |-> back, last |-> t, lastEvent |-> event]
    BY <1>4, <1>6, <2>1 DEF CancelAt
  <2>3. /\ Advance(l, t) \in Int
        /\ Advance(l, t) <= l.tokens + (t - l.last)
        /\ Advance(l, t) >= l.tokens
    BY Advances
  <2>4. l.tokens \in Int /\ l.last \in Int /\ l.lastEvent \in Int
    BY DEF Limiter
  <2>5. /\ back \in Int /\ back <= Burst * Unit /\ back >= 0
        /\ back <= l.tokens + (t - l.last) + Unit * r.n
    BY <1>2, <2>3, <2>4, CapacityIsNat DEF Least
  <2>6. event \in Int
    BY <1>1, <1>2, <2>4, BucketAssumption DEF PrevEvent, Wrap
  <2> HIDE DEF back, event
  <2> QED BY <2>2, <2>4, <2>5, <2>6 DEF Limiter
<1> QED BY <1>5, <1>6

-----------------------------------------------------------------------------
(* One caller.                                                             *)

\* The instances the theorem is about: one goroutine, a limit above zero, and
\* times that stay within an int64.
Sole(p) == /\ Procs = {p}
           /\ Refill = 1
           /\ Start <= MaxClock
           /\ MaxClock + Burst * Unit <= MaxInt

LEMMA SoleInit == ASSUME NEW p, Sole(p), Init PROVE SoleInv(p)
<1>1. lim = NewLimiter /\ res[p] = None /\ pc[p] = "idle" /\ time[p] = Start
  BY DEF Init, Sole
<1>2. NewLimiter \in Limiter /\ NewLimiter.tokens = Burst * Unit /\ NewLimiter.last = 0
  BY CapacityIsNat DEF NewLimiter, Limiter
<1>3. TypeOK
  <2>1. LimOK
    BY <1>1, <1>2, CapacityIsNat DEF LimOK
  <2>2. CallersOK
    BY CallersAssumption DEF Init, CallersOK
  <2> QED BY <2>1, <2>2, CallersAssumption DEF TypeOK, Init
<1>4. Times(p)
  BY <1>1, <1>2, CallersAssumption DEF Times, Sole, Init
<1>5. Debts(p)
  BY <1>1, <1>2, CapacityIsNat, CallersAssumption DEF Debts, Init
<1> QED BY <1>1, <1>3, <1>4, <1>5 DEF SoleInv, Untouched, Init

\* What SoleInv says, in the terms the lemmas on the bucket speak of.
LEMMA SoleFacts ==
    ASSUME NEW p, Sole(p), SoleInv(p)
    PROVE  /\ clock \in Nat /\ used \in Nat /\ time[p] \in Nat /\ count[p] \in Nat
           /\ wait[p] \in Nat /\ Start \in Nat /\ MaxClock \in Nat
           /\ lim \in Limiter /\ lim.tokens \in Int /\ lim.last \in Int
           /\ lim.tokens <= Burst * Unit /\ lim.last <= clock
           /\ Unit * used \in Nat
           /\ res[p] # None => /\ res[p] \in Reservation
                               /\ res[p].n \in Nat /\ res[p].timeToAct \in Int
                               /\ Unit * res[p].n \in Nat
                               /\ Books(p) /\ Held(p) = res[p].n /\ lim.last >= Start
           /\ pc[p] \in {"idle", "called", "waiting", "cancelling"}
           /\ res[p] = None <=> pc[p] \in {"idle", "called"}
<1>1. p \in Procs
  BY DEF Sole
<1>2. res[p] # None => res[p] \in Reservation
  BY <1>1 DEF SoleInv, TypeOK, CallersOK
<1>3. /\ clock \in Nat /\ used \in Nat /\ time[p] \in Nat /\ count[p] \in Nat
      /\ wait[p] \in Nat /\ pc[p] \in {"idle", "called", "waiting", "cancelling"}
      /\ res[p] = None <=> pc[p] \in {"idle", "called"}
  BY <1>1 DEF SoleInv, TypeOK, CallersOK
<1>4. lim \in Limiter /\ lim.tokens <= Burst * Unit /\ lim.last <= clock
  BY DEF SoleInv, TypeOK, LimOK, Times
<1>5. lim.tokens \in Int /\ lim.last \in Int
  BY <1>4 DEF Limiter
<1>6. res[p] # None => /\ res[p].n \in Nat /\ res[p].timeToAct \in Int
                       /\ Held(p) = res[p].n
  BY <1>2 DEF Reservation, Held
<1>7. res[p] # None => Books(p) /\ lim.last >= Start
  BY DEF SoleInv, Untouched
<1>8. Unit * used \in Nat /\ (res[p] # None => Unit * res[p].n \in Nat)
  BY <1>3, <1>6, TimesUnit
<1> QED BY <1>2, <1>3, <1>4, <1>5, <1>6, <1>7, <1>8, CallersAssumption

LEMMA SoleCall ==
    ASSUME NEW p, Sole(p), SoleInv(p), Call(p) PROVE SoleInv(p)'
<1>1. p \in Procs /\ \A q \in Procs : q = p
  BY DEF Sole
<1>2. /\ pc[p] = "idle" /\ pc'[p] = "called" /\ time'[p] = clock
      /\ UNCHANGED <<clock, lim, res, used>>
  BY <1>1 DEF Call, SoleInv, TypeOK, CallersOK
<1>3. res[p] = None
  BY <1>2, SoleFacts
<1>4. TypeOK'
  <2>1. time' \in [Procs -> Nat] /\ count' \in [Procs -> Nat] /\ wait' \in [Procs -> Nat]
    BY CallersAssumption DEF Call, SoleInv, TypeOK, CallersOK
  <2>2. pc' \in [Procs -> {"idle", "called", "waiting", "cancelling"}]
    BY DEF Call, SoleInv, TypeOK, CallersOK
  <2>3. CallersOK'
    BY <1>1, <1>2, <1>3, <2>1, <2>2 DEF CallersOK, SoleInv, TypeOK
  <2> QED BY <1>2, <2>3 DEF TypeOK, LimOK, SoleInv
<1>5. Times(p)'
  BY <1>2, SoleFacts DEF Times, SoleInv
<1>6. Debts(p)'
  BY <1>2, <1>3 DEF Debts, SoleInv
<1>7. (Untouched(p) \/ (lim.last >= Start /\ Books(p)))'
  BY <1>2 DEF SoleInv, Untouched, Books, Held
<1> QED BY <1>4, <1>5, <1>6, <1>7 DEF SoleInv

LEMMA SoleReserve ==
    ASSUME NEW p, Sole(p), SoleInv(p), Reserve(p) PROVE SoleInv(p)'
<1> DEFINE r == ReserveN(lim, time[p], count[p], wait[p])
<1>1. p \in Procs /\ \A q \in Procs : q = p
  BY DEF Sole
<1>2. pc[p] = "called" /\ UNCHANGED <<clock, time, count, wait, used>> /\ lim' = r.lim
  BY DEF Reserve
<1>3. /\ lim.last <= time[p] /\ Start <= time[p] /\ time[p] <= clock /\ clock <= MaxClock
      /\ lim.tokens + (time[p] - lim.last) >= 0
      /\ res[p] = None
  BY <1>2, SoleFacts DEF SoleInv, Times, Debts
<1>4. CASE ~r.ok
  <2>1. lim' = lim /\ res' = res /\ pc'[p] = "idle" /\ pc' = [pc EXCEPT ![p] = "idle"]
    BY <1>1, <1>2, <1>4, Refuses DEF Reserve, SoleInv, TypeOK, CallersOK
  <2>2. TypeOK'
    BY <1>1, <1>2, <1>3, <2>1 DEF SoleInv, TypeOK, CallersOK, LimOK
  <2>3. Times(p)'
    BY <1>2, <2>1 DEF SoleInv, Times
  <2>4. lim.tokens + (clock - lim.last) >= 0
    BY <1>3, SoleFacts
  <2>5. Debts(p)'
    BY <1>2, <1>3, <2>1, <2>4 DEF Debts
  <2> QED BY <1>2, <2>1, <2>2, <2>3, <2>5 DEF SoleInv, Untouched, Books, Held
<1>5. CASE r.ok
  <2> DEFINE new == [n |-> count[p], timeToAct |-> r.timeToAct]
  <2>1. /\ pc' = [pc EXCEPT ![p] = "waiting"] /\ pc'[p] = "waiting"
        /\ res' = [res EXCEPT ![p] = new] /\ res'[p] = new
    BY <1>1, <1>5 DEF Reserve, SoleInv, TypeOK, CallersOK
  <2>2. time[p] + Burst * Unit <= MaxInt
    BY <1>3, SoleFacts, CapacityIsNat, BucketAssumption DEF Sole
  <2>3. /\ r.lim \in Limiter
        /\ r.lim.tokens <= Burst * Unit
        /\ r.lim.tokens + Unit * count[p] >= 0
        /\ r.lim.tokens + Unit * count[p] <= lim.tokens + (time[p] - lim.last)
        /\ r.lim.tokens + Unit * count[p] <= Burst * Unit
        /\ r.lim.last = time[p]
        /\ r.lim.lastEvent = r.timeToAct
        /\ r.timeToAct \in Int /\ r.timeToAct >= time[p]
        /\ r.timeToAct >= time[p] - r.lim.tokens
    BY <1>3, <1>5, <2>2, SoleFacts, Reserves DEF Sole
  <2> HIDE DEF r
  <2>4. new \in Reservation /\ new # None
    BY <2>3, SoleFacts, CallersAssumption DEF Reservation
  <2>5. TypeOK'
    <3>1. CallersOK'
      BY <1>1, <1>2, <2>1, <2>4 DEF SoleInv, TypeOK, CallersOK
    <3> QED BY <1>2, <2>3, <3>1 DEF SoleInv, TypeOK, LimOK
  <2>6. Times(p)'
    BY <1>2, <1>3, <2>1, <2>3 DEF SoleInv, Times
  <2>7. Debts(p)'
    BY <1>2, <2>1, <2>3, SoleFacts DEF Debts
  <2>8. lim'.tokens \in Int /\ Unit * count[p] \in Nat
    BY <1>2, <2>3, SoleFacts, TimesUnit DEF Limiter
  <2>9. Held(p)' = count[p]
    BY <2>1, <2>4 DEF Held
  <2>10. CASE Untouched(p)
    <3>1. used = 0 /\ Unit * used = 0
      BY <2>10, BucketAssumption DEF Untouched
    <3>2. Books(p)'
      BY <1>2, <1>3, <2>3, <2>8, <2>9, <3>1, SoleFacts, CapacityIsNat DEF Books
    <3> QED BY <1>2, <1>3, <2>3, <2>5, <2>6, <2>7, <3>2 DEF SoleInv
  <2>11. CASE Books(p) /\ lim.last >= Start
    <3>1. Held(p) = 0 /\ Unit * 0 = 0
      BY <1>3, BucketAssumption DEF Held
    <3>2. Unit * used + lim.tokens <= Unit * Burst + (lim.last - Start)
      BY <2>11, <3>1, SoleFacts DEF Books
    <3>3. Books(p)'
      BY <1>2, <1>3, <2>3, <2>8, <2>9, <3>2, SoleFacts, CapacityIsNat DEF Books
    <3> QED BY <1>2, <1>3, <2>3, <2>5, <2>6, <2>7, <3>3 DEF SoleInv
  <2> QED BY <2>10, <2>11 DEF SoleInv
<1> QED BY <1>4, <1>5

\* The caller gives its reservation up, used or not.
LEMMA SoleReleases ==
    ASSUME NEW p, Sole(p), SoleInv(p), res[p] # None,
           res' = [res EXCEPT ![p] = None], pc' = [pc EXCEPT ![p] = "idle"],
           UNCHANGED <<clock, time, count, wait>>,
           lim' \in Limiter, lim'.tokens <= Burst * Unit, lim'.last <= clock,
           used' \in Nat
    PROVE  /\ TypeOK' /\ Times(p)' /\ res'[p] = None /\ pc'[p] = "idle"
           /\ Held(p)' = 0
<1>1. p \in Procs /\ \A q \in Procs : q = p
  BY DEF Sole
<1>2. res'[p] = None /\ pc'[p] = "idle"
  BY <1>1 DEF SoleInv, TypeOK, CallersOK
<1>3. CallersOK'
  BY <1>1, <1>2 DEF SoleInv, TypeOK, CallersOK
<1>4. TypeOK'
  BY <1>3 DEF SoleInv, TypeOK, LimOK
<1>5. Times(p)'
  BY <1>2 DEF SoleInv, Times
<1> QED BY <1>2, <1>4, <1>5 DEF Held

LEMMA SoleGo ==
    ASSUME NEW p, Sole(p), SoleInv(p), Go(p) PROVE SoleInv(p)'
<1>1. /\ pc[p] = "waiting" /\ clock >= res[p].timeToAct
      /\ used' = used + res[p].n
      /\ res' = [res EXCEPT ![p] = None] /\ pc' = [pc EXCEPT ![p] = "idle"]
      /\ UNCHANGED <<clock, lim, time, count, wait>>
  BY DEF Go
<1>2. res[p] # None
  BY <1>1, SoleFacts
<1>3. used' \in Nat /\ Unit * used' = Unit * used + Unit * res[p].n
  <2>1. used \in Nat /\ res[p].n \in Nat
    BY <1>2, SoleFacts
  <2>2. Unit * (used + res[p].n) = Unit * used + Unit * res[p].n
    BY <2>1, TimesUnit
  <2> QED BY <1>1, <2>1, <2>2
<1>4. TypeOK' /\ Times(p)' /\ res'[p] = None /\ pc'[p] = "idle" /\ Held(p)' = 0
  BY <1>1, <1>2, <1>3, SoleFacts, SoleReleases
<1>5. clock >= lim.last - lim.tokens
  BY <1>1, <1>2, SoleFacts DEF SoleInv, Debts
<1>6. Debts(p)'
  BY <1>1, <1>4, <1>5, SoleFacts DEF Debts
<1>7. Unit * used + Unit * res[p].n + lim.tokens <= Unit * Burst + (lim.last - Start)
  BY <1>2, SoleFacts DEF Books
<1>8. Unit * 0 = 0
  BY BucketAssumption
<1>9. Books(p)'
  BY <1>1, <1>2, <1>3, <1>4, <1>7, <1>8, SoleFacts, CapacityIsNat DEF Books
<1> QED BY <1>1, <1>2, <1>4, <1>6, <1>9, SoleFacts DEF SoleInv

LEMMA SoleGiveUp ==
    ASSUME NEW p, Sole(p), SoleInv(p), GiveUp(p) PROVE SoleInv(p)'
<1>1. p \in Procs /\ \A q \in Procs : q = p
  BY DEF Sole
<1>2. /\ pc[p] = "waiting" /\ pc'[p] = "cancelling" /\ time'[p] = clock
      /\ UNCHANGED <<clock, lim, count, wait, res, used>>
  BY <1>1 DEF GiveUp, SoleInv, TypeOK, CallersOK
<1>3. res[p] # None
  BY <1>2, SoleFacts
<1>4. TypeOK'
  <2>1. /\ time' \in [Procs -> Nat]
        /\ pc' \in [Procs -> {"idle", "called", "waiting", "cancelling"}]
    BY DEF GiveUp, SoleInv, TypeOK, CallersOK
  <2>2. CallersOK'
    BY <1>1, <1>2, <1>3, <2>1 DEF CallersOK, SoleInv, TypeOK
  <2> QED BY <1>2, <2>2 DEF TypeOK, LimOK, SoleInv
<1>5. Times(p)'
  BY <1>2, <1>3, SoleFacts DEF Times, SoleInv
<1>6. Debts(p)'
  BY <1>2 DEF Debts, SoleInv
<1>7. (lim.last >= Start /\ Books(p))'
  BY <1>2, <1>3, SoleFacts DEF Books, Held
<1> QED BY <1>4, <1>5, <1>6, <1>7 DEF SoleInv

LEMMA SoleCancel ==
    ASSUME NEW p, Sole(p), SoleInv(p), Cancel(p) PROVE SoleInv(p)'
<1>1. /\ pc[p] = "cancelling" /\ lim' = CancelAt(lim, res[p], time[p])
      /\ res' = [res EXCEPT ![p] = None] /\ pc' = [pc EXCEPT ![p] = "idle"]
      /\ UNCHANGED <<clock, time, count, wait, used>>
  BY DEF Cancel
<1>2. /\ res[p] # None /\ lim.last <= time[p] /\ Start <= time[p] /\ time[p] <= clock
  BY <1>1, SoleFacts DEF SoleInv, Times
<1>3. /\ lim.tokens + Unit * res[p].n >= 0 /\ lim.lastEvent = res[p].timeToAct
      /\ res[p].timeToAct >= lim.last - lim.tokens
  BY <1>2 DEF SoleInv, Debts
<1>4. Unit * used + Unit * res[p].n + lim.tokens <= Unit * Burst + (lim.last - Start)
  BY <1>2, SoleFacts DEF Books
<1>5. Unit * 0 = 0
  BY BucketAssumption
<1>6. CASE /\ lim' = lim
           /\ res[p].timeToAct < time[p] \/ res[p].n = 0
  <2>1. TypeOK' /\ Times(p)' /\ res'[p] = None /\ pc'[p] = "idle" /\ Held(p)' = 0
    BY <1>1, <1>2, <1>6, SoleFacts, SoleReleases
  <2>2. lim.tokens + (clock - lim.last) >= 0
    <3>1. CASE res[p].timeToAct < time[p]
      BY <3>1, <1>2, <1>3, SoleFacts
    <3>2. CASE res[p].n = 0
      BY <3>2, <1>2, <1>3, <1>5, SoleFacts
    <3> QED BY <1>6, <3>1, <3>2
  <2>3. Debts(p)'
    BY <1>1, <1>6, <2>1, <2>2 DEF Debts
  <2>4. Books(p)'
    BY <1>1, <1>2, <1>4, <1>5, <1>6, <2>1, SoleFacts, CapacityIsNat DEF Books
  <2> QED BY <1>2, <1>6, <2>1, <2>3, <2>4, SoleFacts DEF SoleInv
<1>7. CASE /\ lim' \in Limiter
           /\ lim'.last = time[p]
           /\ lim'.tokens <= Burst * Unit
           /\ lim'.tokens <= lim.tokens + (time[p] - lim.last) + Unit * res[p].n
           /\ lim'.tokens >= 0
  <2>1. TypeOK' /\ Times(p)' /\ res'[p] = None /\ pc'[p] = "idle" /\ Held(p)' = 0
    BY <1>1, <1>2, <1>7, SoleFacts, SoleReleases
  <2>2. lim'.tokens \in Int
    BY <1>7 DEF Limiter
  <2>3. Debts(p)'
    BY <1>1, <1>2, <1>7, <2>1, <2>2, SoleFacts DEF Debts
  <2>4. Books(p)'
    BY <1>1, <1>2, <1>4, <1>5, <1>7, <2>1, <2>2, SoleFacts, CapacityIsNat DEF Books
  <2> QED BY <1>2, <1>7, <2>1, <2>3, <2>4, SoleFacts DEF SoleInv
<1> QED BY <1>1, <1>2, <1>3, <1>6, <1>7, SoleFacts, CancelsSole DEF Sole

LEMMA SoleTick ==
    ASSUME NEW p, Sole(p), SoleInv(p), Tick PROVE SoleInv(p)'
<1>1. /\ clock' = clock + 1 /\ clock < MaxClock
      /\ UNCHANGED <<lim, pc, time, count, wait, res, used>>
  BY DEF Tick
<1>2. TypeOK'
  BY <1>1 DEF SoleInv, TypeOK, LimOK, CallersOK
<1>3. Times(p)'
  BY <1>1, SoleFacts DEF SoleInv, Times
<1>4. Debts(p)'
  BY <1>1, SoleFacts DEF SoleInv, Debts
<1> QED BY <1>1, <1>2, <1>3, <1>4 DEF SoleInv, Untouched, Books, Held

\* The debt there is was made by what the caller holds, or time has paid it: what
\* was used is within the budget.
LEMMA SoleImpliesBudget == ASSUME NEW p, Sole(p), SoleInv(p) PROVE Budget
<1>1. Refill * (clock - Start) = clock - Start
  BY SoleFacts DEF Sole
<1>2. CASE Untouched(p)
  BY <1>1, <1>2, SoleFacts, CapacityIsNat, BucketAssumption
     DEF Budget, Untouched, SoleInv, Times
<1>3. CASE Books(p)
  <2>1. CASE res[p] = None
    <3>1. Held(p) = 0 /\ Unit * 0 = 0
      BY <2>1, BucketAssumption DEF Held
    <3>2. lim.tokens + (clock - lim.last) >= 0
      BY <2>1, SoleFacts DEF SoleInv, Debts, Times
    <3>3. Unit * used + lim.tokens <= Unit * Burst + (lim.last - Start)
      BY <1>3, <3>1, SoleFacts DEF Books
    <3> QED BY <1>1, <3>2, <3>3, SoleFacts, CapacityIsNat DEF Budget
  <2>2. CASE res[p] # None
    BY <1>1, <1>3, <2>2, SoleFacts, CapacityIsNat DEF Budget, Books, SoleInv, Debts
  <2> QED BY <2>1, <2>2
<1> QED BY <1>2, <1>3 DEF SoleInv

\* rate.go:34-36 for a limiter that one goroutine uses: whatever it asks for, waits
\* for and cancels, what it has used is at most a full bucket and what the time has
\* brought, and the bucket never holds more than Burst.
THEOREM SoleCallerKeepsBudget ==
    ASSUME NEW p, Sole(p)
    PROVE  Spec => [](TypeOK /\ Budget)
<1>1. Init => SoleInv(p)
  BY SoleInit
<1>2. SoleInv(p) /\ [Next]_vars => SoleInv(p)'
  <2> SUFFICES ASSUME SoleInv(p), [Next]_vars PROVE SoleInv(p)'
    OBVIOUS
  <2>1. CASE UNCHANGED vars
    BY <2>1 DEF vars, SoleInv, TypeOK, LimOK, CallersOK, Times, Debts, Untouched,
                Books, Held
  <2>2. CASE Tick
    BY <2>2, SoleTick
  <2>3. CASE Call(p) \/ Reserve(p) \/ Go(p) \/ GiveUp(p) \/ Cancel(p)
    BY <2>3, SoleCall, SoleReserve, SoleGo, SoleGiveUp, SoleCancel
  <2> QED BY <2>1, <2>2, <2>3 DEF Next, Sole
<1>3. SoleInv(p) => TypeOK /\ Budget
  BY SoleImpliesBudget DEF SoleInv
<1> QED BY <1>1, <1>2, <1>3, PTL DEF Spec
=============================================================================

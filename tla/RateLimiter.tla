---------------------------- MODULE RateLimiter ----------------------------
(***************************************************************************)
(* Goroutines that share a rate.Limiter (pkg/dumbproxy/rate/rate.go): each *)
(* reads the clock, waits for the limiter's mutex, reserves tokens, and    *)
(* goes on at its time unless it cancels before.  The limiter believes the *)
(* time it is given, which is older than the moment it gets it.            *)
(***************************************************************************)
EXTENDS TokenBucket

CONSTANTS
    Procs,      \* goroutines
    Counts,     \* numbers of tokens they ask for
    MaxWaits,   \* maxFutureReserve: 0 is AllowN, InfDuration ReserveN
    Cancels,    \* whether they cancel
    Start,      \* the clock when the limiter was made
    MaxClock,   \* bound on the clock
    MaxUsed,    \* bound on the tokens used, for new calls
    None        \* no call, no reservation

Reservation == [n : Nat, timeToAct : Int]

ASSUME CallersAssumption == /\ Counts \subseteq Nat
                            /\ MaxWaits \subseteq Nat
                            /\ Cancels \in BOOLEAN
                            /\ Start \in Nat
                            /\ MaxClock \in Nat
                            /\ MaxUsed \in Nat
                            /\ None \notin Reservation

VARIABLES
    clock,
    lim,        \* the limiter
    pc,         \* of each goroutine: idle, called, waiting, cancelling
    time,       \* the time it has read
    count,      \* what it asks for
    wait,       \* how long it would wait
    res,        \* its reservation, or None
    used        \* history: tokens whose time came

vars == <<clock, lim, pc, time, count, wait, res, used>>

Init == /\ clock = Start
        /\ lim = NewLimiter
        /\ pc = [p \in Procs |-> "idle"]
        /\ time = [p \in Procs |-> Start]
        /\ count = [p \in Procs |-> 0]
        /\ wait = [p \in Procs |-> 0]
        /\ res = [p \in Procs |-> None]
        /\ used = 0

\* time.Now(), then lim.mu.Lock().
Call(p) ==
    /\ pc[p] = "idle"
    /\ used <= MaxUsed
    /\ time' = [time EXCEPT ![p] = clock]
    /\ \E n \in Counts : count' = [count EXCEPT ![p] = n]
    /\ \E m \in MaxWaits : wait' = [wait EXCEPT ![p] = m]
    /\ pc' = [pc EXCEPT ![p] = "called"]
    /\ UNCHANGED <<clock, lim, res, used>>

\* reserveN, under the mutex.
Reserve(p) ==
    LET r == ReserveN(lim, time[p], count[p], wait[p])
    IN  /\ pc[p] = "called"
        /\ lim' = r.lim
        /\ IF r.ok
           THEN /\ pc' = [pc EXCEPT ![p] = "waiting"]
                /\ res' = [res EXCEPT ![p] = [n |-> count[p], timeToAct |-> r.timeToAct]]
           ELSE /\ pc' = [pc EXCEPT ![p] = "idle"]
                /\ UNCHANGED res
        /\ UNCHANGED <<clock, time, count, wait, used>>

\* A slip: nobody waits.
GoAtOnce(p) ==
    /\ pc[p] = "waiting"
    /\ used' = used + res[p].n
    /\ res' = [res EXCEPT ![p] = None]
    /\ pc' = [pc EXCEPT ![p] = "idle"]
    /\ UNCHANGED <<clock, lim, time, count, wait>>

\* The delay is over.
Go(p) ==
    /\ pc[p] = "waiting"
    /\ clock >= res[p].timeToAct
    /\ used' = used + res[p].n
    /\ res' = [res EXCEPT ![p] = None]
    /\ pc' = [pc EXCEPT ![p] = "idle"]
    /\ UNCHANGED <<clock, lim, time, count, wait>>

\* There is a delay, and the context ends during it, or select finds both ended:
\* Cancel, that is CancelAt(time.Now()).
GiveUp(p) ==
    /\ Cancels
    /\ pc[p] = "waiting"
    /\ res[p].timeToAct > time[p]
    /\ time' = [time EXCEPT ![p] = clock]
    /\ pc' = [pc EXCEPT ![p] = "cancelling"]
    /\ UNCHANGED <<clock, lim, count, wait, res, used>>

\* CancelAt, under the mutex.
Cancel(p) ==
    /\ pc[p] = "cancelling"
    /\ lim' = CancelAt(lim, res[p], time[p])
    /\ res' = [res EXCEPT ![p] = None]
    /\ pc' = [pc EXCEPT ![p] = "idle"]
    /\ UNCHANGED <<clock, time, count, wait, used>>

Tick ==
    /\ clock < MaxClock
    /\ clock' = clock + 1
    /\ UNCHANGED <<lim, pc, time, count, wait, res, used>>

Next == \/ \E p \in Procs : Call(p) \/ Reserve(p) \/ Go(p) \/ GiveUp(p) \/ Cancel(p)
        \/ Tick

Spec == Init /\ [][Next]_vars

-----------------------------------------------------------------------------
(* What must be true of the limiter.                                       *)

LimOK == lim \in Limiter /\ lim.tokens <= Burst * Unit

CallersOK ==
    /\ pc \in [Procs -> {"idle", "called", "waiting", "cancelling"}]
    /\ time \in [Procs -> Nat]
    /\ count \in [Procs -> Nat]
    /\ wait \in [Procs -> Nat]
    /\ res \in [Procs -> Reservation \cup {None}]
    /\ \A p \in Procs : res[p] = None <=> pc[p] \in {"idle", "called"}

\* The type invariant; the bucket never holds more than Burst.
TypeOK == clock \in Nat /\ used \in Nat /\ LimOK /\ CallersOK

\* rate.go:34-36: what was used since the limiter was made is at most a full
\* bucket and what the time since then has brought.
Budget == Unit * used <= Unit * Burst + Refill * (clock - Start)
=============================================================================

------------------------------ MODULE NameCache ------------------------------
(***************************************************************************)
(* Dialling by name: NameResolveCachingDialer.DialContext (rescache.go in  *)
(* pkg/dumbproxy/dialer) looks a host up in a cache, and else shares one   *)
(* lookup among all that want it.  The lookup is FastResolver.LookupNetIP  *)
(* (fast.go in pkg/dumbproxy/resolver): several resolvers race, the first  *)
(* success wins.  It has a timeout of its own and does not see the         *)
(* contexts of the callers.                                                *)
(*                                                                         *)
(* One host is enough: hosts share nothing.  Time is counted in ticks; an  *)
(* answer has an age.                                                      *)
(***************************************************************************)
EXTENDS Naturals, FiniteSets

CONSTANTS
    Dialers,    \* concurrent calls of DialContext
    Resolvers,
    PosTTL, NegTTL, Timeout     \* in ticks
\* Durations are not negative; there are finitely many resolvers to hear from.
ASSUME TimesAssumption == PosTTL \in Nat /\ NegTTL \in Nat /\ Timeout \in Nat
ASSUME ResolversAssumption == IsFiniteSet(Resolvers)

VARIABLES
    want,       \* of a caller: idle, missed, sharing, served
    served,     \* the answer it was served
    entry,      \* the cache's entry: set of at most one answer
    left,       \* ticks until it expires
    flight,     \* the shared lookup: off, racing, over
    timer,      \* ticks until its timeout
    failures,   \* errors it has heard of
    outcome,    \* what it found: set of at most one answer
    asked,      \* the goroutine of a resolver: off, asking, success, failed
    since,      \* age of what it offers
    lingering   \* goroutines of earlier lookups: <<resolver, asking or offering>>

nameVars == <<want, served, entry, left, flight, timer, failures, outcome, asked, since,
              lingering>>

MaxAge == PosTTL + Timeout + 1      \* ages beyond it are not told apart
Answers == [ok : BOOLEAN, age : 0..MaxAge]
Fresh(ok, age) == [ok |-> ok, age |-> age]
NoAnswer == Fresh(FALSE, 0)

NameInit == /\ want = [c \in Dialers |-> "idle"]
            /\ served = [c \in Dialers |-> NoAnswer]
            /\ entry = {} /\ left = 0
            /\ flight = "off" /\ timer = 0 /\ failures = 0 /\ outcome = {}
            /\ asked = [r \in Resolvers |-> "off"]
            /\ since = [r \in Resolvers |-> 0]
            /\ lingering = {}

-----------------------------------------------------------------------------
(* DialContext.                                                            *)

\* A slip: an entry that has expired is as good as any.
LookUpAny(c) ==
    /\ want[c] = "idle"
    /\ \/ \E a \in entry : /\ want' = [want EXCEPT ![c] = "served"]
                           /\ served' = [served EXCEPT ![c] = a]
       \/ entry = {} /\ want' = [want EXCEPT ![c] = "missed"] /\ UNCHANGED served
    /\ UNCHANGED <<entry, left, flight, timer, failures, outcome, asked, since, lingering>>

\* GetValidOrDelete
LookUp(c) ==
    /\ want[c] = "idle"
    /\ IF left > 0
       THEN /\ want' = [want EXCEPT ![c] = "served"]
            /\ \E a \in entry : served' = [served EXCEPT ![c] = a]
            /\ UNCHANGED entry
       ELSE want' = [want EXCEPT ![c] = "missed"] /\ entry' = {} /\ UNCHANGED served
    /\ UNCHANGED <<left, flight, timer, failures, outcome, asked, since, lingering>>

\* singleflight: join the lookup under way, or start one.
Share(c) ==
    /\ want[c] = "missed"
    /\ want' = [want EXCEPT ![c] = "sharing"]
    /\ IF flight # "off"
       THEN UNCHANGED <<flight, timer, failures, asked, since>>
       ELSE /\ flight' = "racing" /\ timer' = Timeout /\ failures' = 0
            /\ asked' = [r \in Resolvers |-> "asking"]
            /\ since' = [r \in Resolvers |-> 0]
    /\ UNCHANGED <<served, entry, left, outcome, lingering>>

\* A slip: the answer goes to one of those who share the call.
EndFlightForOne ==
    /\ flight = "over"
    /\ entry' = outcome
    /\ \E a \in outcome, first \in {d \in Dialers : want[d] = "sharing"} :
         /\ left' = IF a.ok THEN PosTTL ELSE NegTTL
         /\ served' = [served EXCEPT ![first] = a]
         /\ want' = [want EXCEPT ![first] = "served"]
    /\ flight' = "off" /\ outcome' = {}
    /\ UNCHANGED <<timer, failures, asked, since, lingering>>

\* The lookup returns: its item is cached, for a time that depends on it, and all that
\* share the call get it.
EndFlight ==
    /\ flight = "over"
    /\ entry' = outcome
    /\ \E a \in outcome :
         /\ left' = IF a.ok THEN PosTTL ELSE NegTTL
         /\ served' = [c \in Dialers |-> IF want[c] = "sharing" THEN a ELSE served[c]]
    /\ want' = [c \in Dialers |-> IF want[c] = "sharing" THEN "served" ELSE want[c]]
    /\ flight' = "off" /\ outcome' = {}
    /\ UNCHANGED <<timer, failures, asked, since, lingering>>

\* The addresses are dialled, or the error is returned.
UseAnswer(c) ==
    /\ want[c] = "served"
    /\ want' = [want EXCEPT ![c] = "idle"]
    /\ served' = [served EXCEPT ![c] = NoAnswer]
    /\ UNCHANGED <<entry, left, flight, timer, failures, outcome, asked, since, lingering>>

-----------------------------------------------------------------------------
(* FastResolver.LookupNetIP.                                               *)

\* The lookup is over: its context is cancelled, and goroutines are left behind.
Conclude(answer, done) ==
    /\ flight' = "over" /\ outcome' = {answer}
    /\ lingering' = lingering
         \cup {<<r, "asking">> : r \in {q \in Resolvers \ done : asked[q] = "asking"}}
         \cup {<<r, "offering">> : r \in {q \in Resolvers \ done :
                                                asked[q] \in {"success", "failed"}}}
    /\ asked' = [r \in Resolvers |-> "off"]
    /\ UNCHANGED <<want, served, entry, left, timer, failures, since>>

ResolverAnswers(r) ==
    /\ asked[r] = "asking"
    /\ \E result \in {"success", "failed"} : asked' = [asked EXCEPT ![r] = result]
    /\ since' = [since EXCEPT ![r] = 0]
    /\ UNCHANGED <<want, served, entry, left, flight, timer, failures, outcome, lingering>>

HearFailure(r) ==
    /\ flight = "racing" /\ asked[r] = "failed"
    /\ IF failures + 1 = Cardinality(Resolvers)
       THEN Conclude(Fresh(FALSE, 0), {r})
       ELSE /\ failures' = failures + 1 /\ asked' = [asked EXCEPT ![r] = "off"]
            /\ UNCHANGED <<want, served, entry, left, flight, timer, outcome, since, lingering>>

HearSuccess(r) ==
    /\ flight = "racing" /\ asked[r] = "success"
    /\ Conclude(Fresh(TRUE, since[r]), {r})

TimeOut ==
    /\ flight = "racing" /\ timer = 0
    /\ Conclude(Fresh(FALSE, 0), {})

\* A resolver sees the end of its context, and who offers takes the other branch.
\* (Two goroutines of a resolver in the same state leave together.)
LoserLeaves(l) ==
    /\ l \in lingering
    /\ lingering' = lingering \ {l}
    /\ UNCHANGED <<want, served, entry, left, flight, timer, failures, outcome, asked, since>>

\* (Ages of what nobody has are kept at 0.  A lookup whose time is up does not go on.)
NameTick ==
    LET Older(n) == IF n < MaxAge THEN n + 1 ELSE n
        Less(n) == IF n > 0 THEN n - 1 ELSE 0
    IN /\ (flight = "racing" => timer > 0) /\ flight # "over"
       /\ entry' = {Fresh(a.ok, Older(a.age)) : a \in entry}
       /\ left' = Less(left)
       /\ timer' = Less(timer)
       /\ since' = [r \in Resolvers |-> IF asked[r] \in {"success", "failed"}
                                        THEN Older(since[r]) ELSE 0]
       /\ UNCHANGED <<want, served, flight, failures, outcome, asked, lingering>>

Losers == Resolvers \X {"asking", "offering"}
Flight == \/ EndFlight \/ TimeOut
          \/ \E r \in Resolvers : HearFailure(r) \/ HearSuccess(r)
NameNext == \/ \E c \in Dialers : LookUp(c) \/ Share(c) \/ UseAnswer(c)
            \/ \E r \in Resolvers : ResolverAnswers(r)
            \/ \E l \in Losers : LoserLeaves(l)
            \/ Flight \/ NameTick

\* Time passes and goroutines run; resolvers may never answer while they are let.
NameFairness == /\ WF_nameVars(NameTick) /\ WF_nameVars(Flight)
                /\ \A c \in Dialers : WF_nameVars(Share(c))
                /\ \A l \in Losers : WF_nameVars(LoserLeaves(l))

NameSpec == NameInit /\ [][NameNext]_nameVars /\ NameFairness

-----------------------------------------------------------------------------

\* rescache.go:87-110: an address is used no longer than its TTL after the lookup that
\* brought it, and an error no longer than the shorter one, however calls share and
\* lookups overlap.
BoundedAge ==
    \A c \in Dialers : want[c] = "served" =>
        served[c].age <= IF served[c].ok THEN PosTTL + Timeout ELSE NegTTL

\* fast.go:62-72: a lookup fails when its time is up or all resolvers have failed, and
\* never while one may still succeed.
FailsWhenAllDo ==
    [][(flight = "racing" /\ flight' = "over" /\ \A a \in outcome' : ~a.ok)
          => timer = 0 \/ \A r \in Resolvers : asked[r] \in {"failed", "off"}]_nameVars

\* Who shares a lookup is served, even if no resolver ever answers.
SharersServed == \A c \in Dialers : (want[c] = "missed") ~> (want[c] = "served")

\* fast.go:45-60: the losers of the race, who report to nobody, leave.
LosersLeave == \A l \in Losers : (l \in lingering) ~> (l \notin lingering)

\* A lookup ends for all that have to do with it, and not too early.
LookupEnds == FailsWhenAllDo /\ SharersServed /\ LosersLeave
=============================================================================

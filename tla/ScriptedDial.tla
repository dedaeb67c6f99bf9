---------------------------- MODULE ScriptedDial ----------------------------
(***************************************************************************)
(* Requests that ask scripts: may this destination be dialled (access),    *)
(* through which proxy (route), how fast may it go (limit).  Each kind has  *)
(* a pool of interpreters that run one call at a time; a call takes one     *)
(* from a channel, runs the script and puts it back on the way out.  The    *)
(* pools are filled, in this order, before the proxy serves.  A request     *)
(* asks the router whether a host name is wanted, resolves the name if not,  *)
(* and tries the addresses one after another: filter, route, dial.  The     *)
(* speed is asked for when a connection stands.                             *)
(***************************************************************************)
EXTENDS Naturals, Sequences, FiniteSets

CONSTANTS Requests, AccessInstances, RouterInstances

\* The option for the limit's interpreters is stored in the router's field:
\* the limit's own field stays 0.
LimitInstances == 0

\* max(1, instances) interpreters of each kind.
AtLeastOne(n) == IF n = 0 THEN 1 ELSE n
VMs(kind) == {kind} \X
    (1 .. AtLeastOne(CASE kind = "access" -> AccessInstances
                       [] kind = "route"  -> RouterInstances
                       [] kind = "limit"  -> LimitInstances))
PoolKinds == {"access", "route", "limit"}
NoVM == <<"none", 0>>
Unconnected == "unconnected"

\* Lists a resolver may answer, and all that the system may resolve the name to.
\* "name" stands for a destination whose name is left to a proxy to resolve.
Resolved == {<<>>, <<"ip1">>, <<"ip1", "ip2">>}
Resolvable == {"ip1", "ip2"}

VARIABLES
  building,  \* the pool that is filled, "serving" or "failed"
  loaded,    \* interpreters whose script ran and has the function
  broken,    \* interpreters that could not be set up
  free,      \* interpreters in their channels
  progress,  \* progress[r]: what the request does next
  using,     \* using[r]: the interpreter whose script it runs
  toTry,     \* toTry[r]: addresses left, the one tried now first
  granted,   \* granted[r]: addresses the filter let through
  through,   \* through[r]: "proxy" or "next", the dialer it was routed to last
  reached    \* reached[r]: the address its connection goes to
scriptVars == <<building, loaded, broken, free, progress, using, toTry, granted,
                through, reached>>
vmVars == <<building, loaded, broken>>

ScriptInit ==
  /\ building = "access" /\ loaded = {} /\ broken = {} /\ free = {}
  /\ progress = [r \in Requests |-> "new"]
  /\ using = [r \in Requests |-> NoVM]
  /\ toTry = [r \in Requests |-> <<>>]
  /\ granted = [r \in Requests |-> {}]
  /\ through = [r \in Requests |-> "next"]
  /\ reached = [r \in Requests |-> Unconnected]

----------------------------------------------------------------------------
\* The constructors: one goroutine per interpreter; one that fails does not
\* stop the others, and the constructor waits for all of them.
LoadVM(vm) ==
  /\ building \in PoolKinds /\ vm \in VMs(building) \ (loaded \cup broken)
  /\ \/ loaded' = loaded \cup {vm} /\ free' = free \cup {vm} /\ UNCHANGED broken
     \/ broken' = broken \cup {vm} /\ UNCHANGED <<loaded, free>>
  /\ UNCHANGED <<building, progress, using, toTry, granted, through, reached>>

Constructed ==
  /\ building \in PoolKinds /\ VMs(building) \subseteq loaded \cup broken
  /\ building' = IF broken # {} THEN "failed"
                 ELSE CASE building = "access" -> "route"
                        [] building = "route"  -> "limit"
                        [] building = "limit"  -> "serving"
  /\ UNCHANGED <<loaded, broken, free, progress, using, toTry, granted, through, reached>>

----------------------------------------------------------------------------
\* The pool a stage takes its interpreter from.
PoolOf(s) == CASE s \in {"ask", "route"} -> "route"
               [] s = "filter"           -> "access"
               [] s = "limit"            -> "limit"
Asking == {"ask", "filter", "route", "limit"}

Arrive(r) ==
  /\ building = "serving" /\ progress[r] = "new"
  /\ progress' = [progress EXCEPT ![r] = "ask"]
  /\ UNCHANGED <<vmVars, free, using, toTry, granted, through, reached>>

\* f := <-funcPool: waits for as long as the pool is empty; the request's
\* context is not looked at.
TakeVM(r) ==
  /\ progress[r] \in Asking /\ using[r] = NoVM
  /\ \E vm \in free : /\ vm[1] = PoolOf(progress[r])
                      /\ free' = free \ {vm}
                      /\ using' = [using EXCEPT ![r] = vm]
  /\ UNCHANGED <<vmVars, progress, toTry, granted, through, reached>>

\* A slip: an exception skips the return to the channel.
PutBackUnlessThrown(r, answer) ==
  /\ using[r] # NoVM
  /\ free' = IF answer = "exception" THEN free ELSE free \cup {using[r]}
  /\ using' = [using EXCEPT ![r] = NoVM]

\* The deferred return to the channel, on an exception as well.
PutBack(r, answer) ==
  /\ using[r] # NoVM
  /\ free' = free \cup {using[r]}
  /\ using' = [using EXCEPT ![r] = NoVM]

\* A slip: the script is asked for the first address only.
TryNextUnasked(r) ==
  /\ toTry' = [toTry EXCEPT ![r] = Tail(@)]
  /\ progress' = [progress EXCEPT ![r] = IF Len(toTry[r]) = 1 THEN "end" ELSE "route"]

\* The next address of the list, or no connection when there is none left.
TryNext(r) ==
  /\ toTry' = [toTry EXCEPT ![r] = Tail(@)]
  /\ progress' = [progress EXCEPT ![r] = IF Len(toTry[r]) = 1 THEN "end" ELSE "filter"]

\* JSRouter.WantsHostname: only a proxy wants the name.  The router below says
\* no, and so does an error of the script or of the dialer's construction.
HearWants(r) ==
  /\ progress[r] = "ask"
  /\ \E answer \in {"next", "proxy", "exception"} :
       /\ PutBack(r, answer)
       /\ \E list \in IF answer = "proxy" THEN {<<"name">>} ELSE Resolved :
            /\ toTry' = [toTry EXCEPT ![r] = list]
            /\ progress' = [progress EXCEPT ![r] = IF list = <<>> THEN "end" ELSE "filter"]
  /\ UNCHANGED <<vmVars, granted, through, reached>>

\* JSFilter.Access and FilterDialer.DialContext.
HearAccess(r) ==
  /\ progress[r] = "filter"
  /\ \E answer \in {"yes", "no", "exception"} :
       /\ PutBack(r, answer)
       /\ IF answer = "yes"
          THEN /\ progress' = [progress EXCEPT ![r] = "route"]
               /\ granted' = [granted EXCEPT ![r] = @ \cup {Head(toTry[r])}]
               /\ UNCHANGED toTry
          ELSE TryNext(r) /\ UNCHANGED granted
  /\ UNCHANGED <<vmVars, through, reached>>

\* JSRouter.getNextDialer for the dial itself: the script is asked again, and
\* need not answer as before.
HearRoute(r) ==
  /\ progress[r] = "route"
  /\ \E answer \in {"next", "proxy", "exception"} :
       /\ PutBack(r, answer)
       /\ IF answer = "exception" THEN TryNext(r) /\ UNCHANGED through
          ELSE /\ progress' = [progress EXCEPT ![r] = "dial"]
               /\ through' = [through EXCEPT ![r] = answer]
               /\ UNCHANGED toTry
  /\ UNCHANGED <<vmVars, granted, reached>>

\* Where a dial of a may end: the dialer below the router resolves a name itself,
\* behind the filter.
Destinations(a, dialer) == IF a = "name" /\ dialer = "next" THEN Resolvable ELSE {a}

DialAddress(r) ==
  /\ progress[r] = "dial"
  /\ \/ /\ progress' = [progress EXCEPT ![r] = "limit"]
        /\ \E a \in Destinations(Head(toTry[r]), through[r]) :
             reached' = [reached EXCEPT ![r] = a]
        /\ UNCHANGED toTry
     \/ TryNext(r) /\ UNCHANGED reached
  /\ UNCHANGED <<vmVars, free, using, granted, through>>

\* JSLimitProvider.Parameters: no parameters, no forwarding.
HearLimit(r) ==
  /\ progress[r] = "limit"
  /\ \E answer \in {"parameters", "null", "exception"} :
       /\ PutBack(r, answer)
       /\ progress' = [progress EXCEPT ![r] = IF answer = "parameters" THEN "forward"
                                        ELSE "end"]
  /\ UNCHANGED <<vmVars, toTry, granted, through, reached>>

ForwardEnds(r) ==
  /\ progress[r] = "forward"
  /\ progress' = [progress EXCEPT ![r] = "end"]
  /\ UNCHANGED <<vmVars, free, using, toTry, granted, through, reached>>

ScriptNext ==
  \/ \E vm \in UNION {VMs(kind) : kind \in PoolKinds} : LoadVM(vm)
  \/ Constructed
  \/ \E r \in Requests : \/ Arrive(r) \/ TakeVM(r) \/ HearWants(r)
                         \/ HearAccess(r) \/ HearRoute(r) \/ DialAddress(r)
                         \/ HearLimit(r) \/ ForwardEnds(r)
ScriptSpec == ScriptInit /\ [][ScriptNext]_scriptVars

\* Scripts return, dials end and the channel serves those who wait.
Proceeds(r) == \/ TakeVM(r) \/ HearWants(r) \/ HearAccess(r) \/ HearRoute(r)
              \/ DialAddress(r) \/ HearLimit(r) \/ ForwardEnds(r)

----------------------------------------------------------------------------
\* An interpreter is never in two hands and never lost: each that was set up is
\* in its channel or runs the script of exactly one request, of the kind the
\* request is at, whatever exceptions the scripts throw.  (Two calls in one
\* interpreter are what the comment at jsfilter.go:20 warns of.)
OneHand ==
  /\ loaded = free \cup {using[r] : r \in {q \in Requests : using[q] # NoVM}}
  /\ \A r, q \in Requests : r # q /\ using[r] # NoVM => using[r] # using[q]
  /\ \A r \in Requests : using[r] \notin free

\* A connection goes to an address for which the access script said yes within this
\* request: another address of the same name that was allowed, an exception or a
\* second list do not stand in for it (filter.go:26-32).  The exception is a router
\* that takes its wish for the name back (jsrouter.go:104, 123): the name was let
\* through, and what the system resolves it to is asked of nobody.
OnlyGranted ==
  \A r \in Requests : reached[r] # Unconnected =>
    \/ reached[r] \in granted[r]
    \/ reached[r] \in Resolvable /\ "name" \in granted[r] /\ through[r] = "next"

\* A request that began ends, with every interpreter at work elsewhere, as long
\* as scripts return, and dials and what is forwarded end.
RequestsEnd == \A r \in Requests : progress[r] = "ask" ~> progress[r] = "end"
=============================================================================

------------------------------ MODULE Registry ------------------------------
(***************************************************************************)
(* What the Manager promises about identity: a client's api_key is         *)
(* registered under at most one id, an id names one key for good, and an   *)
(* id that was given out is never given out again.  Nothing is said of     *)
(* addresses, instances, time or failures.                                 *)
(***************************************************************************)
EXTENDS Integers

CONSTANTS Keys, MaxId, None

VARIABLES keyOf,    \* id -> the key registered under it, or None
          nextId    \* the next id to give out

Ids == 1..MaxId

Init == keyOf = [i \in Ids |-> None] /\ nextId = 1

\* A key that is not registered gets a fresh id.
Register(k) ==
    /\ nextId <= MaxId
    /\ \A i \in Ids : keyOf[i] # k
    /\ keyOf' = [keyOf EXCEPT ![nextId] = k]
    /\ nextId' = nextId + 1

Deregister(i) ==
    /\ keyOf' = [keyOf EXCEPT ![i] = None]
    /\ UNCHANGED nextId

Next == (\E k \in Keys : Register(k)) \/ (\E i \in Ids : Deregister(i))

Spec == Init /\ [][Next]_<<keyOf, nextId>>
=============================================================================

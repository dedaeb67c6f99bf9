------------------------------ MODULE Loopback ------------------------------
(***************************************************************************)
(* How the handlers find a tunnel that leads back to the proxy: they keep  *)
(* the local addresses of their outgoing connections in a map and refuse a *)
(* request that comes from one of them (handler.go and socks.go in         *)
(* pkg/dumbproxy/handler).  Addresses are the system's: it gives one that  *)
(* is free again to the next connection, anyone's, at once.  A connection  *)
(* is closed before its entry is removed, so there is a moment in which an *)
(* address is on the map and may already be another's.                     *)
(***************************************************************************)
EXTENDS FiniteSets, Naturals

CONSTANTS
    Kind,       \* the handler: "http" or "socks"
    Addresses,  \* local addresses with ephemeral ports
    Listener,   \* the address the proxy listens on
    Requests,
    Nothing     \* no address, no request

ASSUME LoopbackAssumption == /\ Kind \in {"http", "socks"}
                             /\ Listener \notin Addresses
                             /\ Nothing \notin Addresses \cup Requests

VARIABLES
    st,         \* of each request: new, received, accepted, refused, dialled,
                \* tunnel, closed, done
    from,       \* the address it comes from
    via,        \* the request whose tunnel it came through, or Nothing
    out,        \* the local address of its outgoing connection, or Nothing
    inUse,      \* addresses the system does not give away
    outbound,   \* the handler's map: its keys
    shared      \* history: its connection got an address whose last connection was
                \* closed and still on the map

loopVars == <<st, from, via, out, inUse, outbound, shared>>

LoopInit ==
    /\ st = [r \in Requests |-> "new"]
    /\ from = [r \in Requests |-> Nothing]
    /\ via = [r \in Requests |-> Nothing]
    /\ out = [r \in Requests |-> Nothing]
    /\ inUse = {}
    /\ outbound = {}
    /\ shared = [r \in Requests |-> FALSE]

\* A client connects from a free address and sends a request.
Arrive(r) ==
    /\ st[r] = "new"
    /\ \E a \in Addresses \ inUse :
         /\ from' = [from EXCEPT ![r] = a]
         /\ inUse' = inUse \cup {a}
    /\ st' = [st EXCEPT ![r] = "received"]
    /\ UNCHANGED <<via, out, outbound, shared>>

\* The target of a tunnel is the proxy, and what comes through it is a request.
ArriveThrough(r, q) ==
    /\ st[r] = "new" /\ st[q] = "tunnel"
    /\ \A p \in Requests : via[p] # q
    /\ from' = [from EXCEPT ![r] = out[q]]
    /\ via' = [via EXCEPT ![r] = q]
    /\ st' = [st EXCEPT ![r] = "received"]
    /\ UNCHANGED <<out, inUse, outbound, shared>>

\* isLoopback, under the read lock.
Check(r) ==
    /\ st[r] = "received"
    /\ st' = [st EXCEPT ![r] = IF from[r] \in outbound THEN "refused" ELSE "accepted"]
    /\ UNCHANGED <<from, via, out, inUse, outbound, shared>>

\* Connections that are closed and whose entries are not removed yet.
Closing(a) == {q \in Requests : st[q] = "closed" /\ out[q] = a}

Dial(r) ==
    /\ st[r] = "accepted"
    /\ \/ /\ \E a \in Addresses \ inUse :
               /\ out' = [out EXCEPT ![r] = a]
               /\ shared' = [shared EXCEPT ![r] = Closing(a) # {}]
               /\ inUse' = inUse \cup {a}
          /\ st' = [st EXCEPT ![r] = "dialled"]
       \/ /\ st' = [st EXCEPT ![r] = "done"]
          /\ UNCHANGED <<out, inUse, shared>>
    /\ UNCHANGED <<from, via, outbound>>

\* A slip: the request's own address is put on the map.
RegisterOrigin(r) ==
    /\ st[r] = "dialled"
    /\ outbound' = outbound \cup {from[r]}
    /\ st' = [st EXCEPT ![r] = "tunnel"]
    /\ UNCHANGED <<from, via, out, inUse, shared>>

\* The entry is made before the client is answered and data flows.
Register(r) ==
    /\ st[r] = "dialled"
    /\ outbound' = outbound \cup {out[r]}
    /\ st' = [st EXCEPT ![r] = "tunnel"]
    /\ UNCHANGED <<from, via, out, inUse, shared>>

\* The tunnel ends: the connection is closed, and its address free, before the entry
\* is removed.
Close(r) ==
    /\ st[r] = "tunnel"
    /\ st' = [st EXCEPT ![r] = "closed"]
    /\ inUse' = inUse \ {out[r]}
    /\ UNCHANGED <<from, via, out, outbound, shared>>

\* A slip: the entry stays if the tunnel's client is a tunnel itself.
UnregisterSome(r) ==
    /\ st[r] = "closed"
    /\ outbound' = IF via[r] = Nothing THEN outbound \ {out[r]} ELSE outbound
    /\ st' = [st EXCEPT ![r] = "done"]
    /\ UNCHANGED <<from, via, out, inUse, shared>>

\* The SOCKS handler removes the key localAddr, the address of its listener.
Unregister(r) ==
    /\ st[r] = "closed"
    /\ outbound' = outbound \ {IF Kind = "http" THEN out[r] ELSE Listener}
    /\ st' = [st EXCEPT ![r] = "done"]
    /\ UNCHANGED <<from, via, out, inUse, shared>>

\* A client that is through with its request disconnects, and another may come.
\* (The name of a request is not used again while a request is known by it.)
Leave(r) ==
    /\ st[r] \in {"done", "refused"}
    /\ \A p \in Requests : via[p] # r
    /\ st' = [st EXCEPT ![r] = "new"]
    /\ inUse' = IF via[r] = Nothing THEN inUse \ {from[r]} ELSE inUse
    /\ from' = [from EXCEPT ![r] = Nothing]
    /\ via' = [via EXCEPT ![r] = Nothing]
    /\ out' = [out EXCEPT ![r] = Nothing]
    /\ shared' = [shared EXCEPT ![r] = FALSE]
    /\ UNCHANGED outbound

LoopNext == \E r \in Requests :
               \/ Arrive(r) \/ Check(r) \/ Dial(r) \/ Register(r) \/ Close(r)
               \/ Unregister(r) \/ Leave(r)
               \/ \E q \in Requests \ {r} : ArriveThrough(r, q)

LoopSpec == LoopInit /\ [][LoopNext]_loopVars

-----------------------------------------------------------------------------

LoopTypeOK ==
    /\ st \in [Requests -> {"new", "received", "accepted", "refused", "dialled",
                            "tunnel", "closed", "done"}]
    /\ from \in [Requests -> Addresses \cup {Nothing}]
    /\ via \in [Requests -> Requests \cup {Nothing}]
    /\ out \in [Requests -> Addresses \cup {Nothing}]
    /\ \A r \in Requests : st[r] \in {"dialled", "tunnel", "closed"} => out[r] # Nothing
    /\ inUse \subseteq Addresses
    /\ outbound \subseteq Addresses
    /\ shared \in [Requests -> BOOLEAN]

\* socks.go:30-31, handler.go:226-227: what is refused as a loop comes from "an
\* outbound address for another request": through a tunnel, or from an address whose
\* entry a handler, having closed the connection, is about to remove (handler.go:96-98).
\* No entry outlives its handler and hits clients that come later.
RefusedIsLoop ==
    [][\A r \in Requests : (st[r] = "received" /\ st'[r] = "refused")
                              => via[r] # Nothing \/ Closing(from[r]) # {}]_loopVars

\* handler.go:91-94: a request that comes through a tunnel that is still up is not
\* let in, however the tunnels around it begin and end.  The exception is a tunnel that
\* got its address while the last handler that had it stood between Close and delete
\* (handler.go:96-98): that delete takes the new tunnel's entry.
LoopRefused ==
    [][\A r \in Requests : (st[r] = "received" /\ st'[r] = "accepted" /\ via[r] # Nothing)
                              => st[via[r]] # "tunnel" \/ shared[via[r]]]_loopVars
=============================================================================

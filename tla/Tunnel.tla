------------------------------- MODULE Tunnel -------------------------------
(***************************************************************************)
(* One CONNECT request: ProxyHandler.HandleTunnel and the two goroutines   *)
(* of forward.PairConnections that carry its data (pkg/dumbproxy/handler,  *)
(* pkg/dumbproxy/forward).  A connection has a peer that sends, stalls,    *)
(* finishes or breaks, and two ends the proxy can close.  What is carried  *)
(* are numbered chunks.                                                    *)
(*                                                                         *)
(* A client that does not wait for the answer has sent data when its       *)
(* connection is hijacked: these bytes are in the server's buffer, and a   *)
(* first call of PairConnections rescues them before the second one joins  *)
(* the connections.                                                        *)
(***************************************************************************)
EXTENDS Naturals, Sequences, SequencesExt

CONSTANT Chunks     \* bound on the chunks a peer sends

ASSUME TunnelAssumption == Chunks \in Nat

Sides == {"client", "target"}
Other(s) == IF s = "client" THEN "target" ELSE "client"

\* What a client reads besides chunks: the answer to its request.
Established == 0
Refused == Chunks + 1

VARIABLES
    version,    \* r.ProtoMajor: the HTTP version towards the client, 1 or 2
    pc,         \* the handler: dial, register, upgrade, early, main, then its
                \* deferred calls: closeClient, closeTarget, deregister, done
    registered, \* outbound has the target's local address
    cancelled,  \* the request's context has ended
    noticed,    \* PairConnections has seen that
    copier,     \* the goroutine that reads this side: off, read, write, close, done
    held,       \* the chunk it has read
    early,      \* the client's chunks that the server had read before the hijack
    pending,    \* pendingWriteConn: none, unsent or sent, the answer to the client
    readable,   \* the proxy can still read this side
    writable,   \* the proxy can still write to this side
    net,        \* chunks that arrived from this side, not read yet
    sent,       \* history: how many chunks this side has sent
    fin,        \* this side has finished sending
    broken,     \* the connection with this side is broken
    stalled,    \* this side takes no data
    got         \* what this side was sent

handler == <<version, pc, registered, cancelled, pending, early>>
ends == <<readable, writable>>
peers == <<sent, fin, broken, stalled>>
vars == <<handler, noticed, copier, held, ends, net, peers, got>>

Init == /\ version \in {1, 2}
        /\ pc = "dial" /\ registered = FALSE /\ cancelled = FALSE /\ noticed = FALSE
        /\ copier = [s \in Sides |-> "off"] /\ held = [s \in Sides |-> 0]
        /\ early = <<>> /\ pending = "none"
        /\ readable = [s \in Sides |-> s = "client"]
        /\ writable = [s \in Sides |-> s = "client"]
        /\ net = [s \in Sides |-> <<>>] /\ sent = [s \in Sides |-> 0]
        /\ fin = [s \in Sides |-> FALSE] /\ broken = [s \in Sides |-> FALSE]
        /\ stalled = [s \in Sides |-> FALSE]
        /\ got = [s \in Sides |-> <<>>]

-----------------------------------------------------------------------------
(* HandleTunnel.                                                           *)

\* An answer to the client fits in the connection's buffers and is not waited for;
\* whether it arrives is ignored.
Answer(a) == got' = IF broken["client"] \/ ~writable["client"] THEN got
                    ELSE [got EXCEPT !["client"] = Append(@, a)]

Dial ==
    /\ pc = "dial"
    /\ pc' = "register"
    /\ readable' = [readable EXCEPT !["target"] = TRUE]
    /\ writable' = [writable EXCEPT !["target"] = TRUE]
    /\ UNCHANGED <<version, registered, cancelled, pending, early, noticed, copier, held, net,
                   peers, got>>

\* 502, or 403 if an access filter has refused it.
DialFails ==
    /\ pc = "dial"
    /\ pc' = "done"
    /\ Answer(Refused)
    /\ UNCHANGED <<version, registered, cancelled, pending, early, noticed, copier, held, ends,
                   net, peers>>

Register ==
    /\ pc = "register"
    /\ registered' = TRUE
    /\ pc' = "upgrade"
    /\ UNCHANGED <<version, cancelled, pending, early, noticed, copier, held, ends, net, peers,
                   got>>

StartForward == /\ copier' = [s \in Sides |-> "read"]
                /\ noticed' = FALSE

\* HTTP/1: hijack the connection; the answer follows at once, or, if there are
\* buffered bytes, together with the target's first data.  HTTP/2: answer.
Upgrade ==
    /\ pc = "upgrade"
    /\ \/ /\ version = 1
          /\ \E k \in 0..Len(net["client"]) :
               /\ early' = SubSeq(net["client"], 1, k)
               /\ net' = [net EXCEPT !["client"] = SubSeq(@, k + 1, Len(@))]
               /\ pc' = IF k > 0 THEN "early" ELSE "main"
               /\ pending' = IF k > 0 THEN "unsent" ELSE "none"
               /\ IF k > 0 THEN UNCHANGED got ELSE Answer(Established)
       \/ /\ version = 2
          /\ Answer(Established)
          /\ pc' = "main"
          /\ UNCHANGED <<early, pending, net>>
    /\ StartForward
    /\ UNCHANGED <<version, registered, cancelled, held, ends, peers>>

HijackFails ==
    /\ pc = "upgrade" /\ version = 1
    /\ Answer(Refused)
    /\ pc' = "closeTarget"
    /\ UNCHANGED <<version, registered, cancelled, pending, early, noticed, copier, held, ends,
                   net, peers>>

\* A slip: the first goroutine to end ends the call.
ForwardReturnsEarly ==
    /\ pc \in {"early", "main"}
    /\ \E s \in Sides : copier[s] = "done"
    /\ IF pc = "early"
       THEN pc' = "main" /\ StartForward
       ELSE /\ pc' = IF version = 1 THEN "closeClient" ELSE "closeTarget"
            /\ UNCHANGED <<copier, noticed>>
    /\ UNCHANGED <<version, registered, cancelled, pending, early, held, ends, net, peers, got>>

\* Both goroutines have reported, and the call returns: the second call after the
\* first, then the deferred ones.
ForwardReturns ==
    /\ pc \in {"early", "main"}
    /\ \A s \in Sides : copier[s] = "done"
    /\ IF pc = "early"
       THEN pc' = "main" /\ StartForward
       ELSE /\ pc' = IF version = 1 THEN "closeClient" ELSE "closeTarget"
            /\ UNCHANGED <<copier, noticed>>
    /\ UNCHANGED <<version, registered, cancelled, pending, early, held, ends, net, peers, got>>

CloseBoth(s) == /\ readable' = [readable EXCEPT ![s] = FALSE]
                /\ writable' = [writable EXCEPT ![s] = FALSE]

\* localconn.Close, conn.Close and the removal from outbound.
Deferred ==
    /\ \/ /\ pc = "closeClient"
          /\ CloseBoth("client") /\ pc' = "closeTarget"
          /\ UNCHANGED registered
       \/ /\ pc = "closeTarget"
          /\ CloseBoth("target") /\ pc' = "deregister"
          /\ UNCHANGED registered
       \/ /\ pc = "deregister"
          /\ registered' = FALSE /\ pc' = "done"
          /\ UNCHANGED ends
    /\ UNCHANGED <<version, cancelled, pending, early, noticed, copier, held, net, peers, got>>

-----------------------------------------------------------------------------
(* PairConnections.                                                        *)

\* In the first call the client is a reader of the buffered bytes and the target
\* ends at once.
Source(s) == IF pc = "main" THEN net[s] ELSE IF s = "client" THEN early ELSE <<>>
AtEnd(s) == Source(s) = <<>> /\ (pc = "early" \/ fin[s])
ReadError(s) == pc = "main" /\ (~readable[s] \/ broken[s])

Read(s) ==
    /\ pc \in {"early", "main"} /\ copier[s] = "read"
    /\ \/ /\ Source(s) # <<>> /\ (pc = "early" \/ readable[s])
          /\ held' = [held EXCEPT ![s] = Head(Source(s))]
          /\ copier' = [copier EXCEPT ![s] = "write"]
          /\ IF pc = "early" THEN early' = Tail(early) /\ UNCHANGED net
             ELSE net' = [net EXCEPT ![s] = Tail(@)] /\ UNCHANGED early
       \/ /\ AtEnd(s) \/ ReadError(s)
          /\ copier' = [copier EXCEPT ![s] = "close"]
          /\ UNCHANGED <<held, net, early>>
    /\ UNCHANGED <<version, pc, registered, cancelled, pending, noticed, ends, peers, got>>

\* The first buffered bytes of a fresh connection do not wait for its peer.
CanWrite(d) == writable[d] /\ ~broken[d] /\ (pc = "early" \/ ~stalled[d])
WriteError(d) == ~writable[d] \/ broken[d]

\* pendingWriteConn puts the answer in front of the first data.
Write(s) ==
    LET d == Other(s)
        unsent == d = "client" /\ pending = "unsent"
    IN  /\ copier[s] = "write"
        /\ \/ /\ CanWrite(d)
              /\ got' = [got EXCEPT ![d] =
                           @ \o (IF unsent THEN <<Established>> ELSE <<>>) \o <<held[s]>>]
              /\ pending' = IF unsent THEN "sent" ELSE pending
              /\ copier' = [copier EXCEPT ![s] = "read"]
           \/ /\ WriteError(d)
              /\ copier' = [copier EXCEPT ![s] = "close"]
              /\ UNCHANGED <<got, pending>>
        /\ UNCHANGED <<version, pc, registered, cancelled, early, noticed, held, ends, net, peers>>

\* Close of what PairConnections was given for side s: in the first call nothing,
\* for an HTTP/2 client the body of its request.
Close(s) ==
    IF pc = "early" THEN UNCHANGED ends
    ELSE IF s = "client" /\ version = 2
    THEN readable' = [readable EXCEPT ![s] = FALSE] /\ UNCHANGED writable
    ELSE CloseBoth(s)

\* Only a connection that is not wrapped can be closed for writing alone.
HasCloseWrite(s) == s = "target" \/ (version = 1 /\ pending = "none")

\* A slip: a side is closed as soon as the other has finished.
CloseWriteFully(s) ==
    /\ copier[s] = "close"
    /\ Close(Other(s))
    /\ copier' = [copier EXCEPT ![s] = "done"]
    /\ UNCHANGED <<handler, noticed, held, net, peers, got>>

CloseWrite(s) ==
    LET d == Other(s)
    IN  /\ copier[s] = "close"
        /\ IF pc = "main" /\ HasCloseWrite(d)
           THEN writable' = [writable EXCEPT ![d] = FALSE] /\ UNCHANGED readable
           ELSE Close(d)
        /\ copier' = [copier EXCEPT ![s] = "done"]
        /\ UNCHANGED <<handler, noticed, held, net, peers, got>>

\* A slip: the end of the context is only remembered.
NoticeOnly ==
    /\ pc \in {"early", "main"} /\ cancelled /\ ~noticed
    /\ \E s \in Sides : copier[s] # "done"
    /\ noticed' = TRUE
    /\ UNCHANGED <<handler, ends, copier, held, net, peers, got>>

\* The context ends while one of the goroutines has not reported: close both.
Notice ==
    /\ pc \in {"early", "main"} /\ cancelled /\ ~noticed
    /\ \E s \in Sides : copier[s] # "done"
    /\ noticed' = TRUE
    /\ IF pc = "early" THEN UNCHANGED ends
       ELSE /\ readable' = [s \in Sides |-> FALSE]
            /\ writable' = [s \in Sides |-> s = "client" /\ version = 2 /\ writable[s]]
    /\ UNCHANGED <<handler, copier, held, net, peers, got>>

-----------------------------------------------------------------------------
(* The peers.                                                              *)

Send(s) ==
    /\ s = "target" => pc # "dial"
    /\ sent[s] < Chunks /\ ~fin[s] /\ ~broken[s]
    /\ sent' = [sent EXCEPT ![s] = @ + 1]
    /\ net' = [net EXCEPT ![s] = Append(@, sent[s] + 1)]
    /\ UNCHANGED <<handler, noticed, copier, held, ends, fin, broken, stalled, got>>

\* It finishes, breaks, stalls or takes data again.
Change(s) ==
    /\ pc # "done"
    /\ s = "target" => pc # "dial"
    /\ \/ fin' = [fin EXCEPT ![s] = TRUE] /\ UNCHANGED <<broken, stalled>>
       \/ broken' = [broken EXCEPT ![s] = TRUE] /\ UNCHANGED <<fin, stalled>>
       \/ stalled' = [stalled EXCEPT ![s] = ~@] /\ UNCHANGED <<fin, broken>>
    /\ UNCHANGED <<handler, noticed, copier, held, ends, net, sent, got>>

\* net/http ends the context of a request when the client goes away: over HTTP/1
\* only until the connection is hijacked, over HTTP/2 with the stream.
CancelRequest ==
    /\ ~cancelled /\ pc # "done"
    /\ version = 1 => pc \in {"dial", "register", "upgrade"}
    /\ cancelled' = TRUE
    /\ broken' = IF version = 2 THEN [broken EXCEPT !["client"] = TRUE] ELSE broken
    /\ UNCHANGED <<version, pc, registered, pending, early, noticed, copier, held, ends, net, sent,
                   fin, stalled, got>>

-----------------------------------------------------------------------------

Copier(s) == Read(s) \/ Write(s) \/ CloseWrite(s)
Handler == Register \/ Upgrade \/ HijackFails \/ ForwardReturns \/ Deferred \/ Notice

Next == \/ Dial \/ DialFails \/ Handler \/ CancelRequest
        \/ \E s \in Sides : Copier(s) \/ Send(s) \/ Change(s)

\* A goroutine that can go on does, and a dial ends when its context ends
\* (UpstreamDial).  The peers owe nothing.
Spec == /\ Init /\ [][Next]_vars
        /\ WF_vars(Handler) /\ WF_vars(cancelled /\ (Dial \/ DialFails))
        /\ \A s \in Sides : WF_vars(Copier(s))

-----------------------------------------------------------------------------
(* What a tunnel is for.                                                   *)

Flags == /\ registered \in BOOLEAN /\ cancelled \in BOOLEAN /\ noticed \in BOOLEAN
         /\ readable \in [Sides -> BOOLEAN] /\ writable \in [Sides -> BOOLEAN]
         /\ fin \in [Sides -> BOOLEAN] /\ broken \in [Sides -> BOOLEAN]
         /\ stalled \in [Sides -> BOOLEAN]
         /\ noticed => cancelled

Types == /\ version \in {1, 2}
         /\ pc \in {"dial", "register", "upgrade", "early", "main", "closeClient",
                    "closeTarget", "deregister", "done"}
         /\ copier \in [Sides -> {"off", "read", "write", "close", "done"}]
         /\ held \in [Sides -> 0..Chunks]
         /\ early \in Seq(1..Chunks)
         /\ pending \in {"none", "unsent", "sent"}
         /\ net \in [Sides -> Seq(1..Chunks)]
         /\ sent \in [Sides -> 0..Chunks]
         /\ got \in [Sides -> Seq(0..Chunks + 1)]

TypeOK == Types /\ Flags

Numbered(n) == [i \in 1..n |-> i]

\* What the client gets behind the answer (AnswerFirst).
FromTarget == IF got["client"] = <<>> THEN <<>> ELSE Tail(got["client"])

\* Each side reads what the other has sent, from the start, in order and with
\* nothing missing, whoever had buffered it when the connection was hijacked.
InOrder == /\ IsPrefix(got["target"], Numbered(sent["client"]))
           /\ IsPrefix(FromTarget, Numbered(sent["target"]))

\* handler.go:125-128: the answer comes once, and before any data.
AnswerFirst == \A i \in DOMAIN got["client"] :
                  got["client"][i] \in {Established, Refused} <=> i = 1

Undisturbed == ~cancelled /\ \A s \in Sides : ~broken[s]

\* A tunnel that ends undisturbed has carried all that the target has sent; over a
\* connection that can be closed for writing alone, also all of the client's.
Complete ==
    (pc = "done" /\ Undisturbed /\ Refused \notin ToSet(got["client"])) =>
        /\ FromTarget = Numbered(sent["target"])
        /\ HasCloseWrite("client") => got["target"] = Numbered(sent["client"])

\* What a tunnel carries: the answer, then both streams in order, and whole where
\* nobody breaks it.
TunnelSound == TypeOK /\ InOrder /\ AnswerFirst /\ Complete

\* handler.go:142: nothing is written for a request that has returned.
QuietAfterReturn == [][pc = "done" => got' = got]_vars

\* forward/direct.go:47-53: the end of the request's context ends the tunnel, even if
\* both peers stall.
CancelEnds == cancelled ~> pc = "done"

\* When both sides have finished and take what the other has sent, the tunnel ends.
FinishEnds == <>[](\A s \in Sides : ~stalled[s]) =>
                  ((fin["client"] /\ fin["target"]) ~> pc = "done")

\* A tunnel ends when its context does, and when both sides are through.
TunnelEnds == CancelEnds /\ FinishEnds
=============================================================================

---------------------------- MODULE UpstreamDial ----------------------------
(***************************************************************************)
(* HTTPProxyDialer.DialContext (pkg/dumbproxy/dialer/upstream.go): connect *)
(* to an upstream proxy, send CONNECT, read its response one byte at a     *)
(* time, and hand the connection over, while a guard goroutine closes the  *)
(* connection if the context ends.  The guard and the dial race until the  *)
(* end, and who wins must be the same for both.                            *)
(***************************************************************************)
EXTENDS Naturals, Sequences, SequencesExt

CONSTANTS
    MaxHead,    \* bound on the bytes of a response before its end
    MaxData     \* bound on the bytes of the tunnel behind it

ASSUME StreamAssumption == MaxHead \in Nat /\ MaxData \in Nat

\* What the upstream sends: a response, whose last byte completes \r\n\r\n, and
\* what comes through the tunnel.
Bytes == {"head", "end", "data"}

VARIABLES
    pc,         \* dial, write, read, check, stop, await, done
    result,     \* none, conn or error
    conn,       \* none, open or closed
    cancelled,  \* the context has ended
    stop,       \* stopGuardEvent is closed
    guard,      \* none, waiting, closing, gone
    guardErr,   \* the channel: empty, closed, or it holds the context's error
    resp,       \* respBuf
    unread,     \* bytes on the connection, not read yet
    sent,       \* history: all that the upstream has sent
    peer        \* the upstream: silent (it does not take bytes), up, gone

caller == <<pc, result, conn, stop, guard, guardErr>>
stream == <<resp, unread, sent>>
vars == <<caller, cancelled, stream, peer>>

Init == /\ pc = "dial" /\ result = "none" /\ conn = "none"
        /\ cancelled = FALSE /\ stop = FALSE /\ guard = "none" /\ guardErr = "empty"
        /\ resp = <<>> /\ unread = <<>> /\ sent = <<>>
        /\ peer = "silent"

-----------------------------------------------------------------------------
(* The dial.                                                               *)

Connect ==
    /\ pc = "dial" /\ peer # "gone"
    /\ conn' = "open" /\ guard' = "waiting" /\ pc' = "write"
    /\ UNCHANGED <<result, stop, guardErr, cancelled, stream, peer>>

ConnectFails ==
    /\ pc = "dial"
    /\ peer = "gone" \/ cancelled
    /\ pc' = "done" /\ result' = "error"
    /\ UNCHANGED <<conn, stop, guard, guardErr, cancelled, stream, peer>>

\* conn.Close, return an error, and the deferred stopGuard.
Fail == /\ pc' = "done" /\ result' = "error" /\ conn' = "closed" /\ stop' = TRUE
        /\ UNCHANGED <<guard, guardErr>>

\* The request, and the handshake of TLS with it.
Write ==
    /\ pc = "write"
    /\ \/ /\ conn = "open" /\ peer = "up"
          /\ pc' = "read"
          /\ UNCHANGED <<result, conn, stop, guard, guardErr>>
       \/ /\ conn = "closed" \/ peer = "gone"
          /\ Fail
    /\ UNCHANGED <<cancelled, stream, peer>>

\* One byte, until the buffer ends with \r\n\r\n.
ReadByte ==
    /\ pc = "read" /\ conn = "open" /\ unread # <<>>
    /\ resp' = Append(resp, Head(unread))
    /\ unread' = Tail(unread)
    /\ pc' = IF Head(unread) = "end" THEN "check" ELSE "read"
    /\ UNCHANGED <<result, conn, stop, guard, guardErr, cancelled, sent, peer>>

ReadFails ==
    /\ pc = "read"
    /\ conn = "closed" \/ (unread = <<>> /\ peer = "gone")
    /\ Fail
    /\ UNCHANGED <<cancelled, stream, peer>>

\* The response does not parse, or is not 200; or it is, and stopGuard follows.
Check ==
    /\ pc = "check"
    /\ \/ Fail
       \/ /\ pc' = "await" /\ stop' = TRUE
          /\ UNCHANGED <<result, conn, guard, guardErr>>
    /\ UNCHANGED <<cancelled, stream, peer>>

\* A slip: the guard was told to stop, so the connection is returned.
AwaitNobody ==
    /\ pc = "await"
    /\ pc' = "done" /\ result' = "conn"
    /\ UNCHANGED <<conn, stop, guard, guardErr, cancelled, stream, peer>>

\* What the guard did: it stopped, or it has closed the connection.
Await ==
    /\ pc = "await" /\ guardErr # "empty"
    /\ pc' = "done"
    /\ result' = IF guardErr = "closed" THEN "conn" ELSE "error"
    /\ UNCHANGED <<conn, stop, guard, guardErr, cancelled, stream, peer>>

-----------------------------------------------------------------------------
(* The guard: select takes either branch when both are ready.              *)

GuardStops ==
    /\ guard = "waiting" /\ stop
    /\ guard' = "gone" /\ guardErr' = "closed"
    /\ UNCHANGED <<pc, result, conn, stop, cancelled, stream, peer>>

\* A slip: the connection is not closed, and a blocked read goes on.
GuardWarns ==
    /\ guard = "waiting" /\ cancelled
    /\ guard' = "closing"
    /\ UNCHANGED <<pc, result, conn, stop, guardErr, cancelled, stream, peer>>

GuardCloses ==
    /\ guard = "waiting" /\ cancelled
    /\ guard' = "closing" /\ conn' = "closed"
    /\ UNCHANGED <<pc, result, stop, guardErr, cancelled, stream, peer>>

GuardReports ==
    /\ guard = "closing"
    /\ guard' = "gone" /\ guardErr' = "error"
    /\ UNCHANGED <<pc, result, conn, stop, cancelled, stream, peer>>

-----------------------------------------------------------------------------
(* The world: the context, and the upstream, which may answer or not.      *)

\* The client goes away, before or after the dial is over.
CancelContext ==
    /\ ~cancelled
    /\ cancelled' = TRUE
    /\ UNCHANGED <<caller, stream, peer>>

\* The upstream begins to take bytes, or drops the connection.
PeerChanges ==
    /\ \/ peer = "silent" /\ peer' = "up"
       \/ peer # "gone" /\ peer' = "gone"
    /\ UNCHANGED <<caller, cancelled, stream>>

\* A byte of the response, its end, or, behind that, a byte of the tunnel.
PeerSends ==
    /\ peer = "up" /\ conn # "none" /\ pc \notin {"dial", "write"}
    /\ \E b \in Bytes :
         /\ b = "data" <=> Contains(sent, "end")
         /\ b = "head" => Len(sent) < MaxHead
         /\ b = "data" => Len(SelectSeq(sent, LAMBDA c : c = "data")) < MaxData
         /\ sent' = Append(sent, b) /\ unread' = Append(unread, b)
    /\ UNCHANGED <<caller, cancelled, resp, peer>>

Dialer == ConnectFails \/ Write \/ ReadByte \/ ReadFails \/ Check \/ Await
Guard == GuardStops \/ GuardCloses \/ GuardReports
World == Connect \/ CancelContext \/ PeerChanges \/ PeerSends

Next == Dialer \/ Guard \/ World

\* Goroutines that can go on do; the world owes nothing.
Spec == Init /\ [][Next]_vars /\ WF_vars(Dialer) /\ WF_vars(Guard)

-----------------------------------------------------------------------------
(* What the caller may rely on.                                            *)

\* upstream.go:141-145: a connection that is returned is open, and the guard,
\* which would close it when the request ends, is gone.
ReturnedIsOpen == result = "conn" => conn = "open" /\ guard = "gone"

\* upstream.go:124-144: with an error, no connection is left open.
ErrorLeavesNothing == result = "error" => conn # "open"

\* upstream.go:152-167: the response is read to its end and not a byte further,
\* whatever else has arrived by then: the tunnel loses nothing.
TunnelUntouched ==
    result = "conn" => /\ sent = resp \o unread
                       /\ Last(resp) = "end"
                       /\ ~Contains(resp, "data")

\* What the caller gets: a connection that is its own and has lost nothing, or an
\* error and nothing else.
HandedOver == ReturnedIsOpen /\ ErrorLeavesNothing /\ TunnelUntouched

\* upstream.go:105-107: when the context ends the dial ends, even if it was
\* writing to or reading from an upstream that does nothing.
CancelReturns == cancelled ~> pc = "done"

\* upstream.go:100, 116: the guard does not outlive the dial for long.
GuardEnds == (pc = "done" /\ guard # "none") ~> guard = "gone"

\* The end of the context ends the dial and, in turn, its guard.
DialEnds == CancelReturns /\ GuardEnds
=============================================================================

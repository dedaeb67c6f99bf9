---------------------------- MODULE WrappedDial -----------------------------
(***************************************************************************)
(* wrappedDialer.DialContext (pkg/dumbproxy/dialer/dialer.go): a dialer    *)
(* without contexts runs in a goroutine, and the caller waits for it or    *)
(* for the end of the context.  Both assign to conn and err, without a     *)
(* lock: an assignment of the goroutine to both is two writes, in either   *)
(* order, and the caller's return reads both.                              *)
(***************************************************************************)
VARIABLES
    dialStep,   \* the goroutine: dialling, storing, closing, checking, gone
    dialled,    \* what Dial returned: none, ok, fails
    unstored,   \* the variables the goroutine has not written yet
    socket,     \* the connection: none, open, closed
    connVar,    \* conn: nil, conn
    errVar,     \* err: nil, dial, ctx
    doneClosed, \* the channel done
    waitStep,   \* the caller: select, returning, returned
    ctxDone,    \* the context has ended
    returned    \* the pair the caller returned

goroutine == <<dialStep, dialled, unstored, socket, doneClosed>>
wrapVars == <<goroutine, connVar, errVar, waitStep, ctxDone, returned>>

WrapInit == /\ dialStep = "dialling" /\ dialled = "none" /\ unstored = {"conn", "err"}
            /\ socket = "none" /\ connVar = "nil" /\ errVar = "nil" /\ doneClosed = FALSE
            /\ waitStep = "select" /\ ctxDone = FALSE /\ returned = <<"nil", "nil">>

LegacyDial ==
    /\ dialStep = "dialling"
    /\ \/ dialled' = "ok" /\ socket' = "open"
       \/ dialled' = "fails" /\ UNCHANGED socket
    /\ dialStep' = "storing"
    /\ UNCHANGED <<unstored, connVar, errVar, doneClosed, waitStep, ctxDone, returned>>

Store(v) ==
    /\ dialStep = "storing" /\ v \in unstored
    /\ unstored' = unstored \ {v}
    /\ IF v = "conn"
       THEN connVar' = (IF dialled = "ok" THEN "conn" ELSE "nil") /\ UNCHANGED errVar
       ELSE errVar' = (IF dialled = "ok" THEN "nil" ELSE "dial") /\ UNCHANGED connVar
    /\ dialStep' = IF unstored' = {} THEN "closing" ELSE "storing"
    /\ UNCHANGED <<dialled, socket, doneClosed, waitStep, ctxDone, returned>>

\* A slip: done is closed before the result is there.
CloseDoneEarly ==
    /\ dialStep \in {"storing", "closing"} /\ ~doneClosed
    /\ doneClosed' = TRUE
    /\ dialStep' = IF dialStep = "closing" THEN "checking" ELSE dialStep
    /\ UNCHANGED <<dialled, unstored, socket, connVar, errVar, waitStep, ctxDone, returned>>

CloseDialDone ==
    /\ dialStep = "closing"
    /\ doneClosed' = TRUE /\ dialStep' = "checking"
    /\ UNCHANGED <<dialled, unstored, socket, connVar, errVar, waitStep, ctxDone, returned>>

\* The goroutine's last statement: it takes the end of the context for the caller's
\* having left.
CheckContext ==
    /\ dialStep = "checking"
    /\ socket' = IF connVar # "nil" /\ ctxDone THEN "closed" ELSE socket
    /\ dialStep' = "gone"
    /\ UNCHANGED <<dialled, unstored, connVar, errVar, doneClosed, waitStep, ctxDone, returned>>

\* select: either case, if both are ready.
Select ==
    /\ waitStep = "select"
    /\ \/ ctxDone /\ errVar' = "ctx"
       \/ doneClosed /\ UNCHANGED errVar
    /\ waitStep' = "returning"
    /\ UNCHANGED <<goroutine, connVar, ctxDone, returned>>

Return ==
    /\ waitStep = "returning"
    /\ returned' = <<connVar, errVar>>
    /\ waitStep' = "returned"
    /\ UNCHANGED <<goroutine, connVar, errVar, ctxDone>>

EndContext ==
    /\ ~ctxDone
    /\ ctxDone' = TRUE
    /\ UNCHANGED <<goroutine, connVar, errVar, waitStep, returned>>

WrapGoroutine == LegacyDial \/ (\E v \in {"conn", "err"} : Store(v)) \/ CloseDialDone
                 \/ CheckContext
WrapNext == WrapGoroutine \/ Select \/ Return \/ EndContext

WrapSpec == WrapInit /\ [][WrapNext]_wrapVars

-----------------------------------------------------------------------------

\* dialer.go:64-83: while the context lives, the caller has what Dial returned, whole,
\* and the connection is open.  (Once it has ended the caller may have anything: both,
\* neither, or a connection that is closed under it.)
WholeResult ==
    (waitStep = "returned" /\ ~ctxDone) =>
        \/ dialled = "ok" /\ returned = <<"conn", "nil">> /\ socket = "open"
        \/ dialled = "fails" /\ returned = <<"nil", "dial">>

\* dialer.go:74-76: a connection nobody was given is closed by the goroutine that made it.
NoStrayConn ==
    (waitStep = "returned" /\ returned[1] = "nil" /\ dialStep = "gone") => socket # "open"

\* Two goroutines without a lock, and still: a whole result, or none and nothing open.
WrappedSound == WholeResult /\ NoStrayConn
=============================================================================

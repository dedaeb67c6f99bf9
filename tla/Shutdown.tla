------------------------------- MODULE Shutdown -------------------------------
(***************************************************************************)
(* How the dumbproxy program serves and stops in its three listening modes:   *)
(* the main goroutine in Serve, the goroutine that waits for the signal, the  *)
(* connections, and the closing of what run() has opened, last opened first.  *)
(* A plain request is one Shutdown waits for; a tunnel is hijacked or of a    *)
(* mode that keeps no list of its connections.  Contexts are children of the  *)
(* signal's: what is under way is aborted when it comes, and the handler of a *)
(* plain request then still has to return.                                    *)
(***************************************************************************)
EXTENDS Naturals, Sequences, FiniteSets

CONSTANT Visitors

Modes == {"http", "socks", "forward"}

VARIABLES
  mode,      \* the mode, or "none" before it is chosen
  stopped,   \* the signal has come: stopContext is done
  listener,  \* "open" or "closed"
  serving,   \* the accept loop: "runs", "closed" (ErrServerClosed, ErrClosed) or "failed"
  watcher,   \* the goroutine of the signal: "waits", "grace" or "complete"
  graceOver, \* the shutdown context has ended
  visit,     \* visit[v]: "away", "plain", "tunnel", "aborted" (a plain request whose
             \* context has ended), "over", "cut" (a tunnel), or "lost" by the exit
  toClose,   \* what run()'s deferred calls still have to close
  code       \* run()'s result, 2 while there is none
shutVars == <<mode, stopped, listener, serving, watcher, graceOver, visit, toClose,
              code>>

ShutInit ==
  /\ mode = "none" /\ stopped = FALSE /\ listener = "open" /\ serving = "runs"
  /\ watcher = "waits" /\ graceOver = FALSE
  /\ visit = [v \in Visitors |-> "away"]
  /\ toClose = <<"listener", "certCache", "auth", "log">> /\ code = 2

ChooseMode ==
  /\ mode = "none" /\ mode' \in Modes
  /\ UNCHANGED <<stopped, listener, serving, watcher, graceOver, visit, toClose, code>>

\* A connection is accepted and served by a goroutine of its own.
Accept(v) ==
  /\ mode # "none" /\ serving = "runs" /\ listener = "open" /\ visit[v] = "away"
  /\ \/ visit' = [visit EXCEPT ![v] = "tunnel"]
     \/ mode = "http" /\ visit' = [visit EXCEPT ![v] = "plain"]
  /\ UNCHANGED <<mode, stopped, listener, serving, watcher, graceOver, toClose, code>>

\* BaseContext: the signal ends the context of a plain request or of a tunnel, which
\* gives up.  (A SOCKS connection has a context of the library's.)
ContextEnds(v) ==
  /\ stopped /\ mode # "socks" /\ toClose # <<>>
  /\ \/ visit[v] = "plain"  /\ visit' = [visit EXCEPT ![v] = "aborted"]
     \/ visit[v] = "tunnel" /\ visit' = [visit EXCEPT ![v] = "cut"]
  /\ UNCHANGED <<mode, stopped, listener, serving, watcher, graceOver, toClose, code>>

\* Its handler returns.
VisitEnds(v) ==
  /\ visit[v] \in {"plain", "tunnel", "aborted"} /\ toClose # <<>>
  /\ visit' = [visit EXCEPT ![v] = "over"]
  /\ UNCHANGED <<mode, stopped, listener, serving, watcher, graceOver, toClose, code>>

Signal ==
  /\ mode # "none" /\ ~stopped /\ stopped' = TRUE
  /\ UNCHANGED <<mode, listener, serving, watcher, graceOver, visit, toClose, code>>

\* A slip: the listener of the other modes stays open.
WatcherForgets ==
  /\ stopped /\ watcher = "waits" /\ code = 2
  /\ listener' = IF mode = "http" THEN "closed" ELSE listener
  /\ watcher' = IF mode = "http" THEN "grace" ELSE "complete"
  /\ UNCHANGED <<mode, stopped, serving, graceOver, visit, toClose, code>>

\* The watcher wakes: Shutdown closes the listener first and goes on to wait; in
\* the other modes closing the listener is all.
WatcherWakes ==
  /\ stopped /\ watcher = "waits" /\ code = 2
  /\ listener' = "closed"
  /\ watcher' = IF mode = "http" THEN "grace" ELSE "complete"
  /\ UNCHANGED <<mode, stopped, serving, graceOver, visit, toClose, code>>

GraceEnds ==
  /\ watcher = "grace" /\ ~graceOver /\ graceOver' = TRUE
  /\ UNCHANGED <<mode, stopped, listener, serving, watcher, visit, toClose, code>>

\* Shutdown knows the connections whose handlers have not returned.
InHandler == {"plain", "aborted"}

\* Shutdown returns, and shutdownComplete is closed.
ShutdownReturns ==
  /\ watcher = "grace"
  /\ graceOver \/ \A v \in Visitors : visit[v] \notin InHandler
  /\ watcher' = "complete"
  /\ UNCHANGED <<mode, stopped, listener, serving, graceOver, visit, toClose, code>>

\* The accept loop ends: the listener is closed, or accepting fails.
ServeReturns ==
  /\ mode # "none" /\ serving = "runs"
  /\ serving' = IF listener = "closed" THEN "closed" ELSE "failed"
  /\ UNCHANGED <<mode, stopped, listener, watcher, graceOver, visit, toClose, code>>

\* A slip: run() goes on when Serve has returned.
MayReturnAtOnce == serving # "runs"
\* After a Shutdown run() waits for it to be over; Serve returns before that.
MayReturn == \/ serving = "failed"
             \/ serving = "closed" /\ (mode = "http" => watcher = "complete")

\* return 0, also in the HTTP mode when accepting failed.
RunReturns ==
  /\ code = 2 /\ MayReturn
  /\ code' = IF serving = "failed" /\ mode # "http" THEN 1 ELSE 0
  /\ UNCHANGED <<mode, stopped, listener, serving, watcher, graceOver, visit, toClose>>

\* The deferred calls; after the last the process exits with whatever is open.
CloseNext ==
  /\ code # 2 /\ toClose # <<>>
  /\ toClose' = Tail(toClose)
  /\ listener' = IF Head(toClose) = "listener" THEN "closed" ELSE listener
  /\ visit' = IF Len(toClose) > 1 THEN visit
              ELSE [v \in Visitors |-> CASE visit[v] \in InHandler -> "lost"
                                          [] visit[v] = "tunnel"   -> "cut"
                                          [] OTHER                 -> visit[v]]
  /\ UNCHANGED <<mode, stopped, serving, watcher, graceOver, code>>

ShutNext ==
  \/ ChooseMode \/ Signal \/ WatcherWakes \/ GraceEnds \/ ShutdownReturns
  \/ ServeReturns \/ RunReturns \/ CloseNext
  \/ \E v \in Visitors : Accept(v) \/ ContextEnds(v) \/ VisitEnds(v)
ShutSpec == ShutInit /\ [][ShutNext]_shutVars

\* Accepting fails or not; a closed listener ends it.
ServeClosed == listener = "closed" /\ ServeReturns

----------------------------------------------------------------------------
\* main.go:876-893: run() closes what handlers use, and the program exits, only when
\* every handler of a plain request has returned or the grace period is over, although
\* Serve returns, and another goroutine waits, before that.  (Tunnels are cut: Shutdown
\* does not know them.)
HandlersFirst ==
  serving = "closed" /\ mode = "http" /\ ~graceOver /\ code # 2
    => \A v \in Visitors : visit[v] \notin InHandler \cup {"lost"}

\* main.go:488, "grace period during server shutdown": a plain request has that time to
\* end by itself.  The code gives the grace to its handler only.
RequestsHaveGrace == ~graceOver => \A v \in Visitors : visit[v] # "aborted"

\* A signal ends the program in each mode, however long the connections last.
StopEnds == stopped ~> toClose = <<>>
=============================================================================

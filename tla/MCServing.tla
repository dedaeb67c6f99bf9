------------------------------ MODULE MCServing ------------------------------
(***************************************************************************)
(* What the proxy keeps while it serves, for TLC: the map of its own          *)
(* connections, the limiters of its streams and the limiter they use, the     *)
(* chain of authentication, reloaded files, cached certificates, the source   *)
(* addresses of a dial, serial numbers and the log.  They share no state, so  *)
(* each is explored by itself, with the others at rest.                       *)
(***************************************************************************)
EXTENDS RateLimiter, Loopback, BWLimit, AuthChain, CertCache, FileReload, BoundDial, Serials,
        LogWriter

VARIABLE under   \* the component that is looked at

\* Where a module starts in many ways, one of them to rest in.
AuthAtRest ==
  /\ kind = [p \in Positions |-> "none"] /\ orElse = [p \in Positions |-> 0]
  /\ next = orElse /\ hides = [p \in Positions |-> FALSE]
  /\ tells = [p \in Positions |-> "wrong"] /\ sends = [p \in Positions |-> 403]
  /\ header = FALSE /\ onHidden = "no" /\ cert = "none"
  /\ at = 1 /\ answers = <<>> /\ admitted = FALSE
FilesAtRest == FileInit /\ provider = "basic" /\ option = "off"

MCInit ==
  /\ under \in {"limiter", "loopback", "limit", "auth", "certs", "files", "bound",
               "serials", "log"}
  /\ Init
  /\ LoopInit
  /\ BWInit
  /\ IF under = "auth" THEN AuthInit ELSE AuthAtRest
  /\ CertInit
  /\ IF under = "files" THEN FileInit ELSE FilesAtRest
  /\ BoundInit
  /\ SerialInit
  /\ LogInit

MCNext ==
  /\ UNCHANGED under
  /\ \/ under = "limiter" /\ Next
        /\ UNCHANGED <<loopVars, bwVars, authVars, certVars,
                        fileVars, boundVars, serialVars, logVars>>
     \/ under = "loopback" /\ LoopNext
        /\ UNCHANGED <<vars, bwVars, authVars, certVars,
                        fileVars, boundVars, serialVars, logVars>>
     \/ under = "limit" /\ BWNext
        /\ UNCHANGED <<vars, loopVars, authVars, certVars,
                        fileVars, boundVars, serialVars, logVars>>
     \/ under = "auth" /\ AuthNext
        /\ UNCHANGED <<vars, loopVars, bwVars, certVars,
                        fileVars, boundVars, serialVars, logVars>>
     \/ under = "certs" /\ CertNext
        /\ UNCHANGED <<vars, loopVars, bwVars, authVars,
                        fileVars, boundVars, serialVars, logVars>>
     \/ under = "files" /\ FileNext
        /\ UNCHANGED <<vars, loopVars, bwVars, authVars,
                        certVars, boundVars, serialVars, logVars>>
     \/ under = "bound" /\ BoundNext
        /\ UNCHANGED <<vars, loopVars, bwVars, authVars,
                        certVars, fileVars, serialVars, logVars>>
     \/ under = "serials" /\ SerialNext
        /\ UNCHANGED <<vars, loopVars, bwVars, authVars,
                        certVars, fileVars, boundVars, logVars>>
     \/ under = "log" /\ LogNext
        /\ UNCHANGED <<vars, loopVars, bwVars, authVars,
                        certVars, fileVars, boundVars, serialVars>>

MCVars == <<under, vars, loopVars, bwVars, authVars, certVars,
            fileVars, boundVars, serialVars, logVars>>

MCSpec == MCInit /\ [][MCNext]_MCVars
==============================================================================

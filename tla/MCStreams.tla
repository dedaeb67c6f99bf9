------------------------------ MODULE MCStreams ------------------------------
(***************************************************************************)
(* Streams and requests under way, for TLC: the tunnel, plain requests  *)
(* and the end of the program.  They share no state, so each is explored by   *)
(* itself, with the others at rest.                                           *)
(***************************************************************************)
EXTENDS Tunnel, PlainRequest, Shutdown

VARIABLE under   \* the component that is looked at

MCInit ==
  /\ under \in {"tunnel", "plain", "shutdown"}
  /\ IF under = "tunnel" THEN Init ELSE Init /\ version = 1
  /\ IF under = "plain" THEN PlainInit ELSE PlainInit /\ h2 /\ upSized
  /\ ShutInit

MCNext ==
  /\ UNCHANGED under
  /\ \/ under = "tunnel" /\ Next
        /\ UNCHANGED <<plainVars, shutVars>>
     \/ under = "plain" /\ PlainNext
        /\ UNCHANGED <<vars, shutVars>>
     \/ under = "shutdown" /\ ShutNext
        /\ UNCHANGED <<vars, plainVars>>

MCVars == <<under, vars, plainVars, shutVars>>

\* The fairness of each module, for the one that is looked at.
TunnelFair ==
  /\ WF_vars(under = "tunnel" /\ Handler)
  /\ WF_vars(under = "tunnel" /\ cancelled /\ (Dial \/ DialFails))
  /\ \A s \in Sides : WF_vars(under = "tunnel" /\ Copier(s))
\* Clients and targets: what they have begun they finish, or they break off.
PlainFair ==
  /\ WF_plainVars(under = "plain" /\ (Offer \/ AnswerWhole))
  /\ WF_plainVars(under = "plain" /\ (TakeChunk \/ EndFlow))
  /\ WF_plainVars(under = "plain" /\ (SendChunk \/ SendEnd))
  /\ WF_plainVars(under = "plain" /\ DialTarget)
  /\ WF_plainVars(under = "plain" /\ AnswerBody)
  /\ WF_plainVars(under = "plain" /\ FailRequest)
  /\ WF_plainVars(under = "plain" /\ (RelayHead \/ RelayChunk \/ RelayOver))
ShutFair ==
  /\ WF_shutVars(under = "shutdown" /\ WatcherWakes)
  /\ WF_shutVars(under = "shutdown" /\ (GraceEnds \/ ShutdownReturns))
  /\ WF_shutVars(under = "shutdown" /\ ServeClosed)
  /\ WF_shutVars(under = "shutdown" /\ (RunReturns \/ CloseNext))

MCSpec == MCInit /\ [][MCNext]_MCVars /\ TunnelFair /\ PlainFair /\ ShutFair
==============================================================================

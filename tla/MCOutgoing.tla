------------------------------ MODULE MCOutgoing ------------------------------
(***************************************************************************)
(* What goes out of the proxy, for TLC: the dialers, the pool of HTTP/2       *)
(* connections, the cache of names and the scripts.  They share no state, so  *)
(* each is explored by itself, with the others at rest: what they reach side  *)
(* by side is the product of what each reaches alone.                         *)
(***************************************************************************)
EXTENDS UpstreamDial, H2Pool, OptimisticConn, WrappedDial, CommandConn, NameCache,
        ScriptedDial

VARIABLE under   \* the component that is looked at

MCInit ==
  /\ under \in {"connect", "pool", "optimistic", "wrapped", "command", "names",
               "scripts"}
  /\ Init
  /\ PoolInit
  /\ OptInit
  /\ WrapInit
  /\ CmdInit
  /\ NameInit
  /\ ScriptInit

MCNext ==
  /\ UNCHANGED under
  /\ \/ under = "connect" /\ Next
        /\ UNCHANGED <<poolVars, optVars, wrapVars, cmdVars,
                        nameVars, scriptVars>>
     \/ under = "pool" /\ PoolNext
        /\ UNCHANGED <<vars, optVars, wrapVars, cmdVars, nameVars,
                        scriptVars>>
     \/ under = "optimistic" /\ OptNext
        /\ UNCHANGED <<vars, poolVars, wrapVars, cmdVars,
                        nameVars, scriptVars>>
     \/ under = "wrapped" /\ WrapNext
        /\ UNCHANGED <<vars, poolVars, optVars, cmdVars, nameVars,
                        scriptVars>>
     \/ under = "command" /\ CmdNext
        /\ UNCHANGED <<vars, poolVars, optVars, wrapVars,
                        nameVars, scriptVars>>
     \/ under = "names" /\ NameNext
        /\ UNCHANGED <<vars, poolVars, optVars, wrapVars, cmdVars,
                        scriptVars>>
     \/ under = "scripts" /\ ScriptNext
        /\ UNCHANGED <<vars, poolVars, optVars, wrapVars, cmdVars,
                        nameVars>>

MCVars == <<under, vars, poolVars, optVars, wrapVars, cmdVars, nameVars,
            scriptVars>>

\* The fairness of each module, for the one that is looked at.
ConnectFair == /\ WF_vars(under = "connect" /\ Dialer)
               /\ WF_vars(under = "connect" /\ Guard)
PoolFair ==
  /\ \A s \in Streams : WF_poolVars(under = "pool" /\ CallDone(s))
  /\ \A k \in Calls : WF_poolVars(under = "pool" /\ (EndDial(k) \/ CloseDone(k)))
  /\ \A k \in Calls : WF_poolVars(under = "pool" /\ PrepareGivesUp(k))
CmdFair == /\ WF_cmdVars(under = "command" /\ EndReading)
           /\ WF_cmdVars(under = "command" /\ WaitReturns)
           /\ WF_cmdVars(under = "command" /\ killed /\ CommandExits)
NameFair == /\ WF_nameVars(under = "names" /\ NameTick)
            /\ WF_nameVars(under = "names" /\ Flight)
            /\ \A c \in Dialers : WF_nameVars(under = "names" /\ Share(c))
            /\ \A l \in Losers : WF_nameVars(under = "names" /\ LoserLeaves(l))
ScriptFair == \A r \in Requests : WF_scriptVars(under = "scripts" /\ Proceeds(r))

MCSpec == MCInit /\ [][MCNext]_MCVars /\ ConnectFair /\ PoolFair /\ CmdFair
          /\ NameFair /\ ScriptFair
==============================================================================

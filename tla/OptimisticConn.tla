--------------------------- MODULE OptimisticConn ---------------------------
(***************************************************************************)
(* futureH1ProxiedConn (pkg/dumbproxy/dialer/optimistic.go): a connection  *)
(* to an upstream proxy that is handed out before CONNECT is sent.  The    *)
(* first Write sends CONNECT along with its data, the first Read takes the *)
(* answer off the stream.  One goroutine writes, another one reads.        *)
(*                                                                         *)
(* The target may want to speak first: it does so only after CONNECT.      *)
(***************************************************************************)
EXTENDS Naturals, Sequences, SequencesExt

CONSTANT MaxChunks      \* bound on what either side sends

VARIABLES
    wState,     \* first (wDone is not set), done, error (wErr is set)
    rState,     \* first, answer (in readResponse), done, error (rErr is set)
    toProxy,    \* history: what the upstream has got: connect, torn, data
    fromProxy,  \* what it has sent and is not read: ok, bad, data
    answered,   \* the upstream's answer: none, ok, bad, gone
    read        \* history: what Read has returned

optVars == <<wState, rState, toProxy, fromProxy, answered, read>>

OptInit == /\ wState = "first" /\ rState = "first"
           /\ toProxy = <<>> /\ fromProxy = <<>>
           /\ answered = "none" /\ read = <<>>

\* A slip: the error of the first write is not kept.
FirstWriteForgets ==
    /\ wState = "first"
    /\ \/ toProxy' = toProxy \o <<"connect", "data">> /\ wState' = "done"
       \/ \E part \in {<<>>, <<"torn">>} : toProxy' = toProxy \o part /\ wState' = "done"
    /\ UNCHANGED <<rState, fromProxy, answered, read>>

\* CONNECT and the data go in one write, which may fail part way.
FirstWrite ==
    /\ wState = "first"
    /\ \/ toProxy' = toProxy \o <<"connect", "data">> /\ wState' = "done"
       \/ \E part \in {<<>>, <<"torn">>} : toProxy' = toProxy \o part /\ wState' = "error"
    /\ UNCHANGED <<rState, fromProxy, answered, read>>

NextWrite ==
    /\ wState = "done" /\ Len(toProxy) <= MaxChunks
    /\ toProxy' = Append(toProxy, "data")
    /\ UNCHANGED <<wState, rState, fromProxy, answered, read>>

StartRead ==
    /\ rState = "first"
    /\ rState' = "answer"
    /\ UNCHANGED <<wState, toProxy, fromProxy, answered, read>>

\* readResponse, which blocks, and the test of the status.
ReadAnswer ==
    /\ rState = "answer"
    /\ \/ /\ fromProxy # <<>>
          /\ fromProxy' = Tail(fromProxy)
          /\ rState' = IF Head(fromProxy) = "ok" THEN "done" ELSE "error"
       \/ /\ fromProxy = <<>> /\ answered = "gone"
          /\ rState' = "error" /\ UNCHANGED fromProxy
    /\ UNCHANGED <<wState, toProxy, answered, read>>

NextRead ==
    /\ rState = "done" /\ fromProxy # <<>>
    /\ read' = Append(read, Head(fromProxy))
    /\ fromProxy' = Tail(fromProxy)
    /\ UNCHANGED <<wState, rState, toProxy, answered>>

\* The upstream answers CONNECT, or closes the connection, as it does when it gets
\* anything else.
Answer200 == /\ answered = "none" /\ toProxy # <<>> /\ Head(toProxy) = "connect"
             /\ answered' = "ok" /\ fromProxy' = Append(fromProxy, "ok")
             /\ UNCHANGED <<wState, rState, toProxy, read>>

AnswerBad == /\ answered = "none" /\ toProxy # <<>>
             /\ answered' = "bad" /\ fromProxy' = <<"bad", "data">>
             /\ UNCHANGED <<wState, rState, toProxy, read>>

AnswerGone == /\ answered = "none" /\ toProxy # <<>>
              /\ answered' = "gone"
              /\ UNCHANGED <<wState, rState, toProxy, fromProxy, read>>

TargetSends == /\ answered = "ok" /\ Len(fromProxy) + Len(read) <= MaxChunks
               /\ fromProxy' = Append(fromProxy, "data")
               /\ UNCHANGED <<wState, rState, toProxy, answered, read>>

OptReader == StartRead \/ ReadAnswer \/ NextRead
OptUpstream == Answer200 \/ AnswerBad \/ AnswerGone
OptNext == FirstWrite \/ NextWrite \/ OptReader \/ OptUpstream \/ TargetSends

OptSpec == OptInit /\ [][OptNext]_optVars

-----------------------------------------------------------------------------

\* optimistic.go:118-140: the upstream gets one CONNECT, before everything else, and
\* nothing at all behind one that it got a part of.
ConnectFirst ==
    \/ toProxy \in {<<>>, <<"torn">>}
    \/ /\ Head(toProxy) = "connect"
       /\ \A i \in 2..Len(toProxy) : toProxy[i] = "data"

\* optimistic.go:142-154: what the reader gets comes from the target; nothing of the
\* answer does, and nothing that follows a refusal.
TunnelBytesOnly ==
    /\ \A i \in DOMAIN read : read[i] = "data"
    /\ read # <<>> => answered = "ok"

\* Neither end takes CONNECT or its answer for data, nor data for them.
CleanStreams == ConnectFirst /\ TunnelBytesOnly
=============================================================================

---------------------------- MODULE OutgoingProofs ----------------------------
(***************************************************************************)
(* How connections are made, for any number of callers.                    *)
(*                                                                         *)
(* CONNECT over HTTP/1: the dial and its guard agree on who has the        *)
(* connection (Agreement), and what was read of the response and what is   *)
(* left are together what was sent (Lossless).                             *)
(*                                                                         *)
(* Scripts: an interpreter is in one hand at a time and is never lost, and *)
(* a connection goes where the access script let it go. The second needs   *)
(* the way from the answer to the connection: the address that is routed   *)
(* and dialled is still the one that was asked about (Asked).              *)
(*                                                                         *)
(* An optimistic connection: the states of its writer and of its reader    *)
(* say which bytes are CONNECT's and which are data (Written, Unread).     *)
(*                                                                         *)
(* A dialer without contexts: what its goroutine has stored goes with how  *)
(* far it is (Stored), and the connection is somebody's (SocketKept).      *)
(*                                                                         *)
(* Names: an entry's age and the time it has left are together at most the *)
(* time it may live and the time a lookup may take (EntryAges); a lookup   *)
(* fails when it has heard every resolver fail (CountInv).                 *)
(***************************************************************************)
EXTENDS UpstreamDial, ScriptedDial, OptimisticConn, WrappedDial, NameCache, TLAPS,
        SequenceTheorems, FiniteSetTheorems

-----------------------------------------------------------------------------
(* CONNECT over HTTP/1.                                                    *)

\* What the guard and its channel say of the connection and of the dial.
Agreement ==
    /\ conn \in {"none", "open", "closed"}
    /\ pc = "dial" => conn = "none"
    /\ pc \notin {"dial", "done"} => conn # "none"
    /\ conn = "none" => guard = "none" /\ guardErr = "empty" /\ result # "conn"
    /\ conn # "none" => guard # "none"
    /\ stop => pc \in {"await", "done"}
    /\ result # "none" => pc = "done"
    /\ guard = "waiting" => guardErr = "empty"
    /\ guard = "waiting" /\ pc # "done" => conn = "open"
    /\ guard = "closing" => guardErr = "empty" /\ conn = "closed"
    /\ guardErr = "error" => guard = "gone" /\ conn = "closed"
    /\ guardErr = "closed" => guard = "gone" /\ stop
    /\ guardErr = "closed" /\ pc = "await" => conn = "open"
    /\ guardErr \in {"empty", "closed", "error"}
    /\ result = "conn" => guardErr = "closed" /\ conn = "open"
    /\ result = "error" => conn # "open"

\* What the upstream sends is a response and, behind its end, the tunnel; what is in
\* the buffer is the response or a first part of it.
Lossless ==
    /\ pc \in {"dial", "write", "read", "check", "await", "done"}
    /\ resp \in Seq(Bytes) /\ unread \in Seq(Bytes) /\ sent \in Seq(Bytes)
    /\ Len(sent) = Len(resp) + Len(unread)
    /\ \A i \in 1..Len(resp) : sent[i] = resp[i]
    /\ \A i \in 1..Len(unread) : sent[Len(resp) + i] = unread[i]
    /\ \A i \in 1..Len(sent) : sent[i] = "data" => \E j \in 1..(i - 1) : sent[j] = "end"
    /\ pc \in {"dial", "write", "read"} => \A i \in 1..Len(resp) : resp[i] = "head"
    /\ (pc \in {"check", "await"} \/ result = "conn") =>
          /\ Len(resp) > 0 /\ resp[Len(resp)] = "end"
          /\ \A i \in 1..Len(resp) : resp[i] # "data"
    /\ result = "conn" => pc = "done"

LEMMA Starts == Init => Agreement
BY DEF Init, Agreement

\* The dial's steps.
LEMMA DialerAgrees == Agreement /\ (Connect \/ Dialer) => Agreement'
<1> SUFFICES ASSUME Agreement, Connect \/ Dialer PROVE Agreement'
  OBVIOUS
<1>1. CASE Connect
  BY <1>1 DEF Connect, Agreement
<1>2. CASE ConnectFails
  BY <1>2 DEF ConnectFails, Agreement
<1>3. CASE Write
  BY <1>3 DEF Write, Fail, Agreement
<1>4. CASE ReadByte
  <2>1. /\ pc = "read" /\ pc' \in {"check", "read"}
        /\ UNCHANGED <<result, conn, stop, guard, guardErr>>
    BY <1>4 DEF ReadByte
  <2> QED BY <2>1 DEF Agreement
<1>5. CASE ReadFails
  <2>1. pc = "read" /\ Fail
    BY <1>5 DEF ReadFails
  <2> QED BY <2>1 DEF Fail, Agreement
<1>6. CASE Check
  BY <1>6 DEF Check, Fail, Agreement
<1>7. CASE Await
  BY <1>7 DEF Await, Agreement
<1> QED BY <1>1, <1>2, <1>3, <1>4, <1>5, <1>6, <1>7 DEF Dialer

\* The guard's: it closes the connection only if it says so.
LEMMA GuardAgrees == Agreement /\ Guard => Agreement'
<1> SUFFICES ASSUME Agreement, Guard PROVE Agreement'
  OBVIOUS
<1>1. CASE GuardStops
  BY <1>1 DEF GuardStops, Agreement
<1>2. CASE GuardCloses
  BY <1>2 DEF GuardCloses, Agreement
<1>3. CASE GuardReports
  BY <1>3 DEF GuardReports, Agreement
<1> QED BY <1>1, <1>2, <1>3 DEF Guard

\* Only ReadByte, PeerSends and the turns of the dial change what Lossless speaks of.
LEMMA StaysLossless ==
    ASSUME Lossless, UNCHANGED stream,
           \/ UNCHANGED <<pc, result>>
           \/ pc = "dial" /\ pc' = "write" /\ UNCHANGED result
           \/ pc = "write" /\ pc' = "read" /\ UNCHANGED result
           \/ pc = "check" /\ pc' = "await" /\ UNCHANGED result
           \/ pc = "await" /\ pc' = "done"
           \/ pc' = "done" /\ result' = "error"
    PROVE  Lossless'
BY DEF Lossless, stream

LEMMA ReadIsLossless == ASSUME Lossless, Agreement, ReadByte PROVE Lossless'
<1> DEFINE b == Head(unread)
<1>1. /\ pc = "read" /\ unread # <<>> /\ resp' = Append(resp, b) /\ unread' = Tail(unread)
      /\ pc' = (IF b = "end" THEN "check" ELSE "read") /\ UNCHANGED <<result, sent>>
      /\ result # "conn"
  BY DEF ReadByte, Agreement
<1>2. /\ resp \in Seq(Bytes) /\ unread \in Seq(Bytes) /\ sent \in Seq(Bytes)
      /\ b \in Bytes /\ b = unread[1] /\ Len(unread) > 0
  BY <1>1 DEF Lossless
<1>3. /\ Len(resp') = Len(resp) + 1 /\ Len(unread') = Len(unread) - 1
      /\ \A i \in 1..Len(resp) : resp'[i] = resp[i]
      /\ resp'[Len(resp) + 1] = b
      /\ \A i \in 1..Len(unread') : unread'[i] = unread[i + 1]
      /\ resp' \in Seq(Bytes) /\ unread' \in Seq(Bytes) /\ sent' \in Seq(Bytes)
  BY <1>1, <1>2
<1>4. sent[Len(resp) + 1] = b /\ Len(resp) + 1 \in 1..Len(sent)
  BY <1>2 DEF Lossless
<1>5. \A i \in 1..Len(resp) : resp[i] = "head" /\ sent[i] = "head"
  BY <1>1 DEF Lossless
<1>6. b # "data"
  <2> SUFFICES ASSUME b = "data" PROVE FALSE
    OBVIOUS
  <2>1. PICK j \in 1..((Len(resp) + 1) - 1) : sent[j] = "end"
    BY <1>4 DEF Lossless
  <2>2. j \in 1..Len(resp)
    BY <2>1, <1>2
  <2> QED  BY <2>1, <2>2, <1>5
<1>7. /\ Len(sent') = Len(resp') + Len(unread')
      /\ \A i \in 1..Len(resp') : sent'[i] = resp'[i]
  <2>1. Len(sent) = Len(resp) + Len(unread) /\ \A i \in 1..Len(resp) : sent[i] = resp[i]
    BY DEF Lossless
  <2>2. Len(resp) \in Nat /\ Len(unread) \in Nat /\ sent' = sent
    BY <1>1, <1>2
  <2>3. Len(sent') = Len(resp') + Len(unread')
    BY <2>1, <2>2, <1>3
  <2>4. ASSUME NEW i \in 1..Len(resp') PROVE sent[i] = resp'[i]
    <3>1. i \in 1..Len(resp) \/ i = Len(resp) + 1
      BY <2>2, <1>3
    <3> QED  BY <3>1, <2>1, <1>3, <1>4
  <2> QED  BY <2>2, <2>3, <2>4
<1>8. \A i \in 1..Len(unread') : sent'[Len(resp') + i] = unread'[i]
  <2>1. \A i \in 1..Len(unread) : sent[Len(resp) + i] = unread[i]
    BY DEF Lossless
  <2> SUFFICES ASSUME NEW i \in 1..Len(unread') PROVE sent[Len(resp) + (i + 1)] = unread[i + 1]
    BY <1>1, <1>2, <1>3
  <2> QED  BY <2>1, <1>2, <1>3
<1>9. /\ pc' = "read" => \A i \in 1..Len(resp') : resp'[i] = "head"
      /\ pc' = "check" => /\ Len(resp') > 0 /\ resp'[Len(resp')] = "end"
                          /\ \A i \in 1..Len(resp') : resp'[i] # "data"
  BY <1>1, <1>2, <1>3, <1>5, <1>6 DEF Bytes
<1>10. \A i \in 1..Len(sent') : sent'[i] = "data" => \E j \in 1..(i - 1) : sent'[j] = "end"
  BY <1>1 DEF Lossless
<1> QED  BY <1>1, <1>3, <1>7, <1>8, <1>9, <1>10 DEF Lossless

LEMMA SendIsLossless == ASSUME Lossless, PeerSends PROVE Lossless'
<1>1. PICK b \in Bytes : /\ b = "data" <=> Contains(sent, "end")
                         /\ sent' = Append(sent, b) /\ unread' = Append(unread, b)
  BY DEF PeerSends
<1>2. UNCHANGED <<pc, result, resp>>
  BY DEF PeerSends, caller
<1>3. /\ resp \in Seq(Bytes) /\ unread \in Seq(Bytes) /\ sent \in Seq(Bytes)
  BY DEF Lossless
<1>4. /\ Len(sent') = Len(sent) + 1 /\ Len(unread') = Len(unread) + 1
      /\ \A i \in 1..Len(sent) : sent'[i] = sent[i]
      /\ \A i \in 1..Len(unread) : unread'[i] = unread[i]
      /\ sent'[Len(sent) + 1] = b /\ unread'[Len(unread) + 1] = b
      /\ unread' \in Seq(Bytes) /\ sent' \in Seq(Bytes)
  BY <1>1, <1>3
<1>5. /\ Len(sent) = Len(resp) + Len(unread)
      /\ \A i \in 1..Len(resp) : sent[i] = resp[i]
      /\ \A i \in 1..Len(unread) : sent[Len(resp) + i] = unread[i]
      /\ \A i \in 1..Len(sent) : sent[i] = "data" => \E j \in 1..(i - 1) : sent[j] = "end"
  BY DEF Lossless
<1>6. /\ Len(sent') = Len(resp) + Len(unread')
      /\ \A i \in 1..Len(resp) : sent'[i] = resp[i]
  BY <1>3, <1>4, <1>5
<1>7. ASSUME NEW i \in 1..Len(unread') PROVE sent'[Len(resp) + i] = unread'[i]
  <2>1. Len(resp) \in Nat /\ Len(unread) \in Nat /\ Len(sent) \in Nat
    BY <1>3
  <2>2. CASE i \in 1..Len(unread)
    <3>1. Len(resp) + i \in 1..Len(sent)
      BY <2>1, <2>2, <1>5
    <3> QED  BY <3>1, <2>2, <1>4, <1>5
  <2>3. CASE i = Len(unread) + 1
    <3>1. Len(resp) + i = Len(sent) + 1
      BY <2>1, <2>3, <1>5
    <3> QED  BY <3>1, <2>3, <1>4
  <2> QED  BY <2>1, <2>2, <2>3, <1>4
<1>8. \A i \in 1..Len(sent') : sent'[i] = "data" => \E j \in 1..(i - 1) : sent'[j] = "end"
  <2> SUFFICES ASSUME NEW i \in 1..Len(sent'), sent'[i] = "data"
               PROVE  \E j \in 1..(i - 1) : sent'[j] = "end"
    OBVIOUS
  <2>1. CASE i \in 1..Len(sent)
    <3>1. PICK j \in 1..(i - 1) : sent[j] = "end"
      BY <2>1, <1>4, <1>5
    <3>2. Len(sent) \in Nat
      BY <1>3
    <3>3. j \in 1..Len(sent)
      BY <3>1, <3>2, <2>1
    <3>4. sent'[j] = "end"
      BY <3>1, <3>3, <1>4
    <3> QED  BY <3>1, <3>4
  <2>2. CASE i = Len(sent) + 1
    <3>1. PICK j \in 1..Len(sent) : sent[j] = "end"
      BY <2>2, <1>1, <1>4 DEF Contains
    <3>2. Len(sent) \in Nat
      BY <1>3
    <3>3. j \in 1..(i - 1)
      BY <3>1, <3>2, <2>2
    <3>4. sent'[j] = "end"
      BY <3>1, <1>4
    <3> QED  BY <3>3, <3>4
  <2>3. Len(sent) \in Nat
    BY <1>3
  <2> QED  BY <2>1, <2>2, <2>3, <1>4
<1> QED  BY <1>2, <1>3, <1>4, <1>6, <1>7, <1>8 DEF Lossless

LEMMA LosslessStep == Agreement /\ Lossless /\ [Next]_vars => Lossless'
<1> SUFFICES ASSUME Agreement, Lossless, [Next]_vars PROVE Lossless'
  OBVIOUS
<1>1. CASE ReadByte
  BY <1>1, ReadIsLossless
<1>2. CASE PeerSends
  BY <1>2, SendIsLossless
<1>3. CASE ConnectFails \/ Write \/ ReadFails \/ Check \/ Await
  <2>1. UNCHANGED stream
    BY <1>3 DEF ConnectFails, Write, ReadFails, Check, Await
  <2>2. \/ pc = "write" /\ pc' = "read" /\ UNCHANGED result
        \/ pc = "check" /\ pc' = "await" /\ UNCHANGED result
        \/ pc = "await" /\ pc' = "done"
        \/ pc' = "done" /\ result' = "error"
    BY <1>3 DEF ConnectFails, Write, ReadFails, Check, Await, Fail
  <2> QED  BY <2>1, <2>2, StaysLossless
<1>4. CASE Guard \/ Connect \/ CancelContext \/ PeerChanges \/ UNCHANGED vars
  <2>1. /\ UNCHANGED stream /\ UNCHANGED result
        /\ UNCHANGED pc \/ (pc = "dial" /\ pc' = "write")
    BY <1>4 DEF Guard, GuardStops, GuardCloses, GuardReports, Connect, CancelContext,
                PeerChanges, caller, vars
  <2> QED  BY <2>1, StaysLossless
<1> QED  BY <1>1, <1>2, <1>3, <1>4 DEF Next, Dialer, World

\* What Lossless says in terms of the sequences.
LEMMA LosslessMeans == Lossless => TunnelUntouched
<1> SUFFICES ASSUME Lossless, result = "conn" PROVE
      sent = resp \o unread /\ Last(resp) = "end" /\ ~Contains(resp, "data")
  BY DEF TunnelUntouched
<1>1. resp \in Seq(Bytes) /\ unread \in Seq(Bytes) /\ sent \in Seq(Bytes)
  BY DEF Lossless
<1>2. Last(resp) = "end" /\ ~Contains(resp, "data")
  BY <1>1 DEF Lossless, Last, Contains
<1>3. Len(sent) = Len(resp \o unread)
  BY <1>1 DEF Lossless
<1>4. ASSUME NEW i \in 1..Len(sent) PROVE sent[i] = (resp \o unread)[i]
  <2>1. CASE i \in 1..Len(resp)
    BY <2>1, <1>1 DEF Lossless
  <2>2. CASE i \notin 1..Len(resp)
    <3>1. i - Len(resp) \in 1..Len(unread)
      BY <2>2, <1>1 DEF Lossless
    <3>2. sent[Len(resp) + (i - Len(resp))] = unread[i - Len(resp)]
      BY <3>1 DEF Lossless
    <3> QED  BY <3>1, <3>2, <2>2, <1>1
  <2> QED  BY <2>1, <2>2
<1>5. sent = resp \o unread
  BY <1>1, <1>3, <1>4
<1> QED  BY <1>2, <1>5

-----------------------------------------------------------------------------

\* upstream.go:99-145, for responses of every length: a connection is returned open
\* and with its guard gone, with everything behind the response still on it, and an
\* error leaves no open connection.
THEOREM HandOver == Spec => []HandedOver
<1>1. Agreement /\ [Next]_vars => Agreement'
  <2> SUFFICES ASSUME Agreement, [Next]_vars PROVE Agreement'
    OBVIOUS
  <2>1. CASE Connect \/ Dialer
    BY <2>1, DialerAgrees
  <2>2. CASE Guard
    BY <2>2, GuardAgrees
  <2>3. CASE CancelContext \/ PeerChanges \/ PeerSends \/ UNCHANGED vars
    <3>1. UNCHANGED caller
      BY <2>3 DEF CancelContext, PeerChanges, PeerSends, vars
    <3> QED BY <3>1 DEF caller, Agreement
  <2> QED BY <2>1, <2>2, <2>3 DEF Next, World
<1>2. Init => Lossless
  BY DEF Init, Lossless
<1>3. Agreement /\ Lossless => HandedOver
  BY LosslessMeans DEF Agreement, ReturnedIsOpen, ErrorLeavesNothing, HandedOver
<1> QED BY Starts, LosslessStep, <1>1, <1>2, <1>3, PTL DEF Spec

-----------------------------------------------------------------------------
(* Scripts.                                                                *)

Endpoints == {"name", "ip1", "ip2"}

ScriptTypes ==
    /\ progress \in [Requests -> {"new", "ask", "filter", "route", "dial", "limit",
                                  "forward", "end"}]
    /\ toTry \in [Requests -> Seq(Endpoints)]
    /\ granted \in [Requests -> SUBSET Endpoints]
    /\ through \in [Requests -> {"proxy", "next"}]
    /\ reached \in [Requests -> Endpoints \cup {Unconnected}]
    /\ DOMAIN using = Requests /\ using = [r \in Requests |-> using[r]]
    /\ NoVM \notin loaded

\* The address that was let through is the one tried now, and the router is asked
\* before there is a connection.
Asked ==
    \A r \in Requests :
        /\ progress[r] \in {"new", "ask", "filter", "route", "dial"} => reached[r] = Unconnected
        /\ progress[r] \in {"filter", "route", "dial"} => toTry[r] # <<>>
        /\ progress[r] \in {"route", "dial"} => Head(toTry[r]) \in granted[r]

ScriptInv == ScriptTypes /\ Asked /\ OnlyGranted /\ OneHand

-----------------------------------------------------------------------------

LEMMA ScriptStarts == ScriptInit => ScriptInv
BY DEF ScriptInit, ScriptInv, ScriptTypes, Asked, OnlyGranted, OneHand, Unconnected

\* What takes, holds and returns interpreters.
Hands == <<free, using, loaded>>
\* What leads to a connection.
Road == <<progress, toTry, granted, through, reached>>

\* An interpreter that is set up is nobody's.
LEMMA LoadKeeps == ASSUME ScriptInv, NEW kind \in PoolKinds, NEW vm \in VMs(kind), LoadVM(vm)
                   PROVE  ScriptInv'
<1>1. vm # NoVM
  BY DEF VMs, PoolKinds, NoVM
<1>2. UNCHANGED <<Road, using>>
  BY DEF LoadVM, Road
<1>3. ScriptTypes' /\ Asked' /\ OnlyGranted'
  BY <1>1, <1>2 DEF LoadVM, Road, ScriptInv, ScriptTypes, Asked, OnlyGranted
<1>4. OneHand'
  BY <1>1, <1>2 DEF LoadVM, ScriptInv, OneHand
<1> QED  BY <1>3, <1>4 DEF ScriptInv

\* A request takes an interpreter out of its channel: it was in nobody's hand.
LEMMA TakeKeeps == ASSUME ScriptInv, NEW r \in Requests, TakeVM(r) PROVE ScriptInv'
<1>1. PICK vm \in free : /\ free' = free \ {vm}
                         /\ using' = [using EXCEPT ![r] = vm]
  BY DEF TakeVM
<1>2. using[r] = NoVM /\ UNCHANGED <<Road, loaded>>
  BY DEF TakeVM, Road, vmVars
<1>3. vm # NoVM
  BY DEF ScriptInv, ScriptTypes, OneHand
<1>4. ScriptTypes' /\ Asked' /\ OnlyGranted'
  BY <1>1, <1>2 DEF Road, ScriptInv, ScriptTypes, Asked, OnlyGranted
<1>5. OneHand'
  BY <1>1, <1>2, <1>3 DEF ScriptInv, ScriptTypes, OneHand
<1> QED  BY <1>4, <1>5 DEF ScriptInv

\* Whatever the script says, its interpreter goes back.
LEMMA BackKeeps ==
    ASSUME ScriptInv, NEW r \in Requests, NEW answer, PutBack(r, answer), UNCHANGED loaded
    PROVE  /\ OneHand'
           /\ using' = [q \in Requests |-> using'[q]] /\ DOMAIN using' = Requests
           /\ NoVM \notin loaded'
<1>1. /\ using[r] # NoVM
      /\ free' = free \cup {using[r]} /\ using' = [using EXCEPT ![r] = NoVM]
      /\ loaded' = loaded
  BY DEF PutBack
<1>2. /\ using' = [q \in Requests |-> using'[q]] /\ DOMAIN using' = Requests
      /\ NoVM \notin loaded' /\ using'[r] = NoVM
      /\ \A q \in Requests \ {r} : using'[q] = using[q]
  BY <1>1 DEF ScriptInv, ScriptTypes
<1>3. loaded' = free' \cup {using'[q] : q \in {q \in Requests : using'[q] # NoVM}}
  <2>1. ASSUME NEW v PROVE v \in loaded' <=> v \in free' \/ \E q \in Requests : using'[q] = v /\ v # NoVM
    BY <1>1, <1>2 DEF ScriptInv, OneHand
  <2> QED  BY <2>1
<1>4. /\ \A p, q \in Requests : p # q /\ using'[p] # NoVM => using'[p] # using'[q]
      /\ \A p \in Requests : using'[p] \notin free'
  <2>1. \A p, q \in Requests : p # q /\ using[p] # NoVM => using[p] # using[q]
    BY DEF ScriptInv, OneHand
  <2>2. NoVM \notin free /\ \A p \in Requests : using[p] \notin free
    BY DEF ScriptInv, ScriptTypes, OneHand
  <2> QED  BY <1>1, <1>2, <2>1, <2>2
<1> QED  BY <1>2, <1>3, <1>4 DEF OneHand

\* The next address is not asked about yet.
LEMMA NextKeeps ==
    ASSUME ScriptInv, NEW r \in Requests, progress[r] \in {"filter", "route", "dial"},
           TryNext(r), UNCHANGED <<granted, through, reached>>
    PROVE  /\ progress' \in [Requests -> {"new", "ask", "filter", "route", "dial", "limit",
                                          "forward", "end"}]
           /\ toTry' \in [Requests -> Seq(Endpoints)]
           /\ Asked' /\ OnlyGranted'
<1>1. /\ toTry' = [toTry EXCEPT ![r] = Tail(toTry[r])]
      /\ progress' = [progress EXCEPT ![r] = IF Len(toTry[r]) = 1 THEN "end" ELSE "filter"]
  BY DEF TryNext
<1>2. toTry[r] \in Seq(Endpoints) /\ toTry[r] # <<>>
  BY DEF ScriptInv, ScriptTypes, Asked
<1>3. /\ Tail(toTry[r]) \in Seq(Endpoints)
      /\ Len(toTry[r]) # 1 => Tail(toTry[r]) # <<>>
  <2>1. /\ Tail(toTry[r]) \in Seq(Endpoints)
        /\ Len(Tail(toTry[r])) = Len(toTry[r]) - 1
    BY <1>2, HeadTailProperties
  <2>2. Len(toTry[r]) \in Nat /\ Len(toTry[r]) # 0
    BY <1>2, EmptySeq
  <2>3. Len(toTry[r]) # 1 => Len(Tail(toTry[r])) # 0
    BY <2>1, <2>2
  <2> QED  BY <2>1, <2>3, EmptySeq
<1>4. Asked'
  BY <1>1, <1>3 DEF ScriptInv, ScriptTypes, Asked
<1> QED  BY <1>1, <1>3, <1>4 DEF ScriptInv, ScriptTypes, OnlyGranted

LEMMA WantsKeeps == ASSUME ScriptInv, NEW r \in Requests, HearWants(r) PROVE ScriptInv'
<1>1. PICK answer \in {"next", "proxy", "exception"}, list \in Resolved \cup {<<"name">>} :
         /\ PutBack(r, answer)
         /\ toTry' = [toTry EXCEPT ![r] = list]
         /\ progress' = [progress EXCEPT ![r] = IF list = <<>> THEN "end" ELSE "filter"]
  BY DEF HearWants
<1>2. list \in Seq(Endpoints)
  <2>1. {"name", "ip1", "ip2"} = Endpoints
    BY DEF Endpoints
  <2>2. <<>> \in Seq(Endpoints) /\ <<"name">> \in Seq(Endpoints)
    BY <2>1
  <2>3. <<"ip1">> \in Seq(Endpoints) /\ <<"ip1", "ip2">> \in Seq(Endpoints)
    BY <2>1
  <2> QED  BY <2>2, <2>3 DEF Resolved
<1>3. progress[r] = "ask" /\ UNCHANGED <<loaded, granted, through, reached>>
  BY DEF HearWants, vmVars
<1>4. OneHand' /\ DOMAIN using' = Requests /\ using' = [q \in Requests |-> using'[q]]
      /\ NoVM \notin loaded'
  BY <1>1, <1>3, BackKeeps
<1>5. ScriptTypes'
  BY <1>1, <1>2, <1>3, <1>4 DEF ScriptInv, ScriptTypes
<1>6. Asked' /\ OnlyGranted'
  BY <1>1, <1>3 DEF ScriptInv, ScriptTypes, Asked, OnlyGranted
<1> QED  BY <1>4, <1>5, <1>6 DEF ScriptInv

\* Only a yes leads on, and it is about the address that is tried.
LEMMA AccessKeeps == ASSUME ScriptInv, NEW r \in Requests, HearAccess(r) PROVE ScriptInv'
<1>1. PICK answer \in {"yes", "no", "exception"} :
         /\ PutBack(r, answer)
         /\ IF answer = "yes"
            THEN /\ progress' = [progress EXCEPT ![r] = "route"]
                 /\ granted' = [granted EXCEPT ![r] = @ \cup {Head(toTry[r])}]
                 /\ UNCHANGED toTry
            ELSE TryNext(r) /\ UNCHANGED granted
  BY DEF HearAccess
<1>2. progress[r] = "filter" /\ UNCHANGED <<loaded, through, reached>>
  BY DEF HearAccess, vmVars
<1>3. OneHand' /\ DOMAIN using' = Requests /\ using' = [q \in Requests |-> using'[q]]
      /\ NoVM \notin loaded'
  BY <1>1, <1>2, BackKeeps
<1>4. CASE answer = "yes"
  <2>1. toTry[r] \in Seq(Endpoints) /\ toTry[r] # <<>>
    BY <1>2 DEF ScriptInv, ScriptTypes, Asked
  <2>2. Head(toTry[r]) \in Endpoints
    BY <2>1, HeadTailProperties
  <2>3. /\ progress' = [progress EXCEPT ![r] = "route"] /\ toTry' = toTry
        /\ granted' = [granted EXCEPT ![r] = granted[r] \cup {Head(toTry[r])}]
    BY <1>1, <1>4
  <2>4. ScriptTypes'
    BY <1>2, <1>3, <2>2, <2>3 DEF ScriptInv, ScriptTypes
  <2>5. Asked' /\ OnlyGranted'
    BY <1>2, <2>1, <2>3 DEF ScriptInv, ScriptTypes, Asked, OnlyGranted
  <2> QED  BY <1>3, <2>4, <2>5 DEF ScriptInv
<1>5. CASE answer # "yes"
  <2>1. TryNext(r) /\ UNCHANGED <<granted, through, reached>>
    BY <1>1, <1>2, <1>5
  <2>2. /\ progress' \in [Requests -> {"new", "ask", "filter", "route", "dial", "limit",
                                       "forward", "end"}]
        /\ toTry' \in [Requests -> Seq(Endpoints)]
        /\ Asked' /\ OnlyGranted'
    BY <1>2, <2>1, NextKeeps
  <2> QED  BY <1>3, <2>1, <2>2 DEF ScriptInv, ScriptTypes
<1> QED  BY <1>4, <1>5

LEMMA RouteKeeps == ASSUME ScriptInv, NEW r \in Requests, HearRoute(r) PROVE ScriptInv'
<1>1. PICK answer \in {"next", "proxy", "exception"} :
         /\ PutBack(r, answer)
         /\ IF answer = "exception" THEN TryNext(r) /\ UNCHANGED through
            ELSE /\ progress' = [progress EXCEPT ![r] = "dial"]
                 /\ through' = [through EXCEPT ![r] = answer]
                 /\ UNCHANGED toTry
  BY DEF HearRoute
<1>2. progress[r] = "route" /\ UNCHANGED <<loaded, granted, reached>>
  BY DEF HearRoute, vmVars
<1>3. OneHand' /\ DOMAIN using' = Requests /\ using' = [q \in Requests |-> using'[q]]
      /\ NoVM \notin loaded'
  BY <1>1, <1>2, BackKeeps
<1>4. CASE answer = "exception"
  <2>1. TryNext(r) /\ UNCHANGED <<granted, through, reached>>
    BY <1>1, <1>2, <1>4
  <2>2. /\ progress' \in [Requests -> {"new", "ask", "filter", "route", "dial", "limit",
                                       "forward", "end"}]
        /\ toTry' \in [Requests -> Seq(Endpoints)]
        /\ Asked' /\ OnlyGranted'
    BY <1>2, <2>1, NextKeeps
  <2> QED  BY <1>2, <1>3, <2>1, <2>2 DEF ScriptInv, ScriptTypes
<1>5. CASE answer # "exception"
  <2>1. /\ progress' = [progress EXCEPT ![r] = "dial"] /\ UNCHANGED toTry
        /\ through' = [through EXCEPT ![r] = answer] /\ answer \in {"proxy", "next"}
    BY <1>1, <1>5
  <2>2. ScriptTypes' /\ Asked' /\ OnlyGranted'
    BY <1>2, <1>3, <2>1 DEF ScriptInv, ScriptTypes, Asked, OnlyGranted
  <2> QED  BY <1>3, <2>2 DEF ScriptInv
<1> QED  BY <1>4, <1>5

\* The address that is dialled was let through.
LEMMA DialKeeps == ASSUME ScriptInv, NEW r \in Requests, DialAddress(r) PROVE ScriptInv'
<1>1. progress[r] = "dial" /\ UNCHANGED <<loaded, free, using, granted, through>>
  BY DEF DialAddress, vmVars
<1>2. OneHand'
  BY <1>1 DEF ScriptInv, OneHand
<1>3. CASE TryNext(r) /\ UNCHANGED reached
  <2>1. /\ progress' \in [Requests -> {"new", "ask", "filter", "route", "dial", "limit",
                                       "forward", "end"}]
        /\ toTry' \in [Requests -> Seq(Endpoints)]
        /\ Asked' /\ OnlyGranted'
    BY <1>1, <1>3, NextKeeps
  <2> QED  BY <1>1, <1>2, <1>3, <2>1 DEF ScriptInv, ScriptTypes
<1>4. CASE /\ progress' = [progress EXCEPT ![r] = "limit"]
           /\ \E a \in Destinations(Head(toTry[r]), through[r]) :
                reached' = [reached EXCEPT ![r] = a]
           /\ UNCHANGED toTry
  <2>1. toTry[r] \in Seq(Endpoints) /\ toTry[r] # <<>> /\ Head(toTry[r]) \in granted[r]
    BY <1>1 DEF ScriptInv, ScriptTypes, Asked
  <2>2. Head(toTry[r]) \in Endpoints
    BY <2>1, HeadTailProperties
  <2>3. PICK a \in Destinations(Head(toTry[r]), through[r]) :
           reached' = [reached EXCEPT ![r] = a]
    BY <1>4
  <2>4. /\ a \in Endpoints
        /\ a \in granted[r] \/ (a \in Resolvable /\ "name" \in granted[r] /\ through[r] = "next")
    BY <2>1, <2>2 DEF Destinations, Resolvable, Endpoints
  <2>5. ScriptTypes'
    BY <1>1, <1>4, <2>3, <2>4 DEF ScriptInv, ScriptTypes
  <2>6. Asked' /\ OnlyGranted'
    BY <1>1, <1>4, <2>3, <2>4 DEF ScriptInv, ScriptTypes, Asked, OnlyGranted
  <2> QED  BY <1>2, <2>5, <2>6 DEF ScriptInv
<1> QED  BY <1>3, <1>4 DEF DialAddress

LEMMA LimitKeeps == ASSUME ScriptInv, NEW r \in Requests, HearLimit(r) PROVE ScriptInv'
<1>1. PICK answer \in {"parameters", "null", "exception"} :
         /\ PutBack(r, answer)
         /\ progress' = [progress EXCEPT ![r] = IF answer = "parameters" THEN "forward"
                                                ELSE "end"]
  BY DEF HearLimit
<1>2. progress[r] = "limit" /\ UNCHANGED <<loaded, toTry, granted, through, reached>>
  BY DEF HearLimit, vmVars
<1>3. OneHand' /\ DOMAIN using' = Requests /\ using' = [q \in Requests |-> using'[q]]
      /\ NoVM \notin loaded'
  BY <1>1, <1>2, BackKeeps
<1>4. ScriptTypes' /\ Asked' /\ OnlyGranted'
  BY <1>1, <1>2, <1>3 DEF ScriptInv, ScriptTypes, Asked, OnlyGranted
<1> QED  BY <1>3, <1>4 DEF ScriptInv

-----------------------------------------------------------------------------

LEMMA ScriptInvariance == ScriptSpec => []ScriptInv
<1>1. ScriptInv /\ [ScriptNext]_scriptVars => ScriptInv'
  <2> SUFFICES ASSUME ScriptInv, [ScriptNext]_scriptVars PROVE ScriptInv'
    OBVIOUS
  <2>1. CASE UNCHANGED scriptVars
    BY <2>1 DEF scriptVars, ScriptInv, ScriptTypes, Asked, OnlyGranted, OneHand
  <2>2. ASSUME NEW vm \in UNION {VMs(kind) : kind \in PoolKinds}, LoadVM(vm)
        PROVE  ScriptInv'
    <3>1. PICK kind \in PoolKinds : vm \in VMs(kind)
      OBVIOUS
    <3> QED  BY <2>2, <3>1, LoadKeeps
  <2>3. CASE Constructed
    BY <2>3 DEF Constructed, ScriptInv, ScriptTypes, Asked, OnlyGranted, OneHand
  <2>4. ASSUME NEW r \in Requests, Arrive(r) \/ ForwardEnds(r) PROVE ScriptInv'
    <3>1. /\ UNCHANGED <<loaded, free, using, toTry, granted, through, reached>>
          /\ \/ progress[r] = "new" /\ progress' = [progress EXCEPT ![r] = "ask"]
             \/ progress' = [progress EXCEPT ![r] = "end"]
      BY <2>4 DEF Arrive, ForwardEnds, vmVars
    <3>2. ScriptTypes' /\ Asked' /\ OnlyGranted'
      BY <3>1 DEF ScriptInv, ScriptTypes, Asked, OnlyGranted
    <3> QED  BY <3>1, <3>2 DEF ScriptInv, OneHand
  <2>5. ASSUME NEW r \in Requests, TakeVM(r) PROVE ScriptInv'
    BY <2>5, TakeKeeps
  <2>6. ASSUME NEW r \in Requests, HearWants(r) PROVE ScriptInv'
    BY <2>6, WantsKeeps
  <2>7. ASSUME NEW r \in Requests, HearAccess(r) PROVE ScriptInv'
    BY <2>7, AccessKeeps
  <2>8. ASSUME NEW r \in Requests, HearRoute(r) PROVE ScriptInv'
    BY <2>8, RouteKeeps
  <2>9. ASSUME NEW r \in Requests, DialAddress(r) PROVE ScriptInv'
    BY <2>9, DialKeeps
  <2>10. ASSUME NEW r \in Requests, HearLimit(r) PROVE ScriptInv'
    BY <2>10, LimitKeeps
  <2> QED  BY <2>1, <2>2, <2>3, <2>4, <2>5, <2>6, <2>7, <2>8, <2>9, <2>10 DEF ScriptNext
<1> QED  BY ScriptStarts, <1>1, PTL DEF ScriptSpec

\* jsfilter.go:91-98, and the like of the other pools: an interpreter is in its channel or
\* in one hand.
THEOREM InterpretersAreSafe == ScriptSpec => []OneHand
<1>1. ScriptInv => OneHand
  BY DEF ScriptInv
<1> QED  BY ScriptInvariance, <1>1, PTL

\* filter.go, resolve.go:66-78: a connection goes to an address that was let through, or a
\* name was let through that the router then left to the system (jsrouter.go:123).
THEOREM ConnectionsWereGranted == ScriptSpec => []OnlyGranted
<1>1. ScriptInv => OnlyGranted
  BY DEF ScriptInv
<1> QED  BY ScriptInvariance, <1>1, PTL

-----------------------------------------------------------------------------
(* Optimistic connections.                                                 *)

OptTypes ==
    /\ wState \in {"first", "done", "error"}
    /\ rState \in {"first", "answer", "done", "error"}
    /\ answered \in {"none", "ok", "bad", "gone"}
    /\ toProxy \in Seq({"connect", "torn", "data"})
    /\ fromProxy \in Seq({"ok", "bad", "data"})
    /\ read \in Seq({"ok", "bad", "data"})

\* What the upstream has got goes with the writer's state.
Written ==
    /\ wState = "first" => toProxy = <<>>
    /\ wState = "error" => toProxy \in {<<>>, <<"torn">>}
    /\ wState = "done" => /\ toProxy # <<>> /\ toProxy[1] = "connect"
                          /\ \A i \in 2..Len(toProxy) : toProxy[i] = "data"

\* The answer is the first thing to be read, and is there until it is read.
Unread ==
    /\ answered \in {"none", "gone"} => fromProxy = <<>>
    /\ answered \in {"none", "bad", "gone"} => rState # "done"
    /\ answered = "none" => rState \in {"first", "answer"}
    /\ rState \in {"first", "answer"} =>
          /\ answered = "ok" => /\ fromProxy # <<>> /\ fromProxy[1] = "ok"
                                /\ \A i \in 2..Len(fromProxy) : fromProxy[i] = "data"
          /\ answered = "bad" => fromProxy # <<>> /\ fromProxy[1] = "bad"
    /\ rState = "done" => \A i \in 1..Len(fromProxy) : fromProxy[i] = "data"
    /\ read # <<>> => rState = "done"
    /\ \A i \in 1..Len(read) : read[i] = "data"

OptInv == OptTypes /\ Written /\ Unread

LEMMA OptStarts == OptInit => OptInv
<1> SUFFICES ASSUME OptInit PROVE OptInv
  OBVIOUS
<1>1. OptTypes
  BY DEF OptInit, OptTypes
<1>2. Written
  BY DEF OptInit, Written
<1>3. Unread
  BY DEF OptInit, Unread
<1> QED  BY <1>1, <1>2, <1>3 DEF OptInv

LEMMA WriteKeeps == ASSUME OptInv, FirstWrite \/ NextWrite PROVE OptInv'
<1>1. UNCHANGED <<rState, fromProxy, answered, read>>
  BY DEF FirstWrite, NextWrite
<1>2. Unread'
  BY <1>1 DEF OptInv, Unread
<1>3. CASE FirstWrite
  <2>1. toProxy = <<>>
    BY <1>3 DEF FirstWrite, OptInv, Written
  <2>2. CASE toProxy' = toProxy \o <<"connect", "data">> /\ wState' = "done"
    <3>1. toProxy' = <<"connect", "data">>
      BY <2>1, <2>2
    <3> QED  BY <1>1, <1>2, <2>2, <3>1 DEF OptInv, OptTypes, Written
  <2>3. ASSUME NEW part \in {<<>>, <<"torn">>}, toProxy' = toProxy \o part, wState' = "error"
        PROVE  OptInv'
    <3>1. toProxy' = part
      <4>1. part = <<>> \/ part = <<"torn">>
        BY <2>3
      <4>2. CASE part = <<>>
        BY <2>1, <2>3, <4>2
      <4>3. CASE part = <<"torn">>
        BY <2>1, <2>3, <4>3
      <4> QED  BY <4>1, <4>2, <4>3
    <3>2. toProxy' \in Seq({"connect", "torn", "data"})
      <4>1. <<>> \in Seq({"connect", "torn", "data"}) /\ <<"torn">> \in Seq({"connect", "torn", "data"})
        OBVIOUS
      <4> QED  BY <2>3, <3>1, <4>1
    <3> QED  BY <1>1, <1>2, <2>3, <3>1, <3>2 DEF OptInv, OptTypes, Written
  <2> QED  BY <1>3, <2>2, <2>3 DEF FirstWrite
<1>4. CASE NextWrite
  <2>1. toProxy' = Append(toProxy, "data") /\ wState = "done" /\ wState' = wState
    BY <1>4 DEF NextWrite
  <2>2. toProxy \in Seq({"connect", "torn", "data"}) /\ toProxy # <<>>
        /\ toProxy[1] = "connect" /\ \A i \in 2..Len(toProxy) : toProxy[i] = "data"
    BY <2>1 DEF OptInv, OptTypes, Written
  <2>3. toProxy' \in Seq({"connect", "torn", "data"}) /\ Len(toProxy') = Len(toProxy) + 1
        /\ toProxy'[Len(toProxy) + 1] = "data"
        /\ \A i \in 1..Len(toProxy) : toProxy'[i] = toProxy[i]
    BY <2>1, <2>2, AppendProperties
  <2>4. Len(toProxy) \in Nat /\ Len(toProxy) # 0
    BY <2>2, EmptySeq
  <2>5. toProxy' # <<>> /\ toProxy'[1] = "connect"
        /\ \A i \in 2..Len(toProxy') : toProxy'[i] = "data"
    BY <2>2, <2>3, <2>4
  <2> QED  BY <1>1, <1>2, <2>1, <2>3, <2>5 DEF OptInv, OptTypes, Written
<1> QED  BY <1>3, <1>4

\* Something was there to be read.
LEMMA HeadOfUnread ==
    ASSUME OptInv, fromProxy # <<>>
    PROVE  /\ Head(fromProxy) = fromProxy[1] /\ Head(fromProxy) \in {"ok", "bad", "data"}
           /\ Tail(fromProxy) \in Seq({"ok", "bad", "data"})
           /\ Len(fromProxy) \in Nat \ {0} /\ Len(Tail(fromProxy)) = Len(fromProxy) - 1
           /\ \A i \in 1..Len(Tail(fromProxy)) : Tail(fromProxy)[i] = fromProxy[i + 1]
<1>1. fromProxy \in Seq({"ok", "bad", "data"})
  BY DEF OptInv, OptTypes
<1>2. Len(fromProxy) \in Nat \ {0}
  BY <1>1, EmptySeq
<1> QED  BY <1>1, <1>2, HeadTailProperties

LEMMA ReadKeeps == ASSUME OptInv, OptReader PROVE OptInv'
<1>1. UNCHANGED <<wState, toProxy, answered>>
  BY DEF OptReader, StartRead, ReadAnswer, NextRead
<1>2. Written'
  BY <1>1 DEF OptInv, Written
<1>3. CASE StartRead
  BY <1>1, <1>2, <1>3 DEF StartRead, OptInv, OptTypes, Unread
<1>4. CASE ReadAnswer
  <2>1. rState = "answer" /\ UNCHANGED read
    BY <1>4 DEF ReadAnswer
  <2>2. CASE fromProxy = <<>> /\ answered = "gone" /\ rState' = "error" /\ UNCHANGED fromProxy
    BY <1>1, <1>2, <2>1, <2>2 DEF OptInv, OptTypes, Unread
  <2>3. CASE /\ fromProxy # <<>> /\ fromProxy' = Tail(fromProxy)
             /\ rState' = IF Head(fromProxy) = "ok" THEN "done" ELSE "error"
    <3>1. answered \in {"ok", "bad"} /\ read = <<>>
      BY <2>1, <2>3 DEF OptInv, OptTypes, Unread
    <3>2. OptTypes'
      BY <1>1, <2>1, <2>3, HeadOfUnread DEF OptInv, OptTypes
    <3>3. CASE answered = "ok"
      <4>1. Head(fromProxy) = "ok" /\ \A i \in 2..Len(fromProxy) : fromProxy[i] = "data"
        BY <2>1, <2>3, <3>3, HeadOfUnread DEF OptInv, Unread
      <4>2. \A i \in 1..Len(fromProxy') : fromProxy'[i] = "data"
        BY <2>3, <4>1, HeadOfUnread
      <4> QED  BY <1>1, <1>2, <2>1, <2>3, <3>1, <3>2, <3>3, <4>1, <4>2 DEF OptInv, Unread
    <3>4. CASE answered = "bad"
      <4>1. Head(fromProxy) = "bad"
        BY <2>1, <2>3, <3>4, HeadOfUnread DEF OptInv, Unread
      <4> QED  BY <1>1, <1>2, <2>1, <2>3, <3>1, <3>2, <3>4, <4>1 DEF OptInv, Unread
    <3> QED  BY <3>1, <3>3, <3>4
  <2> QED  BY <1>4, <2>2, <2>3 DEF ReadAnswer
<1>5. CASE NextRead
  <2>1. /\ rState = "done" /\ fromProxy # <<>> /\ read' = Append(read, Head(fromProxy))
        /\ fromProxy' = Tail(fromProxy) /\ rState' = rState
    BY <1>5 DEF NextRead
  <2>2. /\ read \in Seq({"ok", "bad", "data"}) /\ \A i \in 1..Len(read) : read[i] = "data"
        /\ \A i \in 1..Len(fromProxy) : fromProxy[i] = "data"
        /\ answered = "ok"
    BY <2>1 DEF OptInv, OptTypes, Unread
  <2>3. Head(fromProxy) = "data" /\ Len(fromProxy) \in Nat
    BY <2>1, <2>2, HeadOfUnread
  <2>4. \A i \in 1..Len(fromProxy') : fromProxy'[i] = "data"
    BY <2>1, <2>2, HeadOfUnread
  <2>5. read' \in Seq({"ok", "bad", "data"}) /\ Len(read') = Len(read) + 1
        /\ read'[Len(read) + 1] = "data" /\ \A i \in 1..Len(read) : read'[i] = read[i]
    BY <2>1, <2>2, <2>3, AppendProperties
  <2>6. \A i \in 1..Len(read') : read'[i] = "data"
    <3>1. Len(read) \in Nat
      BY <2>2
    <3> QED  BY <2>2, <2>5, <3>1
  <2>7. OptTypes'
    BY <1>1, <2>1, <2>5, HeadOfUnread DEF OptInv, OptTypes
  <2> QED  BY <1>1, <1>2, <2>1, <2>2, <2>4, <2>6, <2>7 DEF OptInv, Unread
<1> QED  BY <1>3, <1>4, <1>5 DEF OptReader

LEMMA UpstreamKeeps == ASSUME OptInv, OptUpstream \/ TargetSends PROVE OptInv'
<1>1. UNCHANGED <<wState, rState, toProxy, read>>
  BY DEF OptUpstream, Answer200, AnswerBad, AnswerGone, TargetSends
<1>2. Written'
  BY <1>1 DEF OptInv, Written
<1>3. CASE Answer200
  <2>1. answered = "none" /\ answered' = "ok" /\ fromProxy' = Append(fromProxy, "ok")
    BY <1>3 DEF Answer200
  <2>2. fromProxy = <<>> /\ rState \in {"first", "answer"}
    BY <2>1 DEF OptInv, Unread
  <2>3. fromProxy' = <<"ok">>
    BY <2>1, <2>2
  <2> QED  BY <1>1, <1>2, <2>1, <2>2, <2>3 DEF OptInv, OptTypes, Unread
<1>4. CASE AnswerBad
  <2>1. answered = "none" /\ answered' = "bad" /\ fromProxy' = <<"bad", "data">>
    BY <1>4 DEF AnswerBad
  <2>2. rState \in {"first", "answer"}
    BY <2>1 DEF OptInv, Unread
  <2> QED  BY <1>1, <1>2, <2>1, <2>2 DEF OptInv, OptTypes, Unread
<1>5. CASE AnswerGone
  BY <1>1, <1>2, <1>5 DEF AnswerGone, OptInv, OptTypes, Unread
<1>6. CASE TargetSends
  <2>1. answered = "ok" /\ answered' = answered /\ fromProxy' = Append(fromProxy, "data")
    BY <1>6 DEF TargetSends
  <2>2. fromProxy \in Seq({"ok", "bad", "data"})
    BY DEF OptInv, OptTypes
  <2>3. /\ fromProxy' \in Seq({"ok", "bad", "data"}) /\ Len(fromProxy') = Len(fromProxy) + 1
        /\ fromProxy'[Len(fromProxy) + 1] = "data"
        /\ \A i \in 1..Len(fromProxy) : fromProxy'[i] = fromProxy[i]
        /\ Len(fromProxy) \in Nat
    BY <2>1, <2>2, AppendProperties
  <2>4. rState = "done" => \A i \in 1..Len(fromProxy') : fromProxy'[i] = "data"
    BY <2>3 DEF OptInv, Unread
  <2>5. rState \in {"first", "answer"} =>
          /\ fromProxy' # <<>> /\ fromProxy'[1] = "ok"
          /\ \A i \in 2..Len(fromProxy') : fromProxy'[i] = "data"
    <3>1. SUFFICES ASSUME rState \in {"first", "answer"}
                   PROVE  /\ fromProxy' # <<>> /\ fromProxy'[1] = "ok"
                          /\ \A i \in 2..Len(fromProxy') : fromProxy'[i] = "data"
      OBVIOUS
    <3>2. fromProxy # <<>> /\ fromProxy[1] = "ok"
          /\ \A i \in 2..Len(fromProxy) : fromProxy[i] = "data"
      BY <2>1, <3>1 DEF OptInv, Unread
    <3>3. Len(fromProxy) # 0
      BY <2>2, <3>2, EmptySeq
    <3> QED  BY <2>3, <3>2, <3>3
  <2>6. OptTypes'
    BY <1>1, <2>1, <2>3 DEF OptInv, OptTypes
  <2> QED  BY <1>1, <1>2, <2>1, <2>4, <2>5, <2>6 DEF OptInv, Unread
<1> QED  BY <1>3, <1>4, <1>5, <1>6 DEF OptUpstream

LEMMA OptInvariance == OptSpec => []OptInv
<1>1. OptInv /\ UNCHANGED optVars => OptInv'
  BY DEF optVars, OptInv, OptTypes, Written, Unread
<1>2. OptInv /\ [OptNext]_optVars => OptInv'
  BY <1>1, WriteKeeps, ReadKeeps, UpstreamKeeps DEF OptNext
<1> QED  BY OptStarts, <1>2, PTL DEF OptSpec

\* optimistic.go:118-154: neither end takes CONNECT or its answer for data, nor data for them.
THEOREM StreamsAreClean == OptSpec => []CleanStreams
<1>1. OptInv => ConnectFirst
  BY DEF OptInv, OptTypes, Written, ConnectFirst
<1>2. OptInv => TunnelBytesOnly
  BY DEF OptInv, OptTypes, Unread, TunnelBytesOnly
<1> QED  BY OptInvariance, <1>1, <1>2, PTL DEF CleanStreams

-----------------------------------------------------------------------------
(* Dialers without contexts.                                               *)

\* What Dial returned, as the goroutine stores it.
ConnResult == IF dialled = "ok" THEN "conn" ELSE "nil"
ErrResult == IF dialled = "ok" THEN "nil" ELSE "dial"

\* How far the goroutine is.
DialSteps ==
    /\ dialStep \in {"dialling", "storing", "closing", "checking", "gone"}
    /\ dialled \in {"none", "ok", "fails"}
    /\ unstored \subseteq {"conn", "err"}
    /\ waitStep \in {"select", "returning", "returned"}
    /\ ctxDone \in BOOLEAN /\ doneClosed \in BOOLEAN
    /\ dialled = "none" <=> dialStep = "dialling"
    /\ dialStep = "dialling" => unstored = {"conn", "err"}
    /\ dialStep \in {"closing", "checking", "gone"} => unstored = {}
    /\ doneClosed <=> dialStep \in {"checking", "gone"}

\* What the two variables hold meanwhile: the error may be the caller's own.
Stored ==
    /\ connVar = IF "conn" \in unstored THEN "nil" ELSE ConnResult
    /\ ~ctxDone => errVar = IF "err" \in unstored THEN "nil" ELSE ErrResult

\* The connection is closed under an ended context only, and by the goroutine's
\* last statement.
SocketKept ==
    /\ dialled # "ok" => socket = "none"
    /\ dialled = "ok" => socket \in {"open", "closed"}
    /\ socket = "closed" => ctxDone

\* Why the caller went on, and what it took with it.
Taken ==
    /\ waitStep # "select" /\ ~ctxDone => doneClosed
    /\ waitStep = "returned" /\ ~ctxDone => returned = <<connVar, errVar>>
    /\ waitStep = "returned" /\ returned[1] = "nil" /\ dialled # "fails" =>
          ctxDone /\ (dialStep = "gone" => socket = "closed")

WrapInv == DialSteps /\ Stored /\ SocketKept /\ Taken

LEMMA WrapStarts == WrapInit => WrapInv
BY DEF WrapInit, WrapInv, DialSteps, Stored, SocketKept, Taken, ConnResult

\* The goroutine's steps.
LEMMA GoroutineKeeps == ASSUME WrapInv, WrapGoroutine PROVE WrapInv'
<1>1. CASE LegacyDial
  BY <1>1 DEF LegacyDial, WrapInv, DialSteps, Stored, SocketKept, Taken, ConnResult, ErrResult
<1>2. ASSUME NEW v \in {"conn", "err"}, Store(v) PROVE WrapInv'
  <2>1. /\ dialStep = "storing" /\ v \in unstored /\ unstored' = unstored \ {v}
        /\ dialStep' = IF unstored' = {} THEN "closing" ELSE "storing"
        /\ UNCHANGED <<dialled, socket, doneClosed, waitStep, ctxDone, returned>>
    BY <1>2 DEF Store
  <2>2. DialSteps' /\ SocketKept'
    BY <2>1 DEF WrapInv, DialSteps, SocketKept
  <2>3. Stored'
    <3>1. CASE v = "conn"
      BY <1>2, <2>1, <3>1 DEF Store, WrapInv, DialSteps, Stored, ConnResult, ErrResult
    <3>2. CASE v = "err"
      BY <1>2, <2>1, <3>2 DEF Store, WrapInv, DialSteps, Stored, ConnResult, ErrResult
    <3> QED  BY <3>1, <3>2
  <2>4. Taken'
    BY <2>1 DEF WrapInv, DialSteps, Taken
  <2> QED  BY <2>2, <2>3, <2>4 DEF WrapInv
<1>3. CASE CloseDialDone
  BY <1>3 DEF CloseDialDone, WrapInv, DialSteps, Stored, SocketKept, Taken, ConnResult, ErrResult
<1>4. CASE CheckContext
  BY <1>4 DEF CheckContext, WrapInv, DialSteps, Stored, SocketKept, Taken, ConnResult, ErrResult
<1> QED  BY <1>1, <1>2, <1>3, <1>4 DEF WrapGoroutine

\* The caller's.
LEMMA CallerKeeps == ASSUME WrapInv, Select \/ Return \/ EndContext PROVE WrapInv'
<1>1. CASE Select
  BY <1>1 DEF Select, goroutine, WrapInv, DialSteps, Stored, SocketKept, Taken, ConnResult,
              ErrResult
<1>2. CASE Return
  <2>1. /\ waitStep = "returning" /\ returned' = <<connVar, errVar>> /\ waitStep' = "returned"
        /\ UNCHANGED <<dialStep, dialled, unstored, socket, doneClosed, connVar, errVar, ctxDone>>
    BY <1>2 DEF Return, goroutine
  <2>2. DialSteps' /\ Stored' /\ SocketKept'
    BY <2>1 DEF WrapInv, DialSteps, Stored, SocketKept, ConnResult, ErrResult
  <2>3. connVar = "nil" /\ dialled # "fails" => ctxDone /\ dialStep # "gone"
    BY <2>1 DEF WrapInv, DialSteps, Stored, Taken, ConnResult
  <2>4. Taken'
    BY <2>1, <2>3 DEF WrapInv, DialSteps, Taken
  <2> QED  BY <2>2, <2>4 DEF WrapInv
<1>3. CASE EndContext
  BY <1>3 DEF EndContext, goroutine, WrapInv, DialSteps, Stored, SocketKept, Taken, ConnResult,
              ErrResult
<1> QED  BY <1>1, <1>2, <1>3

LEMMA WrapInvariance == WrapSpec => []WrapInv
<1>1. WrapInv /\ UNCHANGED wrapVars => WrapInv'
  BY DEF wrapVars, goroutine, WrapInv, DialSteps, Stored, SocketKept, Taken, ConnResult,
         ErrResult
<1>2. WrapInv /\ [WrapNext]_wrapVars => WrapInv'
  BY <1>1, GoroutineKeeps, CallerKeeps DEF WrapNext
<1> QED  BY WrapStarts, <1>2, PTL DEF WrapSpec

\* dialer.go:64-83: however the two writes, the end of the context and the return
\* interleave, the caller has the whole result while its context lives, and a connection
\* nobody was given is closed.
THEOREM ResultsAreWhole == WrapSpec => []WrappedSound
<1>1. WrapInv => WholeResult
  BY DEF WrapInv, DialSteps, Stored, SocketKept, Taken, WholeResult, ConnResult, ErrResult
<1>2. WrapInv => NoStrayConn
  BY DEF WrapInv, DialSteps, SocketKept, Taken, NoStrayConn
<1> QED  BY WrapInvariance, <1>1, <1>2, PTL DEF WrappedSound

-----------------------------------------------------------------------------
(* Names.                                                                  *)

Allowed(ok) == IF ok THEN PosTTL + Timeout ELSE NegTTL

\* An entry is dropped before it is too old.
EntryAges == \A a \in entry : a.age \in Nat /\ (left > 0 => a.age + left <= Allowed(a.ok))

\* What the resolvers offer is no older than the lookup.
OfferAges ==
    /\ \A r \in Resolvers : since[r] \in Nat
    /\ flight = "racing" => timer <= Timeout
    /\ flight = "racing" => \A r \in Resolvers :
           asked[r] \in {"success", "failed"} => since[r] + timer <= Timeout

\* The lookup found one thing: an address that is no older than it, or an error just now.
OutcomeAges ==
    /\ \A a, b \in outcome : a = b
    /\ \A a \in outcome : a.age \in Nat /\ (IF a.ok THEN a.age <= Timeout ELSE a.age = 0)

NameTypes ==
    /\ left \in Nat /\ timer \in Nat
    /\ want \in [Dialers -> {"idle", "missed", "sharing", "served"}]
    /\ DOMAIN served = Dialers
    /\ DOMAIN since = Resolvers
    /\ asked \in [Resolvers -> {"off", "asking", "success", "failed"}]
    /\ flight # "racing" => \A r \in Resolvers : asked[r] = "off"

AgeInv == NameTypes /\ EntryAges /\ OfferAges /\ OutcomeAges /\ BoundedAge

LEMMA NameStarts == NameInit => AgeInv
BY DEF NameInit, AgeInv, NameTypes, EntryAges, OfferAges, OutcomeAges, BoundedAge

LEMMA LookUpKeepsAges == ASSUME AgeInv, NEW c \in Dialers, LookUp(c) PROVE AgeInv'
<1>1. UNCHANGED <<left, flight, timer, failures, outcome, asked, since>>
  BY DEF LookUp
<1>2. CASE left > 0
  <2>1. PICK a \in entry : served' = [served EXCEPT ![c] = a]
    BY <1>2 DEF LookUp
  <2>2. want' = [want EXCEPT ![c] = "served"] /\ UNCHANGED entry
    BY <1>2 DEF LookUp
  <2>3. a.age \in Nat /\ left \in Nat /\ a.age + left <= Allowed(a.ok) /\ Allowed(a.ok) \in Nat
    BY <1>2, TimesAssumption DEF AgeInv, NameTypes, EntryAges, Allowed
  <2>4. a.age <= Allowed(a.ok)
    BY <2>3
  <2>5. BoundedAge'
    <3>1. SUFFICES ASSUME NEW d \in Dialers, want'[d] = "served"
                    PROVE  served'[d].age <= Allowed(served'[d].ok)
      BY DEF BoundedAge, Allowed
    <3>2. CASE d = c
      BY <2>1, <2>4, <3>2 DEF AgeInv, NameTypes
    <3>3. CASE d # c
      BY <2>1, <2>2, <3>1, <3>3 DEF AgeInv, NameTypes, BoundedAge, Allowed
    <3> QED  BY <3>2, <3>3
  <2>6. NameTypes'
    BY <1>1, <2>1, <2>2 DEF AgeInv, NameTypes
  <2> QED  BY <1>1, <2>2, <2>5, <2>6 DEF AgeInv, EntryAges, OfferAges, OutcomeAges
<1>3. CASE ~(left > 0)
  <2>1. want' = [want EXCEPT ![c] = "missed"] /\ entry' = {} /\ UNCHANGED served
    BY <1>3 DEF LookUp
  <2>2. NameTypes'
    BY <1>1, <2>1 DEF AgeInv, NameTypes
  <2>3. BoundedAge'
    <3>1. SUFFICES ASSUME NEW d \in Dialers, want'[d] = "served"
                    PROVE  served'[d].age <= Allowed(served'[d].ok)
      BY DEF BoundedAge, Allowed
    <3>2. want'[d] = "served" => want[d] = "served"
      BY <2>1 DEF AgeInv, NameTypes
    <3> QED  BY <2>1, <3>1, <3>2 DEF AgeInv, BoundedAge, Allowed
  <2> QED  BY <1>1, <2>1, <2>2, <2>3 DEF AgeInv, EntryAges, OfferAges, OutcomeAges
<1> QED  BY <1>2, <1>3

LEMMA ShareKeepsAges == ASSUME AgeInv, NEW c \in Dialers, Share(c) PROVE AgeInv'
<1>1. want' = [want EXCEPT ![c] = "sharing"] /\ UNCHANGED <<served, entry, left, outcome>>
  BY DEF Share
<1>2. CASE flight # "off"
  <2>1. UNCHANGED <<flight, timer, asked, since>>
    BY <1>2 DEF Share
  <2>2. NameTypes'
    BY <1>1, <2>1 DEF AgeInv, NameTypes
  <2>3. OfferAges'
    BY <2>1 DEF AgeInv, OfferAges
  <2>4. EntryAges' /\ OutcomeAges'
    BY <1>1 DEF AgeInv, EntryAges, OutcomeAges
  <2> QED  BY <1>1, <2>2, <2>3, <2>4 DEF AgeInv, NameTypes, BoundedAge
<1>3. CASE flight = "off"
  <2>1. /\ flight' = "racing" /\ timer' = Timeout
        /\ asked' = [r \in Resolvers |-> "asking"] /\ since' = [r \in Resolvers |-> 0]
    BY <1>3 DEF Share
  <2>2. NameTypes'
    BY <1>1, <2>1, TimesAssumption DEF AgeInv, NameTypes
  <2>3. OfferAges'
    BY <2>1, TimesAssumption DEF OfferAges
  <2>4. EntryAges' /\ OutcomeAges'
    BY <1>1 DEF AgeInv, EntryAges, OutcomeAges
  <2> QED  BY <1>1, <2>2, <2>3, <2>4 DEF AgeInv, NameTypes, BoundedAge
<1> QED  BY <1>2, <1>3

LEMMA UseKeepsAges == ASSUME AgeInv, NEW c \in Dialers, UseAnswer(c) PROVE AgeInv'
<1>1. /\ want' = [want EXCEPT ![c] = "idle"] /\ served' = [served EXCEPT ![c] = NoAnswer]
      /\ UNCHANGED <<entry, left, flight, timer, outcome, asked, since>>
  BY DEF UseAnswer
<1>2. NameTypes'
  BY <1>1 DEF AgeInv, NameTypes
<1>3. EntryAges' /\ OfferAges' /\ OutcomeAges'
  BY <1>1 DEF AgeInv, EntryAges, OfferAges, OutcomeAges
<1>4. BoundedAge'
  <2>1. SUFFICES ASSUME NEW d \in Dialers, want'[d] = "served"
                  PROVE  served'[d].age <= Allowed(served'[d].ok)
    BY DEF BoundedAge, Allowed
  <2>2. want'[d] = "served" => want[d] = "served" /\ served'[d] = served[d]
    BY <1>1 DEF AgeInv, NameTypes
  <2> QED  BY <2>1, <2>2 DEF AgeInv, BoundedAge, Allowed
<1> QED  BY <1>2, <1>3, <1>4 DEF AgeInv

LEMMA EndKeepsAges == ASSUME AgeInv, EndFlight PROVE AgeInv'
<1>1. PICK a \in outcome :
         /\ left' = IF a.ok THEN PosTTL ELSE NegTTL
         /\ served' = [c \in Dialers |-> IF want[c] = "sharing" THEN a ELSE served[c]]
  BY DEF EndFlight
<1>2. /\ entry' = outcome /\ flight = "over" /\ flight' = "off" /\ outcome' = {}
      /\ want' = [c \in Dialers |-> IF want[c] = "sharing" THEN "served" ELSE want[c]]
      /\ UNCHANGED <<timer, asked, since>>
  BY DEF EndFlight
<1>3. entry' = {a} /\ a.age \in Nat /\ (IF a.ok THEN a.age <= Timeout ELSE a.age = 0)
  BY <1>2 DEF AgeInv, OutcomeAges
<1>4. a.age + left' <= Allowed(a.ok) /\ a.age <= Allowed(a.ok)
  BY <1>1, <1>3, TimesAssumption DEF Allowed
<1>5. NameTypes'
  BY <1>1, <1>2, TimesAssumption DEF AgeInv, NameTypes
<1>6. EntryAges' /\ OfferAges' /\ OutcomeAges'
  BY <1>2, <1>3, <1>4 DEF AgeInv, EntryAges, OfferAges, OutcomeAges
<1>7. BoundedAge'
  <2>1. SUFFICES ASSUME NEW d \in Dialers, want'[d] = "served"
                  PROVE  served'[d].age <= Allowed(served'[d].ok)
    BY DEF BoundedAge, Allowed
  <2>2. CASE want[d] = "sharing"
    BY <1>1, <1>4, <2>2
  <2>3. CASE want[d] # "sharing"
    BY <1>1, <1>2, <2>1, <2>3 DEF AgeInv, BoundedAge, Allowed
  <2> QED  BY <2>2, <2>3
<1> QED  BY <1>5, <1>6, <1>7 DEF AgeInv

LEMMA ConcludeKeepsAges ==
    ASSUME AgeInv, NEW a, NEW done, Conclude(a, done), a.age \in Nat,
           IF a.ok THEN a.age <= Timeout ELSE a.age = 0
    PROVE  AgeInv'
<1>1. /\ flight' = "over" /\ outcome' = {a} /\ asked' = [r \in Resolvers |-> "off"]
      /\ UNCHANGED <<want, served, entry, left, timer, since>>
  BY DEF Conclude
<1>2. NameTypes'
  BY <1>1 DEF AgeInv, NameTypes
<1>3. EntryAges' /\ BoundedAge'
  BY <1>1 DEF AgeInv, EntryAges, BoundedAge
<1>4. OfferAges'
  BY <1>1 DEF AgeInv, OfferAges
<1>5. OutcomeAges'
  BY <1>1 DEF OutcomeAges
<1> QED  BY <1>2, <1>3, <1>4, <1>5 DEF AgeInv

LEMMA AnswerKeepsAges == ASSUME AgeInv, NEW r \in Resolvers, ResolverAnswers(r) PROVE AgeInv'
<1>1. PICK said \in {"success", "failed"} : asked' = [asked EXCEPT ![r] = said]
  BY DEF ResolverAnswers
<1>2. /\ asked[r] = "asking" /\ since' = [since EXCEPT ![r] = 0]
      /\ UNCHANGED <<want, served, entry, left, flight, timer, outcome>>
  BY DEF ResolverAnswers
<1>3. NameTypes'
  BY <1>1, <1>2 DEF AgeInv, NameTypes
<1>4. EntryAges' /\ BoundedAge' /\ OutcomeAges'
  BY <1>2 DEF AgeInv, EntryAges, BoundedAge, OutcomeAges
<1>5. OfferAges'
  <2>1. \A q \in Resolvers : since'[q] = IF q = r THEN 0 ELSE since[q]
    BY <1>2 DEF AgeInv, NameTypes
  <2>2. \A q \in Resolvers : q # r => asked'[q] = asked[q]
    BY <1>1 DEF AgeInv, NameTypes
  <2>3. \A q \in Resolvers : since'[q] \in Nat
    BY <2>1 DEF AgeInv, OfferAges
  <2>4. flight = "racing" => \A q \in Resolvers :
           asked'[q] \in {"success", "failed"} => since'[q] + timer <= Timeout
    <3>1. HAVE flight = "racing"
    <3>2. TAKE q \in Resolvers
    <3>3. timer \in Nat /\ timer <= Timeout
      BY <3>1 DEF AgeInv, NameTypes, OfferAges
    <3>4. CASE q = r
      BY <2>1, <3>3, <3>4
    <3>5. CASE q # r
      BY <2>1, <2>2, <3>1, <3>5 DEF AgeInv, OfferAges
    <3> QED  BY <3>4, <3>5
  <2> QED  BY <1>2, <2>3, <2>4 DEF AgeInv, OfferAges
<1> QED  BY <1>3, <1>4, <1>5 DEF AgeInv

LEMMA HearKeepsAges ==
    ASSUME AgeInv, NEW r \in Resolvers, HearFailure(r) \/ HearSuccess(r)
    PROVE  AgeInv'
<1>1. CASE HearSuccess(r)
  <2>1. Conclude(Fresh(TRUE, since[r]), {r}) /\ flight = "racing" /\ asked[r] = "success"
    BY <1>1 DEF HearSuccess
  <2>2. since[r] \in Nat /\ timer \in Nat /\ since[r] + timer <= Timeout
    BY <2>1 DEF AgeInv, NameTypes, OfferAges
  <2>3. since[r] <= Timeout
    BY <2>2, TimesAssumption
  <2> QED  BY <2>1, <2>2, <2>3, ConcludeKeepsAges DEF Fresh
<1>2. CASE HearFailure(r) /\ failures + 1 = Cardinality(Resolvers)
  <2>1. Conclude(Fresh(FALSE, 0), {r})
    BY <1>2 DEF HearFailure
  <2> QED  BY <2>1, ConcludeKeepsAges DEF Fresh
<1>3. CASE HearFailure(r) /\ failures + 1 # Cardinality(Resolvers)
  <2>1. /\ asked' = [asked EXCEPT ![r] = "off"]
        /\ UNCHANGED <<want, served, entry, left, flight, timer, outcome, since>>
    BY <1>3 DEF HearFailure
  <2>2. NameTypes'
    BY <2>1 DEF AgeInv, NameTypes
  <2>3. EntryAges' /\ BoundedAge' /\ OutcomeAges'
    BY <2>1 DEF AgeInv, EntryAges, BoundedAge, OutcomeAges
  <2>4. \A q \in Resolvers : asked'[q] \in {"success", "failed"} => asked'[q] = asked[q]
    BY <2>1 DEF AgeInv, NameTypes
  <2>5. OfferAges'
    BY <2>1, <2>4 DEF AgeInv, OfferAges
  <2> QED  BY <2>2, <2>3, <2>5 DEF AgeInv
<1> QED  BY <1>1, <1>2, <1>3

LEMMA TickKeepsAges == ASSUME AgeInv, NameTick PROVE AgeInv'
<1> DEFINE Older(n) == IF n < MaxAge THEN n + 1 ELSE n
           Less(n) == IF n > 0 THEN n - 1 ELSE 0
<1>1. /\ flight = "racing" => timer > 0
      /\ entry' = {Fresh(a.ok, Older(a.age)) : a \in entry}
      /\ left' = Less(left) /\ timer' = Less(timer)
      /\ since' = [r \in Resolvers |-> IF asked[r] \in {"success", "failed"}
                                       THEN Older(since[r]) ELSE 0]
      /\ UNCHANGED <<want, served, flight, outcome, asked>>
  BY DEF NameTick
<1>2. \A n \in Nat : Older(n) \in Nat /\ Older(n) <= n + 1
  OBVIOUS
<1>3. \A n \in Nat : Less(n) \in Nat /\ (n > 0 => Less(n) = n - 1) /\ (Less(n) > 0 => n > 0)
  OBVIOUS
<1> HIDE DEF Older, Less
<1>4. left \in Nat /\ timer \in Nat
  BY DEF AgeInv, NameTypes
<1>5. NameTypes'
  <2>1. DOMAIN since' = Resolvers
    BY <1>1
  <2> QED  BY <1>1, <1>3, <1>4, <2>1 DEF AgeInv, NameTypes
<1>6. EntryAges'
  <2>1. SUFFICES ASSUME NEW b \in entry'
                 PROVE  b.age \in Nat /\ (left' > 0 => b.age + left' <= Allowed(b.ok))
    BY DEF EntryAges, Allowed
  <2>2. PICK a \in entry : b = Fresh(a.ok, Older(a.age))
    BY <1>1
  <2>3. b.ok = a.ok /\ b.age = Older(a.age)
    BY <2>2 DEF Fresh
  <2>4. a.age \in Nat /\ (left > 0 => a.age + left <= Allowed(a.ok)) /\ Allowed(a.ok) \in Nat
    BY TimesAssumption DEF AgeInv, EntryAges, Allowed
  <2>5. Older(a.age) \in Nat /\ Older(a.age) <= a.age + 1
    BY <1>2, <2>4
  <2>6. left' > 0 => left > 0 /\ left' = left - 1
    BY <1>1, <1>3, <1>4
  <2>7. left' > 0 => Older(a.age) + left' <= Allowed(a.ok)
    BY <1>4, <2>4, <2>5, <2>6
  <2> QED  BY <2>3, <2>5, <2>7
<1>7. OfferAges'
  <2>1. ASSUME NEW r \in Resolvers
        PROVE  /\ since'[r] \in Nat
               /\ asked[r] \in {"success", "failed"} => since'[r] <= since[r] + 1
    BY <1>1, <1>2 DEF AgeInv, OfferAges
  <2>2. flight = "racing" => timer' = timer - 1 /\ timer' <= Timeout
    BY <1>1, <1>3, <1>4, TimesAssumption DEF AgeInv, OfferAges
  <2>3. ASSUME flight = "racing", NEW r \in Resolvers, asked[r] \in {"success", "failed"}
        PROVE  since'[r] + timer' <= Timeout
    <3>1. since[r] \in Nat /\ since[r] + timer <= Timeout
      BY <2>3 DEF AgeInv, OfferAges
    <3>2. since'[r] \in Nat /\ since'[r] <= since[r] + 1 /\ timer' = timer - 1
      BY <2>1, <2>2, <2>3
    <3> QED  BY <1>4, <3>1, <3>2, TimesAssumption
  <2> QED  BY <1>1, <2>1, <2>2, <2>3 DEF OfferAges
<1>8. OutcomeAges' /\ BoundedAge'
  BY <1>1 DEF AgeInv, OutcomeAges, BoundedAge
<1> QED  BY <1>5, <1>6, <1>7, <1>8 DEF AgeInv

LEMMA LeaveKeepsAges == ASSUME AgeInv, UNCHANGED <<want, served, entry, left, flight, timer,
                               outcome, asked, since>> PROVE AgeInv'
BY DEF AgeInv, NameTypes, EntryAges, OfferAges, OutcomeAges, BoundedAge

LEMMA AgeInvariance == NameSpec => []AgeInv
<1>1. ASSUME AgeInv, NameNext PROVE AgeInv'
  <2>1. ASSUME NEW c \in Dialers, LookUp(c) \/ Share(c) \/ UseAnswer(c) PROVE AgeInv'
    BY <1>1, <2>1, LookUpKeepsAges, ShareKeepsAges, UseKeepsAges
  <2>2. ASSUME NEW r \in Resolvers, ResolverAnswers(r) \/ HearFailure(r) \/ HearSuccess(r)
        PROVE  AgeInv'
    BY <1>1, <2>2, AnswerKeepsAges, HearKeepsAges
  <2>3. ASSUME NEW l \in Losers, LoserLeaves(l) PROVE AgeInv'
    BY <1>1, <2>3, LeaveKeepsAges DEF LoserLeaves
  <2>4. CASE TimeOut
    BY <1>1, <2>4, ConcludeKeepsAges DEF TimeOut, Fresh
  <2>5. CASE EndFlight \/ NameTick
    BY <1>1, <2>5, EndKeepsAges, TickKeepsAges
  <2> QED  BY <1>1, <2>1, <2>2, <2>3, <2>4, <2>5 DEF NameNext, Flight
<1>2. AgeInv /\ UNCHANGED nameVars => AgeInv'
  BY LeaveKeepsAges DEF nameVars
<1> QED  BY NameStarts, <1>1, <1>2, PTL DEF NameSpec

\* rescache.go:87-110: for any number of callers and resolvers, and any times to live, an
\* address is used no longer than its TTL after the lookup that brought it, and an error
\* no longer than the shorter one.
THEOREM AnswersAreFresh == NameSpec => []BoundedAge
<1>1. AgeInv => BoundedAge
  BY DEF AgeInv
<1> QED  BY AgeInvariance, <1>1, PTL

\* The failures that were counted are the resolvers that are done.
Done == {r \in Resolvers : asked[r] = "off"}
CountInv ==
    /\ asked \in [Resolvers -> {"off", "asking", "success", "failed"}]
    /\ flight = "racing" => failures = Cardinality(Done)

LEMMA DoneIsFinite == IsFiniteSet(Done) /\ Cardinality(Done) \in Nat /\ Done \subseteq Resolvers
BY ResolversAssumption, FS_Subset, FS_CardinalityType DEF Done

LEMMA CountKeeps == ASSUME CountInv, NameNext PROVE CountInv'
<1>1. ASSUME NEW c \in Dialers, LookUp(c) \/ UseAnswer(c) PROVE CountInv'
  BY <1>1 DEF LookUp, UseAnswer, CountInv, Done
<1>2. ASSUME NEW c \in Dialers, Share(c) PROVE CountInv'
  <2>1. CASE flight # "off"
    BY <1>2, <2>1 DEF Share, CountInv, Done
  <2>2. CASE flight = "off"
    <3>1. asked' = [r \in Resolvers |-> "asking"] /\ failures' = 0
      BY <1>2, <2>2 DEF Share
    <3>2. Done' = {}
      BY <3>1 DEF Done
    <3> QED  BY <3>1, <3>2, FS_EmptySet DEF CountInv
  <2> QED  BY <2>1, <2>2
<1>3. ASSUME NEW r \in Resolvers, ResolverAnswers(r) PROVE CountInv'
  <2>1. PICK said \in {"success", "failed"} : asked' = [asked EXCEPT ![r] = said]
    BY <1>3 DEF ResolverAnswers
  <2>2. asked[r] = "asking" /\ UNCHANGED <<flight, failures>>
    BY <1>3 DEF ResolverAnswers
  <2>3. Done' = Done
    BY <2>1, <2>2 DEF CountInv, Done
  <2> QED  BY <2>1, <2>2, <2>3 DEF CountInv
<1>4. ASSUME NEW r \in Resolvers, HearFailure(r), failures + 1 # Cardinality(Resolvers)
      PROVE  CountInv'
  <2>1. /\ flight = "racing" /\ asked[r] = "failed" /\ failures' = failures + 1
        /\ asked' = [asked EXCEPT ![r] = "off"] /\ UNCHANGED flight
    BY <1>4 DEF HearFailure
  <2>2. Done' = Done \cup {r} /\ r \notin Done
    BY <2>1 DEF CountInv, Done
  <2>3. Cardinality(Done \cup {r}) = Cardinality(Done) + 1
    BY <2>2, DoneIsFinite, FS_AddElement
  <2> QED  BY <2>1, <2>2, <2>3 DEF CountInv
<1>5. ASSUME NEW a, NEW done, Conclude(a, done) PROVE CountInv'
  BY <1>5 DEF Conclude, CountInv
<1>6. ASSUME NEW r \in Resolvers, HearFailure(r) \/ HearSuccess(r) PROVE CountInv'
  BY <1>4, <1>5, <1>6 DEF HearFailure, HearSuccess
<1>7. CASE EndFlight
  BY <1>7 DEF EndFlight, CountInv
<1>8. CASE TimeOut
  BY <1>5, <1>8 DEF TimeOut
<1>9. CASE NameTick \/ \E l \in Losers : LoserLeaves(l)
  BY <1>9 DEF NameTick, LoserLeaves, CountInv, Done
<1> QED  BY <1>1, <1>2, <1>3, <1>6, <1>7, <1>8, <1>9 DEF NameNext, Flight

\* The lookup is not given up while a resolver may still succeed.
LEMMA GivesUpLast ==
    ASSUME CountInv, NameNext, flight = "racing", flight' = "over", \A a \in outcome' : ~a.ok
    PROVE  timer = 0 \/ \A r \in Resolvers : asked[r] \in {"failed", "off"}
<1>1. CASE TimeOut
  BY <1>1 DEF TimeOut
<1>2. ASSUME NEW r \in Resolvers, HearSuccess(r) PROVE FALSE
  <2>1. outcome' = {Fresh(TRUE, since[r])}
    BY <1>2 DEF HearSuccess, Conclude
  <2> QED  BY <2>1 DEF Fresh
<1>3. ASSUME NEW r \in Resolvers, HearFailure(r)
      PROVE  \A q \in Resolvers : asked[q] \in {"failed", "off"}
  <2>1. asked[r] = "failed" /\ failures + 1 = Cardinality(Resolvers)
    BY <1>3 DEF HearFailure
  <2>2. failures = Cardinality(Done) /\ r \notin Done
    BY <2>1 DEF CountInv, Done
  <2>3. Cardinality(Done \cup {r}) = Cardinality(Resolvers)
    BY <2>1, <2>2, DoneIsFinite, FS_AddElement
  <2>4. Done \cup {r} = Resolvers
    BY <2>3, DoneIsFinite, ResolversAssumption, FS_Subset
  <2> QED  BY <2>1, <2>4 DEF Done
<1>4. ~ \E c \in Dialers : LookUp(c) \/ Share(c) \/ UseAnswer(c)
  BY DEF LookUp, Share, UseAnswer
<1>5. /\ ~ \E r \in Resolvers : ResolverAnswers(r)
      /\ ~ \E l \in Losers : LoserLeaves(l)
      /\ ~EndFlight /\ ~NameTick
  BY DEF ResolverAnswers, LoserLeaves, EndFlight, NameTick
<1> QED  BY <1>1, <1>2, <1>3, <1>4, <1>5 DEF NameNext, Flight

\* fast.go:62-74: a lookup fails when its time is up or every resolver has failed, for any
\* number of them.
THEOREM FailuresAreUnanimous == NameSpec => FailsWhenAllDo
<1>1. NameInit => CountInv
  BY DEF NameInit, CountInv
<1>2. CountInv /\ UNCHANGED nameVars => CountInv'
  BY DEF nameVars, CountInv, Done
<1>3. CountInv /\ [NameNext]_nameVars =>
        [(flight = "racing" /\ flight' = "over" /\ \A a \in outcome' : ~a.ok)
          => timer = 0 \/ \A r \in Resolvers : asked[r] \in {"failed", "off"}]_nameVars
  BY GivesUpLast
<1> QED  BY <1>1, CountKeeps, <1>2, <1>3, PTL DEF NameSpec, FailsWhenAllDo
===============================================================================

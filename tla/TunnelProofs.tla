---------------------------- MODULE TunnelProofs ----------------------------
(***************************************************************************)
(* A tunnel carries its answer and both streams in order, and whole where  *)
(* nobody breaks it, for any number of chunks.                             *)
(*                                                                         *)
(* What a side has sent is, from the first chunk to the last: what has     *)
(* been delivered, what a goroutine holds, what was buffered when the      *)
(* connection was hijacked, and what is in the connection (Queued).  That  *)
(* ends only where the other side can never be written to again (Gone).    *)
(***************************************************************************)
EXTENDS Tunnel, TLAPS, SequenceTheorems

\* Chunks of side s that are delivered, held and buffered.
Carried(s) == IF s = "client" THEN Len(got["target"])
              ELSE IF got["client"] = <<>> THEN 0 ELSE Len(got["client"]) - 1
InHand(s) == IF copier[s] = "write" THEN 1 ELSE 0
Rescued(s) == IF s = "client" THEN Len(early) ELSE 0

Queued(s) ==
    /\ copier[s] = "write" => held[s] = Carried(s) + 1
    /\ s = "client" => \A i \in 1..Len(early) : early[i] = Carried(s) + InHand(s) + i
    /\ \A i \in 1..Len(net[s]) : net[s][i] = Carried(s) + InHand(s) + Rescued(s) + i
    /\ sent[s] = Carried(s) + InHand(s) + Rescued(s) + Len(net[s])

Gone(s) == pc # "dial" /\ WriteError(Other(s))

InLine == \A s \in Sides : Gone(s) \/ Queued(s)

\* What is delivered is numbered, the answer comes first.
Delivered ==
    /\ \A s \in Sides : Carried(s) <= sent[s]
    /\ \A i \in 1..Len(got["target"]) : got["target"][i] = i
    /\ \A i \in 1..Len(got["client"]) : i # 1 => got["client"][i] = i - 1
    /\ got["client"] # <<>> => got["client"][1] \in {Established, Refused}
    /\ (pc \in {"early", "main"} /\ got["client"] = <<>> /\ pending # "unsent")
          => WriteError("client")

\* What is where at each place of the handler.
Before == {"dial", "register", "upgrade"}
Places ==
    /\ pc \in Before => /\ got["client"] = <<>> /\ got["target"] = <<>>
                        /\ early = <<>> /\ pending = "none"
    /\ pc \in Before => \A s \in Sides : copier[s] = "off"
    /\ pc \in {"early", "main"} => \A s \in Sides : copier[s] # "off"
    /\ pc \notin {"early", "main"} => \A s \in Sides : copier[s] \in {"off", "done"}
    /\ pc = "early" => copier["target"] # "write" /\ version = 1
    /\ pending = "unsent" => got["client"] = <<>>
    /\ pending = "none" => early = <<>> /\ pc # "early"
    /\ pc = "early" => pending = "unsent"
    /\ (pc # "early" \/ copier["client"] \in {"close", "done"}) => early = <<>> \/ Gone("client")
    /\ pc = "dial" => sent["target"] = 0 /\ net["target"] = <<>>

\* As long as nobody breaks it, a connection is closed when its stream is through.
ClientOpen == readable["client"] /\ writable["client"]
Flowing == /\ readable["target"]
           /\ writable["target"] \/ (pc = "main" /\ copier["client"] = "done")
           /\ writable["client"] \/ (pc = "main" /\ copier["target"] = "done")
           /\ HasCloseWrite("client") => readable["client"]
Through(s) ==
    /\ copier[s] = "off" => got["client"] # <<>> /\ got["client"][1] = Refused
    /\ (copier[s] \in {"close", "done"} /\ (s = "client" => HasCloseWrite("client")))
          => fin[s] /\ Carried(s) = sent[s]
Sound ==
    Undisturbed =>
        /\ pc \in Before => ClientOpen
        /\ pc \in {"register", "upgrade", "early", "main"} => Flowing
        /\ pc \notin Before \cup {"early"} => \A s \in Sides : Through(s)

TunInv == TypeOK /\ InLine /\ Delivered /\ Places /\ Sound

-----------------------------------------------------------------------------
(* Types.                                                                  *)

LEMMA TwoSides == /\ "client" \in Sides /\ "target" \in Sides
                  /\ \A s \in Sides : Other(s) \in Sides /\ Other(s) # s
                  /\ Other("client") = "target" /\ Other("target") = "client"
                  /\ \A s \in Sides : s # "client" => s = "target"
BY DEF Sides, Other

LEMMA AnswerTypes == ASSUME Types, NEW a \in 0..Chunks + 1, Answer(a)
                     PROVE  got' \in [Sides -> Seq(0..Chunks + 1)]
<1>1. got' = got \/ got' = [got EXCEPT !["client"] = Append(@, a)]
  BY DEF Answer
<1>2. Append(got["client"], a) \in Seq(0..Chunks + 1)
  BY TwoSides DEF Types
<1> QED  BY <1>1, <1>2 DEF Types

LEMMA HandlerTypes ==
    ASSUME Types, Dial \/ DialFails \/ Handler \/ CancelRequest PROVE Types'
<1> USE TwoSides, TunnelAssumption
<1>1. Established \in 0..Chunks + 1 /\ Refused \in 0..Chunks + 1
  BY DEF Established, Refused
<1>2. CASE Dial
  BY <1>2 DEF Dial, peers, Types
<1>3. CASE DialFails
  <2>1. got' \in [Sides -> Seq(0..Chunks + 1)]
    BY <1>1, <1>3, AnswerTypes DEF DialFails
  <2> QED  BY <1>3, <2>1 DEF DialFails, peers, Types
<1>4. CASE Register
  BY <1>4 DEF Register, peers, Types
<1>5. CASE Upgrade
  <2>1. got' \in [Sides -> Seq(0..Chunks + 1)]
    <3>1. got' = got \/ Answer(Established)
      BY <1>5 DEF Upgrade
    <3> QED  BY <1>1, <3>1, AnswerTypes DEF Types
  <2>2. early' \in Seq(1..Chunks) /\ net' \in [Sides -> Seq(1..Chunks)]
    <3>1. CASE UNCHANGED <<early, net>>
      BY <3>1 DEF Types
    <3>2. ASSUME NEW k \in 0..Len(net["client"]), early' = SubSeq(net["client"], 1, k),
                 net' = [net EXCEPT !["client"] = SubSeq(@, k + 1, Len(@))]
          PROVE  early' \in Seq(1..Chunks) /\ net' \in [Sides -> Seq(1..Chunks)]
      <4>1. net["client"] \in Seq(1..Chunks)
        BY DEF Types
      <4>2. /\ SubSeq(net["client"], 1, k) \in Seq(1..Chunks)
            /\ SubSeq(net["client"], k + 1, Len(net["client"])) \in Seq(1..Chunks)
        BY <4>1
      <4> QED  BY <3>2, <4>2 DEF Types
    <3> QED  BY <1>5, <3>1, <3>2 DEF Upgrade
  <2>3. /\ pc' \in {"early", "main"} /\ pending' \in {"none", "unsent", "sent"}
        /\ copier' = [s \in Sides |-> "read"]
        /\ UNCHANGED <<version, held, sent>>
    BY <1>5 DEF Upgrade, StartForward, Types, peers
  <2> QED  BY <2>1, <2>2, <2>3 DEF Types
<1>6. CASE HijackFails
  <2>1. got' \in [Sides -> Seq(0..Chunks + 1)]
    BY <1>1, <1>6, AnswerTypes DEF HijackFails
  <2> QED  BY <1>6, <2>1 DEF HijackFails, peers, Types
<1>7. CASE ForwardReturns
  <2>1. /\ pc' \in {"main", "closeClient", "closeTarget"}
        /\ copier' = copier \/ copier' = [s \in Sides |-> "read"]
        /\ UNCHANGED <<version, pending, early, held, net, sent, got>>
    BY <1>7 DEF ForwardReturns, StartForward, peers
  <2> QED  BY <2>1 DEF Types
<1>8. CASE Deferred
  BY <1>8 DEF Deferred, peers, Types
<1>9. CASE Notice
  BY <1>9 DEF Notice, handler, peers, Types
<1>10. CASE CancelRequest
  BY <1>10 DEF CancelRequest, Types
<1> QED  BY <1>2, <1>3, <1>4, <1>5, <1>6, <1>7, <1>8, <1>9, <1>10 DEF Handler

LEMMA SideTypes ==
    ASSUME Types, NEW s \in Sides, Copier(s) \/ Send(s) \/ Change(s) PROVE Types'
<1> USE TwoSides, TunnelAssumption
<1>1. CASE Read(s)
  <2>1. CASE copier' = [copier EXCEPT ![s] = "close"] /\ UNCHANGED <<held, net, early>>
    BY <1>1, <2>1 DEF Read, Types, peers
  <2>2. CASE /\ Source(s) # <<>> /\ held' = [held EXCEPT ![s] = Head(Source(s))]
             /\ copier' = [copier EXCEPT ![s] = "write"]
             /\ IF pc = "early" THEN early' = Tail(early) /\ UNCHANGED net
                ELSE net' = [net EXCEPT ![s] = Tail(@)] /\ UNCHANGED early
    <3>0. /\ pc \in {"early", "main"}
          /\ UNCHANGED <<version, pc, pending, sent, got>>
      BY <1>1 DEF Read, peers
    <3>1. CASE pc = "early"
      <4>1. /\ early # <<>> /\ held' = [held EXCEPT ![s] = Head(early)]
            /\ early' = Tail(early) /\ UNCHANGED net
            /\ copier' = [copier EXCEPT ![s] = "write"]
        BY <2>2, <3>1 DEF Source
      <4>2. early \in Seq(1..Chunks)
        BY DEF Types
      <4>3. Head(early) \in 1..Chunks /\ Tail(early) \in Seq(1..Chunks)
        BY <4>1, <4>2, HeadTailProperties
      <4>4. held' \in [Sides -> 0..Chunks]
        <5>1. held \in [Sides -> 0..Chunks]
          BY DEF Types
        <5>2. Head(early) \in 0..Chunks
          BY <4>3
        <5> QED  BY <4>1, <5>1, <5>2
      <4>5. copier' \in [Sides -> {"off", "read", "write", "close", "done"}]
        BY <4>1 DEF Types
      <4> QED  BY <3>0, <4>1, <4>3, <4>4, <4>5 DEF Types
    <3>2. CASE pc = "main"
      <4>1. /\ net[s] # <<>> /\ held' = [held EXCEPT ![s] = Head(net[s])]
            /\ net' = [net EXCEPT ![s] = Tail(@)] /\ UNCHANGED early
            /\ copier' = [copier EXCEPT ![s] = "write"]
        BY <2>2, <3>2 DEF Source
      <4>2. net[s] \in Seq(1..Chunks)
        BY DEF Types
      <4>3. Head(net[s]) \in 1..Chunks /\ Tail(net[s]) \in Seq(1..Chunks)
        BY <4>1, <4>2, HeadTailProperties
      <4>4. held' \in [Sides -> 0..Chunks]
        <5>1. held \in [Sides -> 0..Chunks]
          BY DEF Types
        <5>2. Head(net[s]) \in 0..Chunks
          BY <4>3
        <5> QED  BY <4>1, <5>1, <5>2
      <4>5. net' \in [Sides -> Seq(1..Chunks)]
        BY <4>1, <4>3 DEF Types
      <4>6. copier' \in [Sides -> {"off", "read", "write", "close", "done"}]
        BY <4>1 DEF Types
      <4> QED  BY <3>0, <4>1, <4>4, <4>5, <4>6 DEF Types
    <3> QED  BY <3>0, <3>1, <3>2
  <2> QED  BY <1>1, <2>1, <2>2 DEF Read
<1>2. CASE Write(s)
  <2>1. got' \in [Sides -> Seq(0..Chunks + 1)]
    <3>1. PICK a \in {<<Established>>, <<>>} :
             got' = [got EXCEPT ![Other(s)] = @ \o a \o <<held[s]>>] \/ got' = got
      BY <1>2 DEF Write
    <3>2. got[Other(s)] \in Seq(0..Chunks + 1) /\ held[s] \in 0..Chunks + 1
      BY DEF Types
    <3>3. a \in Seq(0..Chunks + 1)
      <4>1. <<Established>> \in Seq(0..Chunks + 1) /\ <<>> \in Seq(0..Chunks + 1)
        BY DEF Established
      <4> QED  BY <4>1
    <3>4. <<held[s]>> \in Seq(0..Chunks + 1)
      BY <3>2
    <3>5. got[Other(s)] \o a \o <<held[s]>> \in Seq(0..Chunks + 1)
      BY <3>2, <3>3, <3>4, ConcatProperties
    <3>6. ASSUME got' = [got EXCEPT ![Other(s)] = got[Other(s)] \o a \o <<held[s]>>]
          PROVE  got' \in [Sides -> Seq(0..Chunks + 1)]
      BY <3>5, <3>6 DEF Types
    <3>7. got \in [Sides -> Seq(0..Chunks + 1)]
      BY DEF Types
    <3> QED  BY <3>1, <3>6, <3>7
  <2>2. /\ pending' \in {"none", "unsent", "sent"}
        /\ copier' \in [Sides -> {"off", "read", "write", "close", "done"}]
        /\ UNCHANGED <<version, pc, early, held, net, sent>>
    BY <1>2 DEF Write, Types, peers
  <2> QED  BY <2>1, <2>2 DEF Types
<1>3. CASE CloseWrite(s)
  <2>1. /\ UNCHANGED <<version, pc, early, pending, held, net, sent, got>>
        /\ copier' = [copier EXCEPT ![s] = "done"]
    BY <1>3 DEF CloseWrite, handler, peers
  <2> QED  BY <2>1 DEF Types
<1>4. CASE Send(s)
  <2>1. sent[s] + 1 \in 1..Chunks
    <3>1. sent[s] \in 0..Chunks
      BY DEF Types
    <3>2. sent[s] < Chunks
      BY <1>4 DEF Send
    <3> QED  BY <3>1, <3>2
  <2>2. net[s] \in Seq(1..Chunks)
    BY DEF Types
  <2>3. Append(net[s], sent[s] + 1) \in Seq(1..Chunks)
    BY <2>1, <2>2, AppendProperties
  <2>4. /\ sent' = [sent EXCEPT ![s] = sent[s] + 1]
        /\ net' = [net EXCEPT ![s] = Append(net[s], sent[s] + 1)]
        /\ UNCHANGED <<version, pc, copier, held, early, pending, got>>
    BY <1>4 DEF Send, handler
  <2>5. sent' \in [Sides -> 0..Chunks] /\ net' \in [Sides -> Seq(1..Chunks)]
    <3>1. sent \in [Sides -> 0..Chunks] /\ net \in [Sides -> Seq(1..Chunks)]
      BY DEF Types
    <3>2. sent' \in [Sides -> 0..Chunks]
      BY <2>1, <2>4, <3>1
    <3>3. net' \in [Sides -> Seq(1..Chunks)]
      BY <2>3, <2>4, <3>1
    <3> QED  BY <3>2, <3>3
  <2> QED  BY <2>4, <2>5 DEF Types
<1>5. CASE Change(s)
  BY <1>5 DEF Change, handler, Types
<1> QED  BY <1>1, <1>2, <1>3, <1>4, <1>5 DEF Copier

-----------------------------------------------------------------------------
(* Connections only wear out: what is broken or closed stays so.           *)

\* The flags of a connection, once it is there.
Worn == \A s \in Sides : /\ broken[s] => broken'[s]
                         /\ pc # "dial" /\ ~writable[s] => ~writable'[s]

LEMMA HandlerFlags ==
    ASSUME Flags, Dial \/ DialFails \/ Handler \/ CancelRequest
    PROVE  Flags' /\ Worn /\ (pc # "dial" => pc' # "dial") /\ (cancelled => cancelled')
<1> USE DEF Flags, Worn
<1>1. CASE Dial
  BY <1>1, TwoSides DEF Dial, peers
<1>2. CASE DialFails \/ Register \/ HijackFails
  <2>1. /\ pc' # "dial"
        /\ registered' = TRUE \/ registered' = registered
        /\ UNCHANGED <<cancelled, noticed>>
        /\ UNCHANGED <<readable, writable, fin, broken, stalled>>
    <3>1. CASE DialFails
      BY <3>1 DEF DialFails, peers, ends
    <3>2. CASE Register
      BY <3>2 DEF Register, peers, ends
    <3>3. CASE HijackFails
      BY <3>3 DEF HijackFails, peers, ends
    <3> QED  BY <1>2, <3>1, <3>2, <3>3
  <2> QED  BY <2>1
<1>3. CASE Upgrade
  <2>1. /\ pc = "upgrade" /\ pc' # "dial" /\ noticed' = FALSE
        /\ UNCHANGED <<registered, cancelled>>
        /\ UNCHANGED <<readable, writable, fin, broken, stalled>>
    BY <1>3 DEF Upgrade, StartForward, peers, ends
  <2> QED  BY <2>1
<1>4. CASE ForwardReturns
  <2>1. /\ pc' # "dial"
        /\ UNCHANGED <<registered, cancelled>>
        /\ UNCHANGED <<readable, writable, fin, broken, stalled>>
    BY <1>4 DEF ForwardReturns, peers, ends
  <2>2. noticed' = FALSE \/ UNCHANGED noticed
    BY <1>4 DEF ForwardReturns, StartForward
  <2>3. CASE noticed' = FALSE
    BY <2>1, <2>3
  <2>4. CASE UNCHANGED noticed
    BY <2>1, <2>4
  <2> QED  BY <2>2, <2>3, <2>4
<1>5. CASE Deferred
  BY <1>5, TwoSides DEF Deferred, CloseBoth, peers, ends
<1>6. CASE Notice
  <2>1. /\ pc \in {"early", "main"} /\ cancelled /\ noticed' = TRUE
        /\ UNCHANGED <<pc, registered, cancelled, peers>>
        /\ \/ UNCHANGED ends
           \/ /\ readable' = [s \in Sides |-> FALSE]
              /\ writable' = [s \in Sides |-> s = "client" /\ version = 2 /\ writable[s]]
    BY <1>6 DEF Notice, handler
  <2>2. CASE UNCHANGED ends
    BY <2>1, <2>2 DEF peers, ends
  <2>3. CASE /\ readable' = [s \in Sides |-> FALSE]
             /\ writable' = [s \in Sides |-> s = "client" /\ version = 2 /\ writable[s]]
    BY <2>1, <2>3 DEF peers
  <2> QED  BY <2>1, <2>2, <2>3
<1>7. CASE CancelRequest
  <2>1. /\ cancelled' = TRUE
        /\ UNCHANGED <<pc, registered, noticed, ends, fin, stalled>>
        /\ broken' = broken \/ broken' = [broken EXCEPT !["client"] = TRUE]
    BY <1>7 DEF CancelRequest
  <2> QED  BY <2>1 DEF ends
<1> QED  BY <1>1, <1>2, <1>3, <1>4, <1>5, <1>6, <1>7 DEF Handler

LEMMA SideFlags ==
    ASSUME Flags, NEW s \in Sides, Copier(s) \/ Send(s) \/ Change(s)
    PROVE  Flags' /\ Worn /\ UNCHANGED <<pc, cancelled>>
<1>1. CASE Read(s) \/ Write(s) \/ Send(s)
  <2>1. /\ UNCHANGED <<pc, registered, cancelled, noticed>>
        /\ UNCHANGED <<readable, writable, fin, broken, stalled>>
    <3>1. CASE Read(s)
      BY <3>1 DEF Read, peers, ends
    <3>2. CASE Write(s)
      BY <3>2 DEF Write, peers, ends
    <3>3. CASE Send(s)
      BY <3>3 DEF Send, handler, ends
    <3> QED  BY <1>1, <3>1, <3>2, <3>3
  <2> QED  BY <2>1 DEF Flags, Worn
<1>2. CASE CloseWrite(s)
  <2>1. UNCHANGED <<pc, registered, cancelled, noticed, fin, broken, stalled>>
    BY <1>2 DEF CloseWrite, handler, peers
  <2>2. /\ \/ readable' = readable
           \/ readable' = [readable EXCEPT ![Other(s)] = FALSE]
        /\ \/ writable' = writable
           \/ writable' = [writable EXCEPT ![Other(s)] = FALSE]
    BY <1>2 DEF CloseWrite, Close, CloseBoth, ends
  <2>3. readable' \in [Sides -> BOOLEAN]
    BY <2>2, TwoSides DEF Flags
  <2>4. /\ writable' \in [Sides -> BOOLEAN]
        /\ \A t \in Sides : ~writable[t] => ~writable'[t]
    BY <2>2, TwoSides DEF Flags
  <2> QED  BY <2>1, <2>3, <2>4 DEF Flags, Worn
<1>3. CASE Change(s)
  <2>1. /\ UNCHANGED <<pc, registered, cancelled, noticed, readable, writable>>
        /\ fin' = fin \/ fin' = [fin EXCEPT ![s] = TRUE]
        /\ broken' = broken \/ broken' = [broken EXCEPT ![s] = TRUE]
        /\ stalled' = stalled \/ stalled' = [stalled EXCEPT ![s] = ~stalled[s]]
    BY <1>3 DEF Change, handler, ends
  <2>2. fin' \in [Sides -> BOOLEAN] /\ stalled' \in [Sides -> BOOLEAN]
    BY <2>1 DEF Flags
  <2>3. /\ broken' \in [Sides -> BOOLEAN]
        /\ \A t \in Sides : broken[t] => broken'[t]
    BY <2>1 DEF Flags
  <2> QED  BY <2>1, <2>2, <2>3 DEF Flags, Worn
<1> QED  BY <1>1, <1>2, <1>3 DEF Copier

LEMMA TypesHold ==
    ASSUME TypeOK, Next
    PROVE  TypeOK' /\ Worn /\ (cancelled => cancelled') /\ (pc # "dial" => pc' # "dial")
<1> USE DEF TypeOK
<1>1. CASE Dial \/ DialFails \/ Handler \/ CancelRequest
  BY <1>1, HandlerTypes, HandlerFlags
<1>2. ASSUME NEW s \in Sides, Copier(s) \/ Send(s) \/ Change(s)
      PROVE  TypeOK' /\ Worn /\ (cancelled => cancelled') /\ (pc # "dial" => pc' # "dial")
  BY <1>2, SideTypes, SideFlags
<1> QED  BY <1>1, <1>2 DEF Next

\* What is gone stays gone, and what is disturbed stays so.
LEMMA WornOut ==
    ASSUME TypeOK, Next
    PROVE  /\ \A s \in Sides : Gone(s) => Gone(s)'
           /\ pc # "dial" => \A s \in Sides : WriteError(s) => WriteError(s)'
           /\ Undisturbed' => Undisturbed
<1>1. Worn /\ (cancelled => cancelled') /\ (pc # "dial" => pc' # "dial")
  BY TypesHold
<1>2. pc # "dial" => \A s \in Sides : WriteError(s) => WriteError(s)'
  BY <1>1 DEF Worn, WriteError
<1>3. \A s \in Sides : Gone(s) => Gone(s)'
  BY <1>1, <1>2, TwoSides DEF Gone
<1>4. Undisturbed' => Undisturbed
  BY <1>1 DEF Worn, Undisturbed
<1> QED  BY <1>2, <1>3, <1>4

-----------------------------------------------------------------------------
(* The stream of a side stays in line.                                     *)

\* The chunks of side s are where they were.
Still(s) == /\ held'[s] = held[s] /\ net'[s] = net[s] /\ sent'[s] = sent[s]
            /\ s = "client" => early' = early
            /\ copier'[s] = "write" <=> copier[s] = "write"
            /\ Carried(s)' = Carried(s)

LEMMA StillQueued == ASSUME NEW s \in Sides, Queued(s), Still(s) PROVE Queued(s)'
<1>1. InHand(s)' = InHand(s) /\ Rescued(s)' = Rescued(s)
  BY DEF Still, InHand, Rescued
<1> QED  BY <1>1 DEF Still, Queued

\* A side that is still, or gone, or in line again.
LEMMA InLineFrom ==
    ASSUME TypeOK, Next, InLine,
           \A s \in Sides : Still(s) \/ (~Gone(s) /\ Queued(s) => Gone(s)' \/ Queued(s)')
    PROVE  InLine'
<1> SUFFICES ASSUME NEW s \in Sides PROVE Gone(s)' \/ Queued(s)'
  BY DEF InLine
<1>1. CASE Gone(s)
  BY <1>1, WornOut
<1>2. CASE ~Gone(s) /\ Queued(s)
  BY <1>2, StillQueued
<1> QED  BY <1>1, <1>2 DEF InLine

\* The answer to the client is no chunk.
LEMMA AnswerCarries ==
    ASSUME TypeOK, NEW a \in 0..Chunks + 1, got["client"] = <<>>, Answer(a)
    PROVE  \A s \in Sides : Carried(s)' = Carried(s)
<1>1. got["client"] = <<>> /\ got \in [Sides -> Seq(0..Chunks + 1)]
  BY DEF TypeOK, Types
<1>2. CASE UNCHANGED got
  BY <1>2 DEF Carried
<1>3. CASE got' = [got EXCEPT !["client"] = Append(got["client"], a)]
  <2>1. got'["client"] = <<a>> /\ got'["target"] = got["target"]
    BY <1>1, <1>3, TwoSides
  <2>2. Len(<<a>>) = 1 /\ <<a>> # <<>>
    OBVIOUS
  <2> QED  BY <1>1, <2>1, <2>2 DEF Carried
<1> QED  BY <1>2, <1>3 DEF Answer

\* Hijacking moves the buffered chunks from the connection to the buffer.
LEMMA HijackInLine ==
    ASSUME TypeOK, Places, pc = "upgrade", NEW k \in 0..Len(net["client"]),
           Queued("client"), early' = SubSeq(net["client"], 1, k),
           net' = [net EXCEPT !["client"] = SubSeq(@, k + 1, Len(@))],
           copier' = [s \in Sides |-> "read"], UNCHANGED sent,
           \A s \in Sides : Carried(s)' = Carried(s)
    PROVE  Queued("client")'
<1> DEFINE n == net["client"]
<1>1. /\ n \in Seq(1..Chunks) /\ net \in [Sides -> Seq(1..Chunks)]
      /\ copier["client"] = "off" /\ early = <<>>
  BY TwoSides DEF TypeOK, Types, Places, Before
<1>2. InHand("client") = 0 /\ Rescued("client") = 0 /\ InHand("client")' = 0
      /\ copier'["client"] # "write" /\ Len(early) = 0
  BY <1>1, TwoSides DEF InHand, Rescued
<1>3. /\ \A i \in 1..Len(n) : n[i] = Carried("client") + i
      /\ sent["client"] = Carried("client") + Len(n)
      /\ Carried("client") \in Nat
  <2>1. Carried("client") \in Nat
    BY TwoSides DEF Carried, TypeOK, Types
  <2> QED  BY <1>2, <2>1 DEF Queued
<1>4. Len(n) \in Nat /\ k \in Nat /\ k <= Len(n)
  BY <1>1
<1>5. /\ Len(early') = k
      /\ \A i \in 1..k : early'[i] = n[i]
  BY <1>1, <1>4
<1>6. net'["client"] = SubSeq(n, k + 1, Len(n))
  BY <1>1, TwoSides
<1>7. /\ Len(net'["client"]) = Len(n) - k
      /\ \A i \in 1..Len(n) - k : net'["client"][i] = n[k + i]
  BY <1>1, <1>4, <1>6
<1>8. Rescued("client")' = k
  BY <1>5 DEF Rescued
<1>9. \A i \in 1..Len(early') : early'[i] = Carried("client") + i
  BY <1>3, <1>4, <1>5
<1>10. \A i \in 1..Len(net'["client"]) : net'["client"][i] = Carried("client") + k + i
  BY <1>3, <1>4, <1>7
<1>11. sent'["client"] = Carried("client") + k + Len(net'["client"])
  BY <1>3, <1>4, <1>7
<1>12. Carried("client")' = Carried("client")
  BY TwoSides
<1> QED  BY <1>2, <1>3, <1>4, <1>8, <1>9, <1>10, <1>11, <1>12 DEF Queued

LEMMA HandlerInLine ==
    ASSUME TypeOK, InLine, Places, Next, Dial \/ DialFails \/ Handler \/ CancelRequest
    PROVE  InLine'
<1>1. Established \in 0..Chunks + 1 /\ Refused \in 0..Chunks + 1
  BY TunnelAssumption DEF Established, Refused
<1>2. CASE Dial \/ Register \/ Deferred \/ Notice \/ CancelRequest
  <2>1. UNCHANGED <<held, early, net, sent, got, copier>>
    <3>1. CASE Dial
      BY <3>1 DEF Dial, peers
    <3>2. CASE Register
      BY <3>2 DEF Register, peers
    <3>3. CASE Deferred
      BY <3>3 DEF Deferred, peers
    <3>4. CASE Notice
      BY <3>4 DEF Notice, handler, peers
    <3>5. CASE CancelRequest
      BY <3>5 DEF CancelRequest
    <3> QED  BY <1>2, <3>1, <3>2, <3>3, <3>4, <3>5
  <2>2. \A s \in Sides : Still(s)
    BY <2>1 DEF Still, Carried
  <2> QED  BY <2>2, InLineFrom
<1>3. CASE ForwardReturns
  <2>1. /\ UNCHANGED <<held, early, net, sent, got>>
        /\ copier' = copier \/ copier' = [s \in Sides |-> "read"]
        /\ \A s \in Sides : copier[s] = "done"
    BY <1>3 DEF ForwardReturns, StartForward, peers
  <2>2. \A s \in Sides : copier'[s] = "write" <=> copier[s] = "write"
    BY <2>1
  <2>3. \A s \in Sides : Still(s)
    BY <2>1, <2>2 DEF Still, Carried
  <2> QED  BY <2>3, InLineFrom
<1>4. CASE DialFails \/ HijackFails
  <2>1. /\ UNCHANGED <<held, early, net, sent, copier>>
        /\ Answer(Refused) /\ pc \in Before
    <3>1. CASE DialFails
      BY <3>1 DEF DialFails, peers, Before
    <3>2. CASE HijackFails
      BY <3>2 DEF HijackFails, peers, Before
    <3> QED  BY <1>4, <3>1, <3>2
  <2>2. \A s \in Sides : Carried(s)' = Carried(s)
    BY <1>1, <2>1, AnswerCarries DEF Places
  <2>3. \A s \in Sides : Still(s)
    BY <2>1, <2>2 DEF Still
  <2> QED  BY <2>3, InLineFrom
<1>5. CASE Upgrade
  <2>1. /\ pc = "upgrade" /\ got["client"] = <<>>
        /\ \A s \in Sides : copier[s] = "off"
        /\ copier' = [s \in Sides |-> "read"] /\ UNCHANGED <<held, sent>>
        /\ UNCHANGED got \/ Answer(Established)
    BY <1>5 DEF Upgrade, StartForward, peers, Places, Before
  <2>2. \A s \in Sides : Carried(s)' = Carried(s)
    <3>1. CASE UNCHANGED got
      BY <3>1 DEF Carried
    <3> QED  BY <1>1, <2>1, <3>1, AnswerCarries
  <2>3. \A s \in Sides : copier'[s] = "write" <=> copier[s] = "write"
    BY <2>1
  <2>4. CASE UNCHANGED <<early, net>>
    <3>1. \A s \in Sides : Still(s)
      BY <2>1, <2>2, <2>3, <2>4 DEF Still
    <3> QED  BY <3>1, InLineFrom
  <2>5. ASSUME NEW k \in 0..Len(net["client"]), early' = SubSeq(net["client"], 1, k),
               net' = [net EXCEPT !["client"] = SubSeq(@, k + 1, Len(@))]
        PROVE  InLine'
    <3>1. net'["target"] = net["target"]
      BY <2>5, TwoSides DEF TypeOK, Types
    <3>2. Still("target")
      BY <2>1, <2>2, <2>3, <3>1, TwoSides DEF Still
    <3>3. Queued("client") => Queued("client")'
      BY <2>1, <2>2, <2>5, HijackInLine
    <3>4. \A s \in Sides : Still(s) \/ (Queued(s) => Queued(s)')
      BY <3>2, <3>3, TwoSides
    <3> QED  BY <3>4, InLineFrom
  <2> QED  BY <1>5, <2>4, <2>5 DEF Upgrade
<1> QED  BY <1>2, <1>3, <1>4, <1>5 DEF Handler

\* Facts every step on one side starts from.
LEMMA Numbers ==
    ASSUME TypeOK, NEW s \in Sides
    PROVE  /\ Carried(s) \in Nat /\ InHand(s) \in 0..1 /\ Rescued(s) \in Nat
           /\ sent[s] \in Nat /\ Len(net[s]) \in Nat
           /\ net[s] \in Seq(1..Chunks) /\ early \in Seq(1..Chunks)
<1>1. /\ got["target"] \in Seq(0..Chunks + 1) /\ got["client"] \in Seq(0..Chunks + 1)
      /\ early \in Seq(1..Chunks) /\ net[s] \in Seq(1..Chunks) /\ sent[s] \in 0..Chunks
  BY TwoSides DEF TypeOK, Types
<1>2. Carried(s) \in Nat
  BY <1>1 DEF Carried
<1>3. InHand(s) \in 0..1 /\ Rescued(s) \in Nat
  BY <1>1 DEF InHand, Rescued
<1> QED  BY <1>1, <1>2, <1>3, TunnelAssumption

\* A chunk that is read moves from the connection, or from the buffer, to the goroutine.
LEMMA ReadInLine ==
    ASSUME TypeOK, InLine, Places, Next, NEW s \in Sides, Read(s) PROVE InLine'
<1>1. \A t \in Sides : Carried(t)' = Carried(t)
  BY DEF Read, Carried
<1>2. /\ pc \in {"early", "main"} /\ copier[s] = "read" /\ UNCHANGED <<sent, got>>
  BY DEF Read, peers
<1>3. copier \in [Sides -> {"off", "read", "write", "close", "done"}]
  BY DEF TypeOK, Types
<1>4. CASE copier' = [copier EXCEPT ![s] = "close"] /\ UNCHANGED <<held, net, early>>
  <2>1. \A t \in Sides : copier'[t] = "write" <=> copier[t] = "write"
    BY <1>2, <1>3, <1>4
  <2>2. \A t \in Sides : Still(t)
    BY <1>1, <1>2, <1>4, <2>1 DEF Still
  <2> QED  BY <2>2, InLineFrom
<1>5. CASE /\ Source(s) # <<>> /\ held' = [held EXCEPT ![s] = Head(Source(s))]
           /\ copier' = [copier EXCEPT ![s] = "write"]
           /\ IF pc = "early" THEN early' = Tail(early) /\ UNCHANGED net
              ELSE net' = [net EXCEPT ![s] = Tail(@)] /\ UNCHANGED early
  <2>1. held'[s] = Head(Source(s)) /\ copier'[s] = "write"
        /\ InHand(s) = 0 /\ InHand(s)' = 1
    BY <1>2, <1>3, <1>5 DEF InHand, TypeOK, Types
  <2>2. \A t \in Sides : t # s => held'[t] = held[t] /\ copier'[t] = copier[t]
    BY <1>3, <1>5 DEF TypeOK, Types
  <2>3. CASE pc = "early"
    <3>1. /\ s = "client" /\ early # <<>> /\ held'[s] = Head(early)
          /\ early' = Tail(early) /\ UNCHANGED net
      BY <1>5, <2>1, <2>3 DEF Source
    <3>2. \A t \in Sides : t # s => Still(t)
      BY <1>1, <1>2, <2>2, <3>1 DEF Still
    <3>3. /\ Len(early) \in Nat /\ Len(early) > 0 /\ Head(early) = early[1]
          /\ Len(early') = Len(early) - 1
          /\ \A i \in 1..Len(early') : early'[i] = early[i + 1]
      BY <3>1, Numbers, HeadTailProperties
    <3>4. ASSUME Queued(s) PROVE Queued(s)'
      <4>1. /\ \A i \in 1..Len(early) : early[i] = Carried(s) + i
            /\ \A i \in 1..Len(net[s]) : net[s][i] = Carried(s) + Len(early) + i
            /\ sent[s] = Carried(s) + Len(early) + Len(net[s])
        <5>1. InHand(s) = 0 /\ Rescued(s) = Len(early) /\ Carried(s) \in Nat
          BY <2>1, <3>1, Numbers DEF Rescued
        <5>2. Carried(s) + 0 = Carried(s)
          BY <5>1
        <5> QED  BY <3>1, <3>4, <5>1, <5>2 DEF Queued
      <4>2. held'[s] = Carried(s) + 1
        BY <3>1, <3>3, <4>1
      <4>3. \A i \in 1..Len(early') : early'[i] = Carried(s) + 1 + i
        BY <3>3, <4>1, Numbers
      <4>4. Rescued(s)' = Len(early) - 1
        BY <3>1, <3>3 DEF Rescued
      <4>5. \A i \in 1..Len(net[s]) : net[s][i] = Carried(s) + 1 + (Len(early) - 1) + i
        BY <3>3, <4>1, Numbers
      <4>6. sent[s] = Carried(s) + 1 + (Len(early) - 1) + Len(net[s])
        BY <3>3, <4>1, Numbers
      <4> QED  BY <1>1, <1>2, <2>1, <3>1, <4>2, <4>3, <4>4, <4>5, <4>6 DEF Queued
    <3>5. \A t \in Sides : Still(t) \/ (Queued(t) => Queued(t)')
      BY <3>2, <3>4
    <3> QED  BY <3>5, InLineFrom
  <2>4. CASE pc = "main"
    <3>1. /\ net[s] # <<>> /\ held'[s] = Head(net[s]) /\ UNCHANGED early
          /\ net' = [net EXCEPT ![s] = Tail(net[s])]
      BY <1>5, <2>1, <2>4 DEF Source
    <3>2. net'[s] = Tail(net[s]) /\ \A t \in Sides : t # s => net'[t] = net[t]
      BY <3>1 DEF TypeOK, Types
    <3>3. \A t \in Sides : t # s => Still(t)
      BY <1>1, <1>2, <2>2, <3>1, <3>2 DEF Still
    <3>4. /\ Len(net[s]) \in Nat /\ Len(net[s]) > 0 /\ Head(net[s]) = net[s][1]
          /\ Len(net'[s]) = Len(net[s]) - 1
          /\ \A i \in 1..Len(net'[s]) : net'[s][i] = net[s][i + 1]
      <4>1. net[s] \in Seq(1..Chunks) /\ net'[s] = Tail(net[s]) /\ net[s] # <<>>
        BY <3>1, <3>2, Numbers
      <4>2. Len(net[s]) \in Nat /\ Len(net[s]) > 0
        BY <4>1
      <4>3. Head(net[s]) = net[s][1]
        BY <4>1, HeadTailProperties
      <4>4. Len(net'[s]) = Len(net[s]) - 1
        BY <4>1, HeadTailProperties
      <4>5. \A i \in 1..Len(net'[s]) : net'[s][i] = net[s][i + 1]
        BY <4>1, HeadTailProperties
      <4> QED  BY <4>2, <4>3, <4>4, <4>5
    <3>5. ASSUME ~Gone(s), Queued(s) PROVE Queued(s)'
      <4>1. Rescued(s) = 0 /\ Rescued(s)' = 0
        BY <2>4, <3>1, <3>5, Numbers DEF Places, Rescued
      <4>2. /\ \A i \in 1..Len(net[s]) : net[s][i] = Carried(s) + i
            /\ sent[s] = Carried(s) + Len(net[s])
        BY <2>1, <3>5, <4>1, Numbers DEF Queued
      <4>3. held'[s] = Carried(s) + 1
        BY <3>1, <3>4, <4>2
      <4>4. \A i \in 1..Len(net'[s]) : net'[s][i] = Carried(s) + 1 + i
        BY <3>4, <4>2, Numbers
      <4>5. sent[s] = Carried(s) + 1 + Len(net'[s])
        BY <3>4, <4>2, Numbers
      <4>6. s = "client" => Len(early) = 0
        BY <4>1 DEF Rescued
      <4>7. s = "client" => \A i \in 1..Len(early) : early[i] = Carried(s) + 1 + i
        BY <4>6
      <4>8. \A i \in 1..Len(net'[s]) : net'[s][i] = Carried(s) + 1 + 0 + i
        BY <4>4, Numbers
      <4>9. sent[s] = Carried(s) + 1 + 0 + Len(net'[s])
        BY <4>5, Numbers
      <4> QED  BY <1>1, <1>2, <2>1, <3>1, <4>1, <4>3, <4>7, <4>8, <4>9 DEF Queued
    <3>6. \A t \in Sides : Still(t) \/ (~Gone(t) /\ Queued(t) => Queued(t)')
      BY <3>3, <3>5
    <3> QED  BY <3>6, InLineFrom
  <2> QED  BY <1>2, <2>3, <2>4
<1> QED  BY <1>4, <1>5 DEF Read

LEMMA PairOf == ASSUME NEW S, NEW a \in S, NEW b \in S
                PROVE  <<>> \o <<a>> \o <<b>> = <<a, b>>
<1>1. <<a>> \in Seq(S) /\ <<b>> \in Seq(S)
  OBVIOUS
<1>2. <<>> \o <<a>> = <<a>>
  BY <1>1
<1>3. <<a>> \o <<b>> = Append(<<a>>, b)
  BY <1>1
<1>4. Append(<<a>>, b) = <<a, b>>
  <2>1. Append(<<a>>, b) \in Seq(S) /\ <<a, b>> \in Seq(S)
    OBVIOUS
  <2>2. Len(Append(<<a>>, b)) = 2 /\ Len(<<a, b>>) = 2
    OBVIOUS
  <2>3. /\ Append(<<a>>, b)[1] = a /\ <<a, b>>[1] = a
        /\ Append(<<a>>, b)[2] = b /\ <<a, b>>[2] = b
    OBVIOUS
  <2> DEFINE p == Append(<<a>>, b)
             q == <<a, b>>
  <2>4. \A i \in 1..Len(p) : p[i] = q[i]
    BY <2>2, <2>3
  <2>5. Len(p) = Len(q)
    BY <2>2
  <2> HIDE DEF p, q
  <2>6. p \in Seq(S) /\ q \in Seq(S)
    BY <2>1 DEF p, q
  <2>7. p = q
    BY <2>4, <2>5, <2>6, SeqEqual
  <2> QED  BY <2>7 DEF p, q
<1> QED  BY <1>2, <1>3, <1>4

\* A write that succeeds.
Wrote(s) ==
    LET d == Other(s)
        unsent == d = "client" /\ pending = "unsent"
    IN  /\ CanWrite(d)
        /\ got' = [got EXCEPT ![d] =
                      @ \o (IF unsent THEN <<Established>> ELSE <<>>) \o <<held[s]>>]
        /\ copier' = [copier EXCEPT ![s] = "read"]

\* It appends a chunk, or the answer and the first chunk.
LEMMA Appended ==
    ASSUME TypeOK, Places, Delivered, NEW s \in Sides, Write(s), Wrote(s)
    PROVE  /\ Carried(s)' = Carried(s) + 1
           /\ \A t \in Sides : t # s => Carried(t)' = Carried(t)
           /\ s = "client" => /\ got'["target"] = Append(got["target"], held[s])
                              /\ got'["client"] = got["client"]
           /\ s = "target" =>
                 /\ got'["target"] = got["target"]
                 /\ IF got["client"] = <<>> THEN got'["client"] = <<Established, held[s]>>
                    ELSE got'["client"] = Append(got["client"], held[s])
<1>1. /\ got \in [Sides -> Seq(0..Chunks + 1)]
      /\ got["client"] \in Seq(0..Chunks + 1) /\ got["target"] \in Seq(0..Chunks + 1)
  BY TwoSides DEF TypeOK, Types
<1>2. pc \in {"early", "main"}
  BY DEF Write, Places
<1>3. CASE s = "client"
  <2>1. got' = [got EXCEPT !["target"] = @ \o <<>> \o <<held[s]>>]
    BY <1>3, TwoSides DEF Wrote
  <2>2. /\ got'["target"] = got["target"] \o <<>> \o <<held[s]>>
        /\ got'["client"] = got["client"]
    BY <1>1, <2>1, TwoSides
  <2>3. got["target"] \o <<>> = got["target"]
    BY <1>1
  <2>4. got'["target"] = Append(got["target"], held[s])
    BY <1>1, <2>2, <2>3
  <2>5. Len(got'["target"]) = Len(got["target"]) + 1
    BY <1>1, <2>4
  <2> QED  BY <1>3, <2>2, <2>4, <2>5, TwoSides DEF Carried
<1>4. CASE s = "target"
  <2>1. CanWrite("client") /\ ~WriteError("client")
    BY <1>4, TwoSides DEF Wrote, CanWrite, WriteError
  <2>2. pending = "unsent" <=> got["client"] = <<>>
    BY <1>2, <2>1 DEF Places, Delivered
  <2>3. CASE got["client"] = <<>>
    <3>1. got' = [got EXCEPT !["client"] = @ \o <<Established>> \o <<held[s]>>]
      BY <1>4, <2>2, <2>3, TwoSides DEF Wrote
    <3>2. /\ got'["client"] = <<>> \o <<Established>> \o <<held[s]>>
          /\ got'["target"] = got["target"]
      BY <1>1, <2>3, <3>1, TwoSides
    <3>3. got'["client"] = <<Established, held[s]>>
      <4>1. Established \in Nat /\ held[s] \in Nat
        BY DEF Established, TypeOK, Types
      <4> QED  BY <3>2, <4>1, PairOf
    <3>4. Len(<<Established, held[s]>>) = 2 /\ <<Established, held[s]>> # <<>>
      OBVIOUS
    <3>5. Carried("target") = 0 /\ Carried("target")' = 1
      BY <2>3, <3>3, <3>4 DEF Carried
    <3>6. Carried("client")' = Carried("client")
      BY <3>2 DEF Carried
    <3>7. \A t \in Sides : t # s => Carried(t)' = Carried(t)
      BY <1>4, <3>6, TwoSides
    <3>8. Carried(s)' = Carried(s) + 1
      BY <1>4, <3>5
    <3> QED  BY <1>4, <2>3, <3>2, <3>3, <3>7, <3>8, Zenon
  <2>4. CASE got["client"] # <<>>
    <3>1. got' = [got EXCEPT !["client"] = @ \o <<>> \o <<held[s]>>]
      BY <1>4, <2>2, <2>4, TwoSides DEF Wrote
    <3>2. /\ got'["client"] = got["client"] \o <<>> \o <<held[s]>>
          /\ got'["target"] = got["target"]
      BY <1>1, <3>1, TwoSides
    <3>3. got["client"] \o <<>> = got["client"]
      BY <1>1
    <3>4. got'["client"] = Append(got["client"], held[s])
      BY <1>1, <3>2, <3>3
    <3>5. Len(got'["client"]) = Len(got["client"]) + 1 /\ got'["client"] # <<>>
      <4>1. held[s] \in 0..Chunks + 1
        BY TunnelAssumption DEF TypeOK, Types
      <4>2. got["client"] \in Seq(0..Chunks + 1)
        BY <1>1
      <4>3. Len(Append(got["client"], held[s])) = Len(got["client"]) + 1
        BY <4>1, <4>2, AppendProperties
      <4>4. Append(got["client"], held[s]) # <<>>
        BY <4>1, <4>2, AppendProperties
      <4> QED  BY <3>4, <4>3, <4>4
    <3>6. Len(got["client"]) \in Nat
      BY <1>1
    <3>7. Carried("target")' = Carried("target") + 1
      BY <2>4, <3>5, <3>6 DEF Carried
    <3>8. Carried("client")' = Carried("client")
      BY <3>2 DEF Carried
    <3> QED  BY <1>4, <2>4, <3>2, <3>4, <3>7, <3>8, TwoSides
  <2> QED  BY <2>3, <2>4
<1> QED  BY <1>3, <1>4, TwoSides

LEMMA WriteInLine ==
    ASSUME TypeOK, InLine, Places, Delivered, Next, NEW s \in Sides, Write(s) PROVE InLine'
<1>1. /\ copier[s] = "write" /\ UNCHANGED <<held, net, sent, early>>
      /\ copier \in [Sides -> {"off", "read", "write", "close", "done"}]
  BY DEF Write, peers, TypeOK, Types
<1>2. CASE Wrote(s)
  <2>1. copier' = [copier EXCEPT ![s] = "read"]
    BY <1>2 DEF Wrote
  <2>2. copier'[s] = "read" /\ \A t \in Sides : t # s => copier'[t] = copier[t]
    BY <1>1, <2>1
  <2>3. \A t \in Sides : t # s => Still(t)
    BY <1>1, <1>2, <2>2, Appended DEF Still
  <2>4. ASSUME Queued(s) PROVE Queued(s)'
    <3>1. InHand(s) = 1 /\ InHand(s)' = 0 /\ Rescued(s)' = Rescued(s)
      BY <1>1, <2>2 DEF InHand, Rescued
    <3>2. Carried(s)' + InHand(s)' = Carried(s) + InHand(s)
      BY <1>2, <3>1, Appended, Numbers
    <3> QED  BY <1>1, <2>2, <2>4, <3>1, <3>2 DEF Queued
  <2>5. \A t \in Sides : Still(t) \/ (Queued(t) => Queued(t)')
    BY <2>3, <2>4
  <2> QED  BY <2>5, InLineFrom
<1>3. CASE /\ WriteError(Other(s)) /\ copier' = [copier EXCEPT ![s] = "close"]
           /\ UNCHANGED got
  <2>1. pc # "dial"
    BY <1>1 DEF Places
  <2>2. Gone(s)
    BY <1>3, <2>1 DEF Gone
  <2>3. \A t \in Sides : t # s => copier'[t] = copier[t]
    BY <1>1, <1>3
  <2>4. \A t \in Sides : t # s => Still(t)
    BY <1>1, <1>3, <2>3 DEF Still, Carried
  <2>5. \A t \in Sides : Still(t) \/ Gone(t)
    BY <2>2, <2>4
  <2> QED  BY <2>5, InLineFrom
<1> QED  BY <1>2, <1>3 DEF Write, Wrote

LEMMA SendInLine ==
    ASSUME TypeOK, InLine, Next, NEW s \in Sides, Send(s) PROVE InLine'
<1>1. /\ sent' = [sent EXCEPT ![s] = sent[s] + 1]
      /\ net' = [net EXCEPT ![s] = Append(net[s], sent[s] + 1)]
      /\ UNCHANGED <<pc, copier, held, early, got>>
  BY DEF Send, handler
<1>2. net \in [Sides -> Seq(1..Chunks)] /\ sent \in [Sides -> 0..Chunks]
  BY DEF TypeOK, Types
<1>3. /\ sent'[s] = sent[s] + 1 /\ net'[s] = Append(net[s], sent[s] + 1)
      /\ \A t \in Sides : t # s => sent'[t] = sent[t] /\ net'[t] = net[t]
  BY <1>1, <1>2
<1>4. \A t \in Sides : t # s => Still(t)
  BY <1>1, <1>3 DEF Still, Carried
<1>5. ASSUME Queued(s) PROVE Queued(s)'
  <2>1. /\ InHand(s)' = InHand(s) /\ Rescued(s)' = Rescued(s) /\ Carried(s)' = Carried(s)
    BY <1>1 DEF InHand, Rescued, Carried
  <2>2. /\ Len(net'[s]) = Len(net[s]) + 1
        /\ net'[s][Len(net[s]) + 1] = sent[s] + 1
        /\ \A i \in 1..Len(net[s]) : net'[s][i] = net[s][i]
    <3>1. net[s] \in Seq(Nat) /\ sent[s] + 1 \in Nat
      BY Numbers, TunnelAssumption DEF TypeOK, Types
    <3> QED  BY <1>3, <3>1, AppendProperties
  <2>3. sent'[s] = Carried(s) + InHand(s) + Rescued(s) + Len(net'[s])
    <3>1. sent[s] = Carried(s) + InHand(s) + Rescued(s) + Len(net[s])
      BY <1>5 DEF Queued
    <3>2. /\ Carried(s) \in Nat /\ InHand(s) \in Nat /\ Rescued(s) \in Nat
          /\ sent[s] \in Nat /\ Len(net[s]) \in Nat
      BY Numbers
    <3> QED  BY <1>3, <2>2, <3>1, <3>2
  <2>4. \A i \in 1..Len(net'[s]) : net'[s][i] = Carried(s) + InHand(s) + Rescued(s) + i
    <3> TAKE i \in 1..Len(net'[s])
    <3>1. CASE i \in 1..Len(net[s])
      BY <1>5, <2>2, <3>1 DEF Queued
    <3>2. CASE i = Len(net[s]) + 1
      <4>1. sent[s] = Carried(s) + InHand(s) + Rescued(s) + Len(net[s])
        BY <1>5 DEF Queued
      <4>2. /\ Carried(s) \in Nat /\ InHand(s) \in Nat /\ Rescued(s) \in Nat
            /\ sent[s] \in Nat /\ Len(net[s]) \in Nat
        BY Numbers
      <4>3. net'[s][i] = sent[s] + 1
        BY <2>2, <3>2
      <4> QED  BY <3>2, <4>1, <4>2, <4>3
    <3> QED  BY <2>2, <3>1, <3>2, Numbers
  <2> QED  BY <1>1, <1>5, <2>1, <2>3, <2>4 DEF Queued
<1>6. \A t \in Sides : Still(t) \/ (Queued(t) => Queued(t)')
  BY <1>4, <1>5
<1> QED  BY <1>6, InLineFrom

LEMMA InLineHolds ==
    ASSUME TypeOK, InLine, Places, Delivered, Next PROVE InLine'
<1>1. CASE Dial \/ DialFails \/ Handler \/ CancelRequest
  BY <1>1, HandlerInLine
<1>2. ASSUME NEW s \in Sides, Copier(s) \/ Send(s) \/ Change(s) PROVE InLine'
  <2>1. CASE CloseWrite(s) \/ Change(s)
    <3>1. /\ UNCHANGED <<held, early, net, sent, got>>
          /\ \A t \in Sides : copier'[t] = "write" <=> copier[t] = "write"
      BY <2>1 DEF CloseWrite, Change, handler, peers, TypeOK, Types
    <3>2. \A t \in Sides : Still(t)
      BY <3>1 DEF Still, Carried
    <3> QED  BY <3>2, InLineFrom
  <2> QED  BY <1>2, <2>1, ReadInLine, WriteInLine, SendInLine DEF Copier
<1> QED  BY <1>1, <1>2 DEF Next

-----------------------------------------------------------------------------
(* What is delivered.                                                      *)

\* A step that sends nothing to either side.
LEMMA NothingDelivered ==
    ASSUME TypeOK, Delivered, Next, UNCHANGED got, \A s \in Sides : sent'[s] >= sent[s],
           (pc' \in {"early", "main"} /\ pending' # "unsent")
              => (pc \in {"early", "main"} /\ pending # "unsent")
    PROVE  Delivered'
<1>1. \A s \in Sides : Carried(s)' <= sent'[s]
  <2> TAKE s \in Sides
  <2>1. /\ Carried(s)' = Carried(s) /\ Carried(s) <= sent[s]
        /\ sent'[s] \in Nat
    BY TypesHold, TunnelAssumption DEF Carried, Delivered, TypeOK, Types
  <2> QED  BY <2>1, Numbers
<1>2. (pc' \in {"early", "main"} /\ got'["client"] = <<>> /\ pending' # "unsent")
          => WriteError("client")'
  BY WornOut, TwoSides DEF Delivered
<1> QED  BY <1>1, <1>2 DEF Delivered

\* The answer.
LEMMA AnswerDelivered ==
    ASSUME TypeOK, Delivered, Next, got["client"] = <<>>, NEW a \in {Established, Refused},
           Answer(a), UNCHANGED sent, pc' \in {"early", "main"} => pc # "dial"
    PROVE  Delivered'
<1>1. a \in 0..Chunks + 1
  BY TunnelAssumption DEF Established, Refused
<1>2. \A s \in Sides : Carried(s)' <= sent'[s]
  BY <1>1, AnswerCarries DEF Delivered
<1>3. CASE UNCHANGED got /\ WriteError("client")
  <2>1. pc' \in {"early", "main"} => WriteError("client")'
    BY <1>3, WornOut, TwoSides
  <2> QED  BY <1>2, <1>3, <2>1 DEF Delivered
<1>4. CASE got' = [got EXCEPT !["client"] = Append(got["client"], a)]
  <2>1. got \in [Sides -> Seq(0..Chunks + 1)]
    BY DEF TypeOK, Types
  <2>2. got'["client"] = <<a>> /\ got'["target"] = got["target"]
    BY <1>4, <2>1, TwoSides
  <2>3. Len(<<a>>) = 1 /\ <<a>>[1] = a /\ <<a>> # <<>>
    OBVIOUS
  <2>4. \A i \in 1..Len(got'["client"]) : i = 1
    BY <2>2, <2>3
  <2>5. got'["client"][1] \in {Established, Refused} /\ got'["client"] # <<>>
    BY <2>2, <2>3
  <2> QED  BY <1>2, <2>2, <2>4, <2>5 DEF Delivered
<1> QED  BY <1>3, <1>4 DEF Answer, WriteError

LEMMA WriteDelivered ==
    ASSUME TypeOK, InLine, Delivered, Places, Next, NEW s \in Sides, Write(s)
    PROVE  Delivered'
<1>1. /\ copier[s] = "write" /\ pc \in {"early", "main"}
      /\ UNCHANGED <<pc, sent, held>>
  BY DEF Write, Places, peers
<1>2. CASE Wrote(s)
  <2>1. ~Gone(s)
    BY <1>2 DEF Wrote, Gone, CanWrite, WriteError
  <2>2. Queued(s)
    BY <2>1 DEF InLine
  <2>3. held[s] = Carried(s) + 1 /\ held[s] <= sent[s]
    <3>1. InHand(s) = 1
      BY <1>1 DEF InHand
    <3>2. /\ held[s] = Carried(s) + 1
          /\ sent[s] = Carried(s) + InHand(s) + Rescued(s) + Len(net[s])
      BY <1>1, <2>2 DEF Queued
    <3>3. Carried(s) \in Nat /\ Rescued(s) \in Nat /\ Len(net[s]) \in Nat
      BY Numbers
    <3> QED  BY <3>1, <3>2, <3>3
  <2>4. \A t \in Sides : Carried(t)' <= sent'[t]
    BY <1>1, <1>2, <2>3, Appended DEF Delivered
  <2>5. /\ got["client"] \in Seq(0..Chunks + 1) /\ got["target"] \in Seq(0..Chunks + 1)
        /\ held[s] \in 0..Chunks + 1
    BY TwoSides, TunnelAssumption DEF TypeOK, Types
  <2>6. CASE s = "client"
    <3>1. got'["target"] = Append(got["target"], held[s]) /\ got'["client"] = got["client"]
      BY <1>2, <2>6, Appended
    <3>2. held[s] = Len(got["target"]) + 1
      BY <2>3, <2>6 DEF Carried
    <3>3. /\ Len(got'["target"]) = Len(got["target"]) + 1
          /\ got'["target"][Len(got["target"]) + 1] = held[s]
          /\ \A i \in 1..Len(got["target"]) : got'["target"][i] = got["target"][i]
      BY <2>5, <3>1, AppendProperties
    <3>4. \A i \in 1..Len(got'["target"]) : got'["target"][i] = i
      <4> TAKE i \in 1..Len(got'["target"])
      <4>1. CASE i \in 1..Len(got["target"])
        BY <3>3, <4>1 DEF Delivered
      <4>2. CASE i = Len(got["target"]) + 1
        BY <3>2, <3>3, <4>2
      <4>3. Len(got["target"]) \in Nat
        BY <2>5
      <4> QED  BY <3>3, <4>1, <4>2, <4>3
    <3>5. UNCHANGED pending
      BY <1>2, <2>6, TwoSides DEF Write, Wrote
    <3>6. (pc' \in {"early", "main"} /\ got'["client"] = <<>> /\ pending' # "unsent")
              => WriteError("client")'
      BY <1>1, <3>1, <3>5, WornOut, TwoSides DEF Delivered
    <3> QED  BY <2>4, <3>1, <3>4, <3>6 DEF Delivered
  <2>7. CASE s = "target"
    <3>1. got'["target"] = got["target"]
      BY <1>2, <2>7, Appended
    <3>2. CASE got["client"] = <<>>
      <4>1. got'["client"] = <<Established, held[s]>> /\ held[s] = 1
        BY <1>2, <2>3, <2>7, <3>2, Appended DEF Carried
      <4>2. /\ Len(<<Established, held[s]>>) = 2
            /\ <<Established, held[s]>>[1] = Established
            /\ <<Established, held[s]>>[2] = held[s]
            /\ <<Established, held[s]>> # <<>>
        OBVIOUS
      <4>3. /\ Len(got'["client"]) = 2 /\ got'["client"][1] = Established
            /\ got'["client"][2] = 1 /\ got'["client"] # <<>>
        BY <4>1, <4>2
      <4>4. \A i \in 1..Len(got'["client"]) : i # 1 => got'["client"][i] = i - 1
        BY <4>3
      <4> QED  BY <2>4, <3>1, <4>3, <4>4 DEF Delivered
    <3>3. CASE got["client"] # <<>>
      <4>1. got'["client"] = Append(got["client"], held[s])
        BY <1>2, <2>7, <3>3, Appended
      <4>2. held[s] = Len(got["client"])
        <5>1. Len(got["client"]) \in Nat
          BY <2>5
        <5> QED  BY <2>3, <2>7, <3>3, <5>1 DEF Carried
      <4>3. /\ Len(got'["client"]) = Len(got["client"]) + 1 /\ got'["client"] # <<>>
            /\ got'["client"][Len(got["client"]) + 1] = held[s]
            /\ \A i \in 1..Len(got["client"]) : got'["client"][i] = got["client"][i]
        BY <2>5, <4>1, AppendProperties
      <4>4. Len(got["client"]) \in Nat /\ Len(got["client"]) >= 1
        BY <2>5, <3>3
      <4>5. \A i \in 1..Len(got'["client"]) : i # 1 => got'["client"][i] = i - 1
        <5> TAKE i \in 1..Len(got'["client"])
        <5>1. CASE i \in 1..Len(got["client"])
          BY <4>3, <5>1 DEF Delivered
        <5>2. CASE i = Len(got["client"]) + 1
          BY <4>2, <4>3, <4>4, <5>2
        <5> QED  BY <4>3, <4>4, <5>1, <5>2
      <4>6. got'["client"][1] \in {Established, Refused}
        BY <3>3, <4>3, <4>4 DEF Delivered
      <4> QED  BY <2>4, <3>1, <4>3, <4>5, <4>6 DEF Delivered
    <3> QED  BY <3>2, <3>3
  <2> QED  BY <2>6, <2>7, TwoSides
<1>3. CASE UNCHANGED <<got, pending>>
  <2>1. \A t \in Sides : sent'[t] >= sent[t]
    BY <1>1, Numbers
  <2> QED  BY <1>1, <1>3, <2>1, NothingDelivered
<1> QED  BY <1>2, <1>3 DEF Write, Wrote

LEMMA DeliveredHolds ==
    ASSUME TypeOK, InLine, Delivered, Places, Next PROVE Delivered'
<1>1. CASE DialFails \/ HijackFails
  <2>1. Answer(Refused) /\ UNCHANGED sent /\ pc' \notin {"early", "main"} /\ pc \in Before
    BY <1>1 DEF DialFails, HijackFails, peers, Before
  <2> QED  BY <2>1, AnswerDelivered DEF Places
<1>2. CASE Upgrade
  <2>1. /\ UNCHANGED sent /\ pc = "upgrade" /\ pc \in Before
        /\ (UNCHANGED got /\ pending' = "unsent") \/ Answer(Established)
    BY <1>2 DEF Upgrade, peers, Before
  <2>2. CASE Answer(Established)
    BY <2>1, <2>2, AnswerDelivered DEF Places
  <2>3. CASE UNCHANGED got /\ pending' = "unsent"
    <3>1. \A s \in Sides : sent'[s] >= sent[s]
      BY <2>1, Numbers
    <3> QED  BY <2>3, <3>1, NothingDelivered
  <2> QED  BY <2>1, <2>2, <2>3
<1>3. CASE Dial \/ Register \/ ForwardReturns \/ Deferred \/ Notice \/ CancelRequest
  <2>1. /\ UNCHANGED <<got, pending, sent>>
        /\ pc' \in {"early", "main"} => pc \in {"early", "main"}
    <3>1. CASE Dial
      BY <3>1 DEF Dial, peers
    <3>2. CASE Register
      BY <3>2 DEF Register, peers
    <3>3. CASE ForwardReturns
      BY <3>3 DEF ForwardReturns, peers
    <3>4. CASE Deferred
      BY <3>4 DEF Deferred, peers
    <3>5. CASE Notice
      BY <3>5 DEF Notice, handler, peers
    <3>6. CASE CancelRequest
      BY <3>6 DEF CancelRequest
    <3> QED  BY <1>3, <3>1, <3>2, <3>3, <3>4, <3>5, <3>6
  <2>2. \A s \in Sides : sent'[s] >= sent[s]
    BY <2>1, Numbers
  <2> QED  BY <2>1, <2>2, NothingDelivered
<1>4. ASSUME NEW s \in Sides, Read(s) \/ CloseWrite(s) \/ Send(s) \/ Change(s)
      PROVE  Delivered'
  <2>1. /\ UNCHANGED <<got, pending, pc>>
        /\ sent' = sent \/ sent' = [sent EXCEPT ![s] = sent[s] + 1]
    <3>1. CASE Read(s)
      BY <3>1 DEF Read, peers
    <3>2. CASE CloseWrite(s)
      BY <3>2 DEF CloseWrite, handler, peers
    <3>3. CASE Send(s)
      BY <3>3 DEF Send, handler
    <3>4. CASE Change(s)
      BY <3>4 DEF Change, handler
    <3> QED  BY <1>4, <3>1, <3>2, <3>3, <3>4
  <2>2. sent \in [Sides -> 0..Chunks]
    BY DEF TypeOK, Types
  <2>3. \A t \in Sides : sent'[t] >= sent[t]
    BY <2>1, <2>2, TunnelAssumption
  <2> QED  BY <2>1, <2>3, NothingDelivered
<1> QED  BY <1>1, <1>2, <1>3, <1>4, WriteDelivered DEF Next, Handler, Copier

-----------------------------------------------------------------------------
(* What is where.                                                          *)

\* A step of a peer, or of the context.
LEMMA PlacesKept ==
    ASSUME TypeOK, Places, Next, UNCHANGED <<version, pc, copier, early, pending, got>>,
           pc = "dial" => sent'["target"] = sent["target"] /\ net'["target"] = net["target"]
    PROVE  Places'
<1>1. Gone("client") => Gone("client")'
  BY WornOut, TwoSides
<1> QED  BY <1>1 DEF Places

\* A step of the handler that leaves the buffer and the answers alone.
LEMMA HandlerPlaces ==
    ASSUME TypeOK, Places, Next, Dial \/ DialFails \/ Handler \/ CancelRequest
    PROVE  Places'
<1>1. Gone("client") => Gone("client")'
  BY WornOut, TwoSides
<1>2. CASE Dial
  BY <1>2 DEF Dial, Places, Before
<1>3. CASE DialFails
  BY <1>3 DEF DialFails, Places, Before
<1>4. CASE Register
  BY <1>4 DEF Register, Places, Before
<1>5. CASE HijackFails
  BY <1>5 DEF HijackFails, Places, Before
<1>6. CASE Deferred
  <2>1. /\ UNCHANGED <<version, copier, early, pending, got>>
        /\ pc \in {"closeClient", "closeTarget", "deregister"}
        /\ pc' \in {"closeTarget", "deregister", "done"}
    BY <1>6 DEF Deferred
  <2> QED  BY <1>1, <2>1 DEF Places, Before
<1>7. CASE Notice
  BY <1>7, PlacesKept DEF Notice, handler, peers
<1>8. CASE CancelRequest
  BY <1>8, PlacesKept DEF CancelRequest
<1>9. CASE ForwardReturns
  <2>1. /\ UNCHANGED <<version, early, pending, got>>
        /\ pc \in {"early", "main"} /\ copier["client"] = "done"
        /\ \A s \in Sides : copier[s] = "done"
        /\ IF pc = "early" THEN pc' = "main" /\ copier' = [s \in Sides |-> "read"]
           ELSE pc' \in {"closeClient", "closeTarget"} /\ UNCHANGED copier
    BY <1>9, TwoSides DEF ForwardReturns, StartForward
  <2>2. early' = <<>> \/ Gone("client")'
    BY <1>1, <2>1 DEF Places
  <2>3. pc' \notin Before
    BY <2>1 DEF Before
  <2>4. pc' \in {"early", "main"} => \A s \in Sides : copier'[s] # "off"
    BY <2>1
  <2>5. pc' \notin {"early", "main"} => \A s \in Sides : copier'[s] \in {"off", "done"}
    BY <2>1
  <2>6. pc' # "early" /\ pc' # "dial"
    BY <2>1
  <2> QED  BY <2>1, <2>2, <2>3, <2>4, <2>5, <2>6 DEF Places
<1>10. CASE Upgrade
  <2>1. /\ pc = "upgrade" /\ copier' = [s \in Sides |-> "read"] /\ UNCHANGED version
        /\ got["client"] = <<>> /\ early = <<>> /\ pending = "none"
    BY <1>10 DEF Upgrade, StartForward, Places, Before
  <2>2. \A s \in Sides : copier'[s] = "read"
    BY <2>1
  <2>3. \/ pc' = "early" /\ pending' = "unsent" /\ UNCHANGED got /\ version = 1
        \/ pc' = "main" /\ pending' = "none" /\ early' = <<>>
    <3>1. CASE version = 2 /\ UNCHANGED <<early, pending>> /\ pc' = "main"
      BY <2>1, <3>1
    <3>2. ASSUME version = 1, NEW k \in 0..Len(net["client"]),
                 early' = SubSeq(net["client"], 1, k),
                 pc' = IF k > 0 THEN "early" ELSE "main",
                 pending' = IF k > 0 THEN "unsent" ELSE "none",
                 k > 0 => UNCHANGED got
          PROVE  \/ pc' = "early" /\ pending' = "unsent" /\ UNCHANGED got /\ version = 1
                 \/ pc' = "main" /\ pending' = "none" /\ early' = <<>>
      <4>1. CASE k = 0
        <5>1. early' = <<>>
          BY <3>2, <4>1
        <5> QED  BY <3>2, <4>1, <5>1
      <4>2. CASE k > 0
        BY <3>2, <4>2
      <4>3. Len(net["client"]) \in Nat
        BY Numbers, TwoSides
      <4> QED  BY <3>2, <4>1, <4>2, <4>3
    <3> QED  BY <1>10, <3>1, <3>2 DEF Upgrade
  <2> QED  BY <2>1, <2>2, <2>3, TwoSides DEF Places, Before
<1> QED  BY <1>2, <1>3, <1>4, <1>5, <1>6, <1>7, <1>8, <1>9, <1>10 DEF Handler

LEMMA SidePlaces ==
    ASSUME TypeOK, Places, Next, NEW s \in Sides, Copier(s) \/ Send(s) \/ Change(s)
    PROVE  Places'
<1>1. Gone("client") => Gone("client")'
  BY WornOut, TwoSides
<1>2. copier \in [Sides -> {"off", "read", "write", "close", "done"}]
  BY DEF TypeOK, Types
<1>3. CASE Send(s)
  <2>1. pc = "dial" => sent'["target"] = sent["target"] /\ net'["target"] = net["target"]
    BY <1>3, TwoSides DEF Send, TypeOK, Types
  <2> QED  BY <1>3, <2>1, PlacesKept DEF Send, handler
<1>4. CASE Change(s)
  BY <1>4, PlacesKept DEF Change, handler
<1>5. CASE CloseWrite(s)
  <2>1. /\ UNCHANGED <<version, pc, early, pending, got, sent, net>>
        /\ copier[s] = "close" /\ copier' = [copier EXCEPT ![s] = "done"]
    BY <1>5 DEF CloseWrite, handler, peers
  <2>2. copier'[s] = "done" /\ \A t \in Sides : t # s => copier'[t] = copier[t]
    BY <1>2, <2>1
  <2>3. pc \in {"early", "main"}
    BY <2>1 DEF Places
  <2>4. (pc # "early" \/ copier'["client"] \in {"close", "done"})
            => early = <<>> \/ Gone("client")'
    BY <1>1, <2>1, <2>2, TwoSides DEF Places
  <2>5. pc \notin Before
    BY <2>3 DEF Before
  <2>6. pc' = "early" => copier'["target"] # "write" /\ version' = 1
    BY <2>1, <2>2, TwoSides DEF Places
  <2>7. \A t \in Sides : copier'[t] # "off"
    BY <2>2, <2>3 DEF Places
  <2> QED  BY <2>1, <2>3, <2>4, <2>5, <2>6, <2>7 DEF Places
<1>6. CASE Read(s)
  <2>1. /\ pc \in {"early", "main"} /\ copier[s] = "read"
        /\ UNCHANGED <<version, pc, pending, got>>
        /\ \/ copier' = [copier EXCEPT ![s] = "write"] /\ Source(s) # <<>>
              /\ (pc # "early" => UNCHANGED early)
           \/ copier' = [copier EXCEPT ![s] = "close"] /\ UNCHANGED early
              /\ (pc = "early" => Source(s) = <<>>)
    BY <1>6 DEF Read, AtEnd, ReadError
  <2>2. /\ copier'[s] \in {"write", "close"}
        /\ copier'[s] = "write" => Source(s) # <<>> /\ (pc # "early" => UNCHANGED early)
        /\ copier'[s] = "close" => UNCHANGED early /\ (pc = "early" => Source(s) = <<>>)
        /\ \A t \in Sides : t # s => copier'[t] = copier[t]
    BY <1>2, <2>1
  <2>3. pc = "early" => copier'["target"] # "write" /\ version' = 1
    BY <2>1, <2>2, TwoSides DEF Places, Source
  <2>4. (pc # "early" \/ copier'["client"] \in {"close", "done"})
            => early' = <<>> \/ Gone("client")'
    <3>1. CASE pc # "early"
      BY <1>1, <2>2, <3>1 DEF Places
    <3>2. CASE pc = "early" /\ s = "client"
      BY <2>2, <3>2 DEF Source
    <3>3. CASE pc = "early" /\ s # "client"
      <4>1. s = "target" /\ copier'["client"] = copier["client"] /\ UNCHANGED early
        BY <2>2, <3>3, TwoSides DEF Source
      <4> QED  BY <1>1, <3>3, <4>1 DEF Places
    <3> QED  BY <3>1, <3>2, <3>3
  <2>5. pc \notin Before
    BY <2>1 DEF Before
  <2>6. \A t \in Sides : copier'[t] # "off"
    BY <2>1, <2>2 DEF Places
  <2>7. pending' = "none" => early' = <<>> /\ pc' # "early"
    BY <2>1, <2>2 DEF Places
  <2> QED  BY <2>1, <2>3, <2>4, <2>5, <2>6, <2>7 DEF Places
<1>7. CASE Write(s)
  <2>1. /\ copier[s] = "write" /\ UNCHANGED <<version, pc, early>>
        /\ \/ copier' = [copier EXCEPT ![s] = "read"]
           \/ copier' = [copier EXCEPT ![s] = "close"] /\ WriteError(Other(s))
    BY <1>7 DEF Write
  <2>2. pc \in {"early", "main"}
    BY <2>1 DEF Places
  <2>3. pc \notin Before
    BY <2>2 DEF Before
  <2>4. /\ copier'[s] \in {"read", "close"}
        /\ copier'[s] = "close" => WriteError(Other(s))
        /\ \A t \in Sides : t # s => copier'[t] = copier[t]
    BY <1>2, <2>1
  <2>5. (pc # "early" \/ copier'["client"] \in {"close", "done"})
            => early = <<>> \/ Gone("client")'
    <3>1. CASE pc # "early"
      BY <1>1, <3>1 DEF Places
    <3>2. CASE pc = "early"
      <4>1. s = "client"
        BY <2>1, <3>2, TwoSides DEF Places
      <4>2. copier'[s] = "close" => Gone("client")
        BY <2>4, <3>2, <4>1 DEF Gone
      <4> QED  BY <1>1, <2>4, <3>2, <4>1, <4>2
    <3> QED  BY <3>1, <3>2
  <2>6. \A t \in Sides : copier'[t] # "off"
    BY <2>2, <2>4 DEF Places
  <2>7. pc = "early" => copier'["target"] # "write" /\ version' = 1
    BY <2>1, <2>4, TwoSides DEF Places
  <2>8. /\ pending' = "none" => pending = "none"
        /\ pending' = "unsent" => pending = "unsent"
        /\ s = "client" => UNCHANGED pending
    BY <1>7, TwoSides DEF Write
  <2>9. pc = "early" => s = "client"
    BY <2>1, TwoSides DEF Places
  <2>10. pending' = "unsent" => got'["client"] = <<>>
    <3>1. ASSUME pending' = "unsent" PROVE UNCHANGED got \/ s = "client"
      BY <1>7, <3>1, TwoSides DEF Write
    <3>2. s = "client" => got'["client"] = got["client"]
      BY <1>7, TwoSides DEF Write, TypeOK, Types
    <3> QED  BY <2>8, <3>1, <3>2 DEF Places
  <2> QED  BY <2>1, <2>2, <2>3, <2>5, <2>6, <2>7, <2>8, <2>9, <2>10 DEF Places
<1> QED  BY <1>3, <1>4, <1>5, <1>6, <1>7 DEF Copier

LEMMA PlacesHold == ASSUME TypeOK, Places, Next PROVE Places'
BY HandlerPlaces, SidePlaces DEF Next

-----------------------------------------------------------------------------
(* What is closed is through.                                              *)

\* A refusal that nobody disturbs arrives.
LEMMA RefusalSound ==
    ASSUME TypeOK, Places, Sound, Next, pc \in Before, Answer(Refused),
           pc' \in {"done", "closeTarget"}, UNCHANGED copier
    PROVE  Sound'
<1> SUFFICES ASSUME Undisturbed' PROVE \A s \in Sides : Through(s)'
  BY DEF Sound, Before
<1>1. Undisturbed /\ ClientOpen
  BY WornOut DEF Sound
<1>2. got' = [got EXCEPT !["client"] = Append(<<>>, Refused)]
  BY <1>1, TwoSides DEF Answer, Undisturbed, ClientOpen, Places
<1>3. got \in [Sides -> Seq(0..Chunks + 1)]
  BY DEF TypeOK, Types
<1>4. got'["client"] = <<Refused>>
  BY <1>2, <1>3, TwoSides
<1>5. <<Refused>> # <<>> /\ <<Refused>>[1] = Refused
  OBVIOUS
<1>6. \A s \in Sides : copier'[s] = "off"
  BY DEF Places
<1> QED  BY <1>4, <1>5, <1>6 DEF Through

LEMMA HandlerSound ==
    ASSUME TypeOK, Places, Sound, Next, Dial \/ DialFails \/ Handler \/ CancelRequest
    PROVE  Sound'
<1> USE TwoSides
<1>1. CASE DialFails \/ HijackFails
  BY <1>1, RefusalSound DEF DialFails, HijackFails, Before
<1> SUFFICES ASSUME Undisturbed', ~(DialFails \/ HijackFails) PROVE Sound'
  BY <1>1 DEF Sound
<1>2. Undisturbed
  BY WornOut
<1>3. CASE Dial
  <2>1. /\ pc = "dial" /\ pc' = "register" /\ UNCHANGED <<version, pending>>
        /\ readable' = [readable EXCEPT !["target"] = TRUE]
        /\ writable' = [writable EXCEPT !["target"] = TRUE]
    BY <1>3 DEF Dial
  <2>2. /\ readable'["client"] = readable["client"] /\ readable'["target"]
        /\ writable'["client"] = writable["client"] /\ writable'["target"]
    BY <2>1 DEF TypeOK, Flags
  <2>3. ClientOpen
    BY <1>2, <2>1 DEF Sound, Before
  <2> QED  BY <2>1, <2>2, <2>3 DEF Sound, Before, ClientOpen, Flowing
<1>4. CASE Register
  <2>1. /\ pc = "register" /\ pc' = "upgrade"
        /\ UNCHANGED <<readable, writable, copier, version, pending>>
    BY <1>4 DEF Register, ends
  <2>2. ClientOpen /\ Flowing
    BY <1>2, <2>1 DEF Sound, Before
  <2> QED  BY <2>1, <2>2 DEF Sound, Before, ClientOpen, Flowing
<1>5. CASE Upgrade
  <2>1. /\ pc = "upgrade" /\ pc' \in {"early", "main"}
        /\ copier' = [s \in Sides |-> "read"] /\ UNCHANGED <<readable, writable>>
    BY <1>5 DEF Upgrade, StartForward, ends
  <2>2. ClientOpen /\ Flowing
    BY <1>2, <2>1 DEF Sound, Before
  <2>3. \A s \in Sides : copier'[s] = "read"
    BY <2>1
  <2>4. Flowing'
    BY <2>1, <2>2 DEF ClientOpen, Flowing
  <2>5. \A s \in Sides : Through(s)'
    BY <2>3 DEF Through
  <2> QED  BY <2>1, <2>4, <2>5 DEF Sound, Before
<1>6. CASE ForwardReturns
  <2>1. /\ pc \in {"early", "main"}
        /\ UNCHANGED <<readable, writable, version, pending, got, fin, sent>>
        /\ IF pc = "early" THEN pc' = "main" /\ copier' = [s \in Sides |-> "read"]
           ELSE pc' \in {"closeClient", "closeTarget"} /\ UNCHANGED copier
    BY <1>6 DEF ForwardReturns, StartForward, ends, peers
  <2>2. Flowing
    BY <1>2, <2>1 DEF Sound
  <2>3. CASE pc = "early"
    <3>1. \A s \in Sides : copier'[s] = "read"
      BY <2>1, <2>3
    <3>2. Flowing'
      BY <2>1, <2>2, <2>3 DEF Flowing, HasCloseWrite
    <3>3. \A s \in Sides : Through(s)'
      BY <3>1 DEF Through
    <3> QED  BY <2>1, <2>3, <3>2, <3>3 DEF Sound, Before
  <2>4. CASE pc = "main"
    <3>1. \A s \in Sides : Through(s)
      BY <1>2, <2>4 DEF Sound, Before
    <3>2. \A s \in Sides : Through(s)'
      BY <2>1, <2>4, <3>1 DEF Through, HasCloseWrite, Carried
    <3> QED  BY <2>1, <2>4, <3>2 DEF Sound, Before
  <2> QED  BY <2>1, <2>3, <2>4
<1>7. CASE Deferred
  <2>1. /\ pc \in {"closeClient", "closeTarget", "deregister"}
        /\ pc' \in {"closeTarget", "deregister", "done"}
        /\ UNCHANGED <<copier, version, pending, got, fin, sent>>
    BY <1>7 DEF Deferred, peers
  <2>2. \A s \in Sides : Through(s)
    BY <1>2, <2>1 DEF Sound, Before
  <2>3. \A s \in Sides : Through(s)'
    BY <2>1, <2>2 DEF Through, HasCloseWrite, Carried
  <2> QED  BY <2>1, <2>3 DEF Sound, Before
<1>8. CASE Notice \/ CancelRequest
  <2>1. cancelled'
    BY <1>8 DEF Notice, CancelRequest, handler
  <2> QED  BY <2>1 DEF Undisturbed
<1> QED  BY <1>3, <1>4, <1>5, <1>6, <1>7, <1>8 DEF Handler

\* A goroutine that works on an undisturbed tunnel finds the connections open.
LEMMA Working ==
    ASSUME TypeOK, Places, Sound, Undisturbed, NEW s \in Sides,
           copier[s] \in {"read", "write", "close"}
    PROVE  /\ pc \in {"early", "main"} /\ Flowing
           /\ copier[s] # "done" => writable[Other(s)] /\ ~Gone(s)
           /\ (s = "client" => HasCloseWrite("client")) => readable[s]
<1> USE TwoSides
<1>1. pc \in {"early", "main"}
  BY DEF Places
<1>2. Flowing
  BY <1>1 DEF Sound
<1>3. writable[Other(s)]
  BY <1>2 DEF Flowing
<1>4. ~Gone(s)
  BY <1>3 DEF Gone, WriteError, Undisturbed
<1>5. (s = "client" => HasCloseWrite("client")) => readable[s]
  BY <1>2 DEF Flowing
<1> QED  BY <1>1, <1>2, <1>3, <1>4, <1>5

\* Only the end of a stream ends a goroutine that reads undisturbed.
LEMMA ReadSound ==
    ASSUME TypeOK, InLine, Places, Sound, Next, Undisturbed, NEW s \in Sides, Read(s)
    PROVE  Sound'
<1>1. /\ copier[s] = "read" /\ UNCHANGED <<version, pc, pending, readable, writable>>
      /\ UNCHANGED <<fin, sent, got>>
  BY DEF Read, ends, peers
<1>2. copier \in [Sides -> {"off", "read", "write", "close", "done"}]
  BY DEF TypeOK, Types
<1>3. /\ pc \in {"early", "main"} /\ Flowing /\ ~Gone(s)
      /\ (s = "client" => HasCloseWrite("client")) => readable[s]
  BY <1>1, Working
<1>4. copier' = [copier EXCEPT ![s] = "write"] \/ copier' = [copier EXCEPT ![s] = "close"]
  BY DEF Read
<1>5. /\ copier'[s] \in {"write", "close"}
      /\ \A t \in Sides : t # s => copier'[t] = copier[t]
  BY <1>2, <1>4
<1>6. Flowing'
  BY <1>1, <1>3, <1>5, TwoSides DEF Flowing, HasCloseWrite
<1>7. ASSUME pc = "main" PROVE \A t \in Sides : Through(t)'
  <2>1. \A t \in Sides : Carried(t)' = Carried(t)
    BY <1>1 DEF Carried
  <2>2. \A t \in Sides : Through(t)
    BY <1>7 DEF Sound, Before
  <2>3. \A t \in Sides : t # s => Through(t)'
    BY <1>1, <1>5, <2>1, <2>2 DEF Through, HasCloseWrite
  <2>4. ASSUME copier'[s] = "close", s = "client" => HasCloseWrite("client")
        PROVE  fin[s] /\ Carried(s) = sent[s]
    <3>1. copier' # [copier EXCEPT ![s] = "write"]
      BY <1>2, <2>4
    <3>2. AtEnd(s) \/ ReadError(s)
      BY <3>1 DEF Read
    <3>3. ~ReadError(s)
      BY <1>3, <2>4 DEF ReadError, Undisturbed
    <3>4. fin[s] /\ net[s] = <<>>
      BY <1>7, <3>2, <3>3 DEF AtEnd, Source
    <3>5. Queued(s)
      BY <1>3 DEF InLine
    <3>6. InHand(s) = 0
      BY <1>1 DEF InHand
    <3>7. Rescued(s) = 0
      BY <1>3, <1>7 DEF Places, Rescued
    <3>8. Len(net[s]) = 0
      BY <3>4
    <3>9. sent[s] = Carried(s) + 0 + 0 + 0
      BY <3>5, <3>6, <3>7, <3>8 DEF Queued
    <3> QED  BY <3>4, <3>9, Numbers
  <2>5. Through(s)'
    BY <1>1, <1>5, <2>1, <2>4 DEF Through, HasCloseWrite
  <2> QED  BY <2>3, <2>5
<1> QED  BY <1>1, <1>3, <1>6, <1>7 DEF Sound, Before

\* An undisturbed write succeeds.
LEMMA WriteSound ==
    ASSUME TypeOK, Delivered, Places, Sound, Next, Undisturbed, NEW s \in Sides, Write(s)
    PROVE  Sound'
<1>1. /\ copier[s] = "write" /\ UNCHANGED <<version, pc, readable, writable, fin, sent>>
  BY DEF Write, ends, peers
<1>2. copier \in [Sides -> {"off", "read", "write", "close", "done"}]
  BY DEF TypeOK, Types
<1>3. pc \in {"early", "main"} /\ Flowing /\ ~Gone(s)
  BY <1>1, Working
<1>4. ~WriteError(Other(s))
  BY <1>3 DEF Gone
<1>5. Wrote(s)
  BY <1>4 DEF Write, Wrote
<1>6. copier'[s] = "read" /\ \A t \in Sides : t # s => copier'[t] = copier[t]
  BY <1>2, <1>5 DEF Wrote
<1>7. HasCloseWrite("client")' <=> HasCloseWrite("client")
  BY <1>1 DEF Write, HasCloseWrite
<1>8. Flowing'
  BY <1>1, <1>3, <1>6, <1>7, TwoSides DEF Flowing
<1>9. ASSUME pc = "main" PROVE \A t \in Sides : Through(t)'
  <2>1. \A t \in Sides : Through(t) /\ copier[t] # "off"
    BY <1>9 DEF Sound, Before, Places
  <2>2. \A t \in Sides : t # s => Carried(t)' = Carried(t)
    BY <1>5, Appended
  <2>3. Through(s)'
    BY <1>6 DEF Through
  <2>4. \A t \in Sides : t # s => Through(t)'
    BY <1>1, <1>6, <1>7, <2>1, <2>2 DEF Through
  <2> QED  BY <2>3, <2>4
<1> QED  BY <1>1, <1>3, <1>8, <1>9 DEF Sound, Before

\* A goroutine closes what it has written to, and no more.
LEMMA CloseSound ==
    ASSUME TypeOK, Places, Sound, Next, Undisturbed, NEW s \in Sides, CloseWrite(s)
    PROVE  Sound'
<1>1. /\ copier[s] = "close" /\ copier' = [copier EXCEPT ![s] = "done"]
      /\ UNCHANGED <<version, pc, pending, fin, sent, got>>
  BY DEF CloseWrite, handler, peers
<1>2. /\ copier \in [Sides -> {"off", "read", "write", "close", "done"}]
      /\ readable \in [Sides -> BOOLEAN] /\ writable \in [Sides -> BOOLEAN]
  BY DEF TypeOK, Types, Flags
<1>3. pc \in {"early", "main"} /\ Flowing
  BY <1>1, Working
<1>4. copier'[s] = "done" /\ \A t \in Sides : t # s => copier'[t] = copier[t]
  BY <1>1, <1>2
<1>5. CASE pc = "early"
  <2>1. UNCHANGED <<readable, writable>>
    BY <1>5 DEF CloseWrite, Close, ends
  <2>2. Flowing'
    BY <1>1, <1>3, <1>5, <2>1 DEF Flowing, HasCloseWrite
  <2> QED  BY <1>1, <1>5, <2>2 DEF Sound, Before
<1>6. CASE pc = "main"
  <2>1. \A t \in Sides : t # Other(s) => writable'[t] = writable[t]
    <3>1. UNCHANGED writable \/ writable' = [writable EXCEPT ![Other(s)] = FALSE]
      BY DEF CloseWrite, Close, CloseBoth, ends
    <3> QED  BY <1>2, <3>1, TwoSides
  <2>2. readable'["target"] /\ (HasCloseWrite("client") => readable'["client"])
    <3>1. CASE HasCloseWrite(Other(s))
      BY <1>3, <1>6, <3>1 DEF CloseWrite, Flowing
    <3>2. CASE ~HasCloseWrite(Other(s))
      <4>1. Other(s) = "client" /\ ~HasCloseWrite("client")
        BY <3>2, TwoSides DEF HasCloseWrite
      <4>2. UNCHANGED readable \/ readable' = [readable EXCEPT !["client"] = FALSE]
        BY <1>6, <4>1 DEF CloseWrite, Close, CloseBoth
      <4>3. readable'["target"] = readable["target"]
        BY <1>2, <4>2, TwoSides
      <4> QED  BY <1>3, <4>1, <4>3 DEF Flowing
    <3> QED  BY <3>1, <3>2
  <2>3. Flowing'
    <3>1. CASE s = "client"
      BY <1>1, <1>3, <1>4, <1>6, <2>1, <2>2, <3>1, TwoSides DEF Flowing, HasCloseWrite
    <3>2. CASE s = "target"
      BY <1>1, <1>3, <1>4, <1>6, <2>1, <2>2, <3>2, TwoSides DEF Flowing, HasCloseWrite
    <3> QED  BY <3>1, <3>2, TwoSides
  <2>4. \A t \in Sides : Through(t)
    BY <1>6 DEF Sound, Before
  <2>5. \A t \in Sides : Through(t)'
    BY <1>1, <1>4, <2>4 DEF Through, HasCloseWrite, Carried
  <2> QED  BY <1>1, <1>6, <2>3, <2>5 DEF Sound, Before
<1> QED  BY <1>3, <1>5, <1>6

LEMMA PeerSound ==
    ASSUME TypeOK, Places, Sound, Next, Undisturbed, NEW s \in Sides, Send(s) \/ Change(s)
    PROVE  Sound'
<1>1. /\ UNCHANGED <<version, pc, pending, got, copier, readable, writable>>
      /\ \A t \in Sides : Carried(t)' = Carried(t)
  BY DEF Send, Change, handler, ends, Carried
<1>2. ClientOpen' = ClientOpen /\ Flowing' = Flowing
  BY <1>1 DEF ClientOpen, Flowing, HasCloseWrite
<1>3. fin \in [Sides -> BOOLEAN] /\ sent \in [Sides -> 0..Chunks]
  BY DEF TypeOK, Types, Flags
<1>4. \A t \in Sides : fin[t] => fin'[t] /\ sent'[t] = sent[t]
  <2>1. CASE Send(s)
    BY <1>3, <2>1 DEF Send
  <2>2. CASE Change(s)
    BY <1>3, <2>2 DEF Change
  <2> QED  BY <2>1, <2>2
<1>5. \A t \in Sides : Through(t) => Through(t)'
  BY <1>1, <1>4 DEF Through, HasCloseWrite
<1> QED  BY <1>1, <1>2, <1>5 DEF Sound

LEMMA SoundHolds == ASSUME TunInv, Next PROVE Sound'
<1> USE DEF TunInv
<1>1. CASE Dial \/ DialFails \/ Handler \/ CancelRequest
  BY <1>1, HandlerSound
<1>2. ASSUME NEW s \in Sides, Copier(s) \/ Send(s) \/ Change(s), Undisturbed PROVE Sound'
  BY <1>2, ReadSound, WriteSound, CloseSound, PeerSound DEF Copier
<1>3. ~Undisturbed => Sound'
  BY WornOut DEF Sound
<1> QED  BY <1>1, <1>2, <1>3 DEF Next

-----------------------------------------------------------------------------
(* The invariant, and what it says.                                        *)

LEMMA TunInit == ASSUME Init PROVE TunInv
<1> USE TwoSides, TunnelAssumption DEF Init
<1>1. TypeOK
  <2>1. \A S : <<>> \in Seq(S)
    OBVIOUS
  <2>2. Types
    BY <2>1 DEF Types
  <2>3. Flags
    BY DEF Flags
  <2> QED  BY <2>2, <2>3 DEF TypeOK
<1>2. \A s \in Sides : /\ Carried(s) = 0 /\ InHand(s) = 0 /\ Rescued(s) = 0
                       /\ sent[s] = 0 /\ Len(net[s]) = 0 /\ Len(early) = 0
                       /\ copier[s] = "off"
  BY DEF Carried, InHand, Rescued
<1>3. InLine
  BY <1>2 DEF InLine, Queued
<1>4. Delivered
  BY <1>2 DEF Delivered
<1>5. Places
  BY <1>2 DEF Places, Before
<1>6. Sound
  BY DEF Sound, Before, ClientOpen
<1> QED  BY <1>1, <1>3, <1>4, <1>5, <1>6 DEF TunInv

LEMMA TunNext == ASSUME TunInv, [Next]_vars PROVE TunInv'
<1>1. CASE Next
  BY <1>1, TypesHold, InLineHolds, DeliveredHolds, PlacesHold, SoundHolds DEF TunInv
<1>2. CASE UNCHANGED vars
  <2> USE <1>2 DEF vars, handler, ends, peers
  <2>1. TypeOK'
    BY DEF TunInv, TypeOK, Types, Flags
  <2>2. \A s \in Sides : /\ Carried(s)' = Carried(s) /\ InHand(s)' = InHand(s)
                         /\ Rescued(s)' = Rescued(s) /\ WriteError(s)' = WriteError(s)
    BY DEF Carried, InHand, Rescued, WriteError
  <2>3. \A s \in Sides : Gone(s)' = Gone(s)
    BY <2>2, TwoSides DEF Gone
  <2>4. InLine'
    BY <2>2, <2>3 DEF TunInv, InLine, Queued
  <2>5. Delivered'
    BY <2>2, TwoSides DEF TunInv, Delivered
  <2>6. Places'
    BY <2>3, TwoSides DEF TunInv, Places
  <2>7. Sound'
    <3>1. Undisturbed' = Undisturbed
      BY DEF Undisturbed
    <3>2. ClientOpen' = ClientOpen /\ Flowing' = Flowing
      BY DEF ClientOpen, Flowing, HasCloseWrite
    <3>3. \A s \in Sides : Through(s) => Through(s)'
      BY <2>2 DEF Through, HasCloseWrite
    <3> QED  BY <3>1, <3>2, <3>3 DEF TunInv, Sound
  <2> QED  BY <2>1, <2>4, <2>5, <2>6, <2>7 DEF TunInv
<1> QED  BY <1>1, <1>2

LEMMA TunInvariance == Spec => []TunInv
BY TunInit, TunNext, PTL DEF Spec

\* A sequence of the numbers from 1 is a prefix of every longer one.
LEMMA NumberedPrefix ==
    ASSUME NEW q \in Seq(Nat), NEW n \in Nat, Len(q) <= n, \A i \in 1..Len(q) : q[i] = i
    PROVE  /\ IsPrefix(q, Numbered(n))
           /\ Len(q) = n => q = Numbered(n)
<1>1. Numbered(n) \in Seq(Nat) /\ Len(Numbered(n)) = n
      /\ \A i \in 1..n : Numbered(n)[i] = i
  BY DEF Numbered
<1> DEFINE a == SubSeq(q, 1, Len(q))
           b == SubSeq(Numbered(n), 1, Len(q))
<1>2. /\ a \in Seq(Nat) /\ Len(a) = Len(q)
      /\ \A i \in 1..Len(q) : a[i] = i
  OBVIOUS
<1>3. Len(q) \in Nat
  OBVIOUS
<1>4. /\ b \in Seq(Nat) /\ Len(b) = Len(q)
      /\ \A i \in 1..Len(q) : b[i] = i
  BY <1>1, <1>3
<1> HIDE DEF a, b
<1>5. a = b
  BY <1>2, <1>4, SeqEqual
<1>6. IsPrefix(q, Numbered(n))
  BY <1>1, <1>5 DEF a, b, IsPrefix
<1>7. Len(q) = n => q = Numbered(n)
  BY <1>1, <1>3, SeqEqual
<1> QED  BY <1>6, <1>7

LEMMA FromTargetIs ==
    ASSUME TunInv
    PROVE  /\ FromTarget \in Seq(Nat) /\ Len(FromTarget) = Carried("target")
           /\ \A i \in 1..Len(FromTarget) : FromTarget[i] = i
<1>1. got["client"] \in Seq(Nat)
  BY TwoSides, TunnelAssumption DEF TunInv, TypeOK, Types
<1>2. CASE got["client"] = <<>>
  BY <1>2, TwoSides DEF FromTarget, Carried
<1>3. CASE got["client"] # <<>>
  <2>1. FromTarget = Tail(got["client"]) /\ Carried("target") = Len(got["client"]) - 1
    BY <1>3, TwoSides DEF FromTarget, Carried
  <2>2. /\ Tail(got["client"]) \in Seq(Nat)
        /\ Len(Tail(got["client"])) = Len(got["client"]) - 1
        /\ \A i \in 1..Len(Tail(got["client"])) : Tail(got["client"])[i] = got["client"][i + 1]
    BY <1>1, <1>3, HeadTailProperties
  <2>3. Len(got["client"]) \in Nat
    BY <1>1
  <2>4. \A i \in 1..Len(got["client"]) - 1 : got["client"][i + 1] = i
    <3> TAKE i \in 1..Len(got["client"]) - 1
    <3>1. i + 1 \in 1..Len(got["client"]) /\ i + 1 # 1 /\ (i + 1) - 1 = i
      BY <2>3
    <3> QED  BY <3>1 DEF TunInv, Delivered
  <2> QED  BY <2>1, <2>2, <2>4
<1> QED  BY <1>2, <1>3

LEMMA InvImpliesSound == ASSUME TunInv PROVE TunnelSound
<1>0. /\ TypeOK /\ InLine /\ Delivered /\ Places /\ Sound
      /\ sent["client"] \in Nat /\ sent["target"] \in Nat
      /\ got["target"] \in Seq(Nat) /\ got["client"] \in Seq(Nat)
  BY TwoSides, TunnelAssumption DEF TunInv, TypeOK, Types
<1>1. /\ Len(got["target"]) = Carried("client") /\ Carried("client") <= sent["client"]
      /\ \A i \in 1..Len(got["target"]) : got["target"][i] = i
  BY <1>0, TwoSides DEF Delivered, Carried
<1>2. /\ FromTarget \in Seq(Nat) /\ Len(FromTarget) = Carried("target")
      /\ \A i \in 1..Len(FromTarget) : FromTarget[i] = i
      /\ Carried("target") <= sent["target"]
  BY <1>0, FromTargetIs, TwoSides DEF Delivered
<1>3. InOrder
  BY <1>0, <1>1, <1>2, NumberedPrefix DEF InOrder
<1>4. AnswerFirst
  <2> SUFFICES ASSUME NEW i \in DOMAIN got["client"]
               PROVE  got["client"][i] \in {Established, Refused} <=> i = 1
    BY DEF AnswerFirst
  <2>1. i \in 1..Len(got["client"]) /\ Len(got["client"]) \in Nat
    BY <1>0
  <2>2. CASE i = 1
    <3>1. got["client"] # <<>>
      BY <2>1
    <3> QED  BY <1>0, <2>2, <3>1 DEF Delivered
  <2>3. CASE i # 1
    <3>1. got["client"][i] = i - 1
      BY <1>0, <2>1, <2>3 DEF Delivered
    <3>2. Len(got["client"]) - 1 <= sent["target"] /\ sent["target"] <= Chunks
      <4>1. Carried("target") = Len(got["client"]) - 1
        BY <2>1, TwoSides DEF Carried
      <4>2. sent["target"] \in 0..Chunks
        BY <1>0, TwoSides DEF TypeOK, Types
      <4> QED  BY <1>0, <1>2, <4>1, <4>2, TunnelAssumption
    <3>3. i - 1 # 0 /\ i - 1 # Chunks + 1
      BY <1>0, <2>1, <2>3, <3>2, TunnelAssumption
    <3> QED  BY <2>3, <3>1, <3>3 DEF Established, Refused
  <2> QED  BY <2>2, <2>3
<1>5. Complete
  <2> SUFFICES ASSUME pc = "done", Undisturbed, Refused \notin ToSet(got["client"])
               PROVE  /\ FromTarget = Numbered(sent["target"])
                      /\ HasCloseWrite("client") => got["target"] = Numbered(sent["client"])
    BY DEF Complete
  <2>1. \A s \in Sides : copier[s] \in {"off", "done"} /\ Through(s)
    BY <1>0 DEF Places, Sound, Before
  <2>2. ~(got["client"] # <<>> /\ got["client"][1] = Refused)
    <3> SUFFICES ASSUME got["client"] # <<>>, got["client"][1] = Refused PROVE FALSE
      OBVIOUS
    <3>1. 1 \in DOMAIN got["client"]
      BY <1>0
    <3> QED  BY <3>1 DEF ToSet
  <2>3. \A s \in Sides : copier[s] = "done"
    BY <2>1, <2>2 DEF Through
  <2>4. Carried("target") = sent["target"]
    BY <2>1, <2>3, TwoSides DEF Through
  <2>5. HasCloseWrite("client") => Carried("client") = sent["client"]
    BY <2>1, <2>3, TwoSides DEF Through
  <2>6. FromTarget = Numbered(sent["target"])
    BY <1>0, <1>2, <2>4, NumberedPrefix
  <2>7. HasCloseWrite("client") => got["target"] = Numbered(sent["client"])
    BY <1>0, <1>1, <2>5, NumberedPrefix
  <2> QED  BY <2>6, <2>7
<1> QED  BY <1>0, <1>3, <1>4, <1>5 DEF TunnelSound

-----------------------------------------------------------------------------

\* HandleTunnel and PairConnections carry the answer first, then both streams in order,
\* and whole where nobody breaks the tunnel, whatever was buffered at the hijack.
THEOREM TunnelsAreSound == Spec => []TunnelSound
<1>1. TunInv => TunnelSound
  BY InvImpliesSound
<1> QED  BY TunInvariance, <1>1, PTL

\* handler.go:142: a request that has returned writes no more to either side.
THEOREM TunnelsEndQuietly == Spec => QuietAfterReturn
<1>1. ASSUME TunInv, [Next]_vars PROVE pc = "done" => got' = got
  <2> SUFFICES ASSUME pc = "done" PROVE got' = got
    OBVIOUS
  <2>1. CASE UNCHANGED vars
    BY <2>1 DEF vars
  <2>2. CASE Dial \/ DialFails \/ Handler \/ CancelRequest
    BY <2>2 DEF Dial, DialFails, Handler, Register, Upgrade, HijackFails, ForwardReturns,
                Deferred, Notice, CancelRequest
  <2>3. ASSUME NEW s \in Sides, Copier(s) \/ Send(s) \/ Change(s) PROVE got' = got
    <3>1. copier[s] \in {"off", "done"}
      BY <1>1 DEF TunInv, Places
    <3>2. ~Write(s)
      BY <3>1 DEF Write
    <3> QED  BY <2>3, <3>2 DEF Copier, Read, CloseWrite, Send, Change
  <2> QED  BY <1>1, <2>1, <2>2, <2>3 DEF Next
<1> QED  BY TunInvariance, <1>1, PTL DEF Spec, QuietAfterReturn
=============================================================================

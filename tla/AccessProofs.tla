----------------------------- MODULE AccessProofs -----------------------------
(***************************************************************************)
(* Who is let in, for any number of requests, addresses and providers.     *)
(*                                                                         *)
(* The HTTP handler tells loops from clients, but for the moment in which  *)
(* an address is free again and still on the map: every entry has a        *)
(* handler that will remove it (Owned), and a tunnel is on the map unless  *)
(* it got its address in such a moment (Listed). The SOCKS handler removes *)
(* no entry: see the run loop_socks.                                       *)
(*                                                                         *)
(* The chain of providers answers a client once, and its two ways in       *)
(* agree. Validate walks along the chain; Valid is recursive: an equation  *)
(* for it is proved from the last provider to the first (ValidUnfolds),    *)
(* and then each step of Validate goes to a provider that decides the same *)
(* (Compared).                                                             *)
(*                                                                         *)
(* A change of a credentials file is loaded or will be noticed: what is    *)
(* loaded is either the file's last text or has an older time (Outdated).  *)
(*                                                                         *)
(* The serial of a certificate is written, read and listed as the same     *)
(* number, for serials and lines of any length: the digits that are left   *)
(* to be read are behind those that are written (Buffer), and zeroes in    *)
(* front are what two serials of one value differ in (CutByValue).         *)
(***************************************************************************)
EXTENDS Loopback, AuthChain, FileReload, Serials, SelectionProofs,
        FiniteSetTheorems

-----------------------------------------------------------------------------
(* Loops.                                                                  *)

\* Requests with an outgoing connection that is open.
Open(r) == st[r] \in {"dialled", "tunnel"}

\* Requests of a client that is connected.
Direct(r) == st[r] # "new" /\ via[r] = Nothing

\* No two open connections have an address in common, except the two ends of a loop.
Addressing ==
    /\ \A r \in Requests : Open(r) => out[r] \in inUse
    /\ \A r \in Requests : Direct(r) => from[r] \in inUse
    /\ \A r, q \in Requests : Open(r) /\ Open(q) /\ r # q => out[r] # out[q]
    /\ \A r, q \in Requests : Direct(r) /\ Direct(q) /\ r # q => from[r] # from[q]
    /\ \A r, q \in Requests : Direct(r) /\ Open(q) => from[r] # out[q]

\* A request that came through a tunnel has the address of its near end.
Looping ==
    \A r \in Requests : via[r] # Nothing =>
        /\ st[r] # "new"
        /\ via[r] \in Requests
        /\ st[via[r]] \in {"tunnel", "closed", "done"}
        /\ from[r] = out[via[r]]

\* An entry is that of a handler that has not returned.
Owned ==
    \A a \in outbound : \E q \in Requests : st[q] \in {"tunnel", "closed"} /\ out[q] = a

\* Nobody is about to remove the entry of a tunnel that got an address of its own.
Listed ==
    \A q \in Requests : ~shared[q] =>
        /\ Open(q) => Closing(out[q]) = {}
        /\ st[q] = "tunnel" => out[q] \in outbound

LoopInv == LoopTypeOK /\ Addressing /\ Looping /\ Owned /\ Listed

-----------------------------------------------------------------------------

LEMMA LoopStarts == LoopInit => LoopInv
BY LoopbackAssumption
   DEF LoopInit, LoopInv, LoopTypeOK, Addressing, Looping, Owned, Listed, Open, Direct

LEMMA LoopTypes == LoopTypeOK /\ [LoopNext]_loopVars => LoopTypeOK'
<1> SUFFICES ASSUME LoopTypeOK, [LoopNext]_loopVars PROVE LoopTypeOK'
  OBVIOUS
<1> USE LoopbackAssumption DEF LoopTypeOK
<1>1. CASE UNCHANGED loopVars
  BY <1>1 DEF loopVars
<1>2. ASSUME NEW r \in Requests, Arrive(r) PROVE LoopTypeOK'
  BY <1>2 DEF Arrive
<1>3. ASSUME NEW r \in Requests, NEW q \in Requests \ {r}, ArriveThrough(r, q)
      PROVE  LoopTypeOK'
  BY <1>3 DEF ArriveThrough
<1>4. ASSUME NEW r \in Requests, Check(r) PROVE LoopTypeOK'
  BY <1>4 DEF Check
<1>5. ASSUME NEW r \in Requests, Dial(r) PROVE LoopTypeOK'
  <2>1. CASE UNCHANGED <<out, inUse, shared>>
    BY <1>5, <2>1 DEF Dial
  <2>2. CASE ~UNCHANGED <<out, inUse, shared>>
    <3>1. PICK a \in Addresses \ inUse : /\ out' = [out EXCEPT ![r] = a]
                                         /\ shared' = [shared EXCEPT ![r] = Closing(a) # {}]
                                         /\ inUse' = inUse \cup {a}
                                         /\ st' = [st EXCEPT ![r] = "dialled"]
                                         /\ UNCHANGED <<from, via, outbound>>
      BY <1>5, <2>2 DEF Dial
    <3>2. shared' \in [Requests -> BOOLEAN]
      BY <3>1, Zenon
    <3> QED BY <3>1, <3>2
  <2> QED BY <2>1, <2>2
<1>6. ASSUME NEW r \in Requests, Register(r) PROVE LoopTypeOK'
  <2>1. UNCHANGED <<from, via, out, inUse, shared>>
        /\ st' = [st EXCEPT ![r] = "tunnel"] /\ outbound' = outbound \cup {out[r]}
    BY <1>6 DEF Register
  <2>2. out[r] \in Addresses
    BY <1>6 DEF Register
  <2> QED BY <2>1, <2>2
<1>7. ASSUME NEW r \in Requests, Close(r) PROVE LoopTypeOK'
  BY <1>7 DEF Close
<1>8. ASSUME NEW r \in Requests, Unregister(r) PROVE LoopTypeOK'
  BY <1>8 DEF Unregister
<1>9. ASSUME NEW r \in Requests, Leave(r) PROVE LoopTypeOK'
  BY <1>9 DEF Leave
<1> QED BY <1>1, <1>2, <1>3, <1>4, <1>5, <1>6, <1>7, <1>8, <1>9 DEF LoopNext

\* Each step, for the parts of the invariant that it can disturb.
LEMMA LoopStep ==
    ASSUME Kind = "http", LoopInv, [LoopNext]_loopVars
    PROVE  LoopInv'
<1>1. LoopTypeOK /\ Addressing /\ Looping /\ Owned /\ Listed
  BY DEF LoopInv
<1>2. LoopTypeOK'
  BY <1>1, LoopTypes
<1> SUFFICES Addressing' /\ Looping' /\ Owned' /\ Listed'
  BY <1>2 DEF LoopInv
<1>4. CASE UNCHANGED loopVars
  BY <1>1, <1>4 DEF loopVars, Addressing, Looping, Owned, Listed, Closing, Open, Direct
<1>5. ASSUME NEW r \in Requests, Arrive(r)
      PROVE  Addressing' /\ Looping' /\ Owned' /\ Listed'
  <2>1. PICK a \in Addresses \ inUse : /\ from' = [from EXCEPT ![r] = a]
                                       /\ inUse' = inUse \cup {a}
    BY <1>5 DEF Arrive
  <2>2. /\ st[r] = "new" /\ st' = [st EXCEPT ![r] = "received"]
        /\ UNCHANGED <<via, out, outbound, shared>>
    BY <1>5 DEF Arrive
  <2>3. Addressing'
    BY <1>1, <2>1, <2>2 DEF Addressing, Open, Direct, LoopTypeOK
  <2>4. Looping'
    BY <1>1, <2>1, <2>2, LoopbackAssumption DEF Looping, LoopTypeOK
  <2>5. Owned' /\ Listed'
    BY <1>1, <2>2 DEF Owned, Listed, Closing, Open, LoopTypeOK
  <2> QED BY <2>3, <2>4, <2>5
<1>6. ASSUME NEW r \in Requests, NEW q \in Requests \ {r}, ArriveThrough(r, q)
      PROVE  Addressing' /\ Looping' /\ Owned' /\ Listed'
  <2>1. /\ st[r] = "new" /\ st[q] = "tunnel"
        /\ from' = [from EXCEPT ![r] = out[q]] /\ via' = [via EXCEPT ![r] = q]
        /\ st' = [st EXCEPT ![r] = "received"]
        /\ UNCHANGED <<out, inUse, outbound, shared>>
    BY <1>6 DEF ArriveThrough
  <2>2. q # Nothing
    BY LoopbackAssumption
  <2>3. Addressing'
    BY <1>1, <2>1, <2>2 DEF Addressing, Open, Direct, LoopTypeOK
  <2>4. Looping'
    BY <1>1, <2>1, <2>2 DEF Looping, LoopTypeOK
  <2>5. Owned' /\ Listed'
    BY <1>1, <2>1 DEF Owned, Listed, Closing, Open, LoopTypeOK
  <2> QED BY <2>3, <2>4, <2>5
<1>7. ASSUME NEW r \in Requests, Check(r)
      PROVE  Addressing' /\ Looping' /\ Owned' /\ Listed'
  <2>1. /\ st[r] = "received" /\ st'[r] \in {"refused", "accepted"}
        /\ \A p \in Requests \ {r} : st'[p] = st[p]
        /\ UNCHANGED <<from, via, out, inUse, outbound, shared>>
    BY <1>1, <1>7 DEF Check, LoopTypeOK
  <2>2. Addressing' /\ Looping'
    BY <1>1, <2>1 DEF Addressing, Looping, Open, Direct, LoopTypeOK
  <2>3. Owned' /\ Listed'
    BY <1>1, <2>1 DEF Owned, Listed, Closing, Open
  <2> QED BY <2>2, <2>3
<1>8. ASSUME NEW r \in Requests, Dial(r)
      PROVE  Addressing' /\ Looping' /\ Owned' /\ Listed'
  <2>1. st[r] = "accepted" /\ UNCHANGED <<from, via, outbound>>
    BY <1>8 DEF Dial
  <2>2. st'[r] \in {"dialled", "done"} /\ \A p \in Requests \ {r} : st'[p] = st[p]
    BY <1>1, <1>8 DEF Dial, LoopTypeOK
  <2>3. \A p \in Requests \ {r} : out'[p] = out[p] /\ shared'[p] = shared[p]
    BY <1>1, <1>8 DEF Dial, LoopTypeOK
  <2>4. inUse \subseteq inUse' /\ (st'[r] = "dialled" => out'[r] \in inUse' \ inUse)
    BY <1>1, <1>8 DEF Dial, LoopTypeOK
  <2>5. Addressing'
    BY <1>1, <2>1, <2>2, <2>3, <2>4 DEF Addressing, Open, Direct
  <2>6. Looping'
    BY <1>1, <2>1, <2>2, <2>3 DEF Looping
  <2>7. Owned'
    BY <1>1, <2>1, <2>2, <2>3 DEF Owned
  <2>8. Listed'
    <3> SUFFICES ASSUME NEW q \in Requests, ~shared'[q]
                 PROVE  /\ Open(q)' => Closing(out[q])' = {}
                        /\ st'[q] = "tunnel" => out'[q] \in outbound'
      BY DEF Listed
    <3>1. \A a : Closing(a)' = Closing(a)
      BY <2>1, <2>2, <2>3 DEF Closing
    <3>2. CASE q = r
      <4>1. st'[r] = "dialled" => shared'[r] = (Closing(out'[r]) # {})
        BY <1>1, <1>8 DEF Dial, LoopTypeOK
      <4> QED BY <2>2, <3>1, <3>2, <4>1 DEF Open
    <3>3. CASE q # r
      BY <1>1, <2>1, <2>2, <2>3, <3>1, <3>3 DEF Listed, Open
    <3> QED BY <3>2, <3>3
  <2> QED BY <2>5, <2>6, <2>7, <2>8
<1>9. ASSUME NEW r \in Requests, Register(r)
      PROVE  Addressing' /\ Looping' /\ Owned' /\ Listed'
  <2>1. /\ st[r] = "dialled" /\ st'[r] = "tunnel" /\ \A p \in Requests \ {r} : st'[p] = st[p]
        /\ outbound' = outbound \cup {out[r]} /\ UNCHANGED <<from, via, out, inUse, shared>>
    BY <1>1, <1>9 DEF Register, LoopTypeOK
  <2>2. Addressing' /\ Looping'
    BY <1>1, <2>1 DEF Addressing, Looping, Open, Direct
  <2>3. Owned'
    BY <1>1, <2>1 DEF Owned
  <2>4. Listed'
    BY <1>1, <2>1 DEF Listed, Closing, Open
  <2> QED BY <2>2, <2>3, <2>4
<1>10. ASSUME NEW r \in Requests, Close(r)
       PROVE  Addressing' /\ Looping' /\ Owned' /\ Listed'
  <2>1. /\ st[r] = "tunnel" /\ st'[r] = "closed" /\ \A p \in Requests \ {r} : st'[p] = st[p]
        /\ inUse' = inUse \ {out[r]} /\ UNCHANGED <<from, via, out, outbound, shared>>
    BY <1>1, <1>10 DEF Close, LoopTypeOK
  <2>2. Addressing'
    BY <1>1, <2>1 DEF Addressing, Open, Direct
  <2>3. Looping'
    BY <1>1, <2>1 DEF Looping
  <2>4. Owned'
    BY <1>1, <2>1 DEF Owned
  <2>5. Listed'
    BY <1>1, <2>1 DEF Listed, Closing, Addressing, Open
  <2> QED BY <2>2, <2>3, <2>4, <2>5
<1>11. ASSUME NEW r \in Requests, Unregister(r)
       PROVE  Addressing' /\ Looping' /\ Owned' /\ Listed'
  <2>1. /\ st[r] = "closed" /\ st'[r] = "done" /\ \A p \in Requests \ {r} : st'[p] = st[p]
        /\ outbound' = outbound \ {out[r]} /\ UNCHANGED <<from, via, out, inUse, shared>>
    BY <1>1, <1>11 DEF Unregister, LoopTypeOK
  <2>2. Addressing' /\ Looping'
    BY <1>1, <2>1 DEF Addressing, Looping, Open, Direct
  <2>3. Owned'
    BY <1>1, <2>1 DEF Owned
  <2>4. Listed'
    BY <1>1, <2>1 DEF Listed, Closing, Open
  <2> QED BY <2>2, <2>3, <2>4
<1>12. ASSUME NEW r \in Requests, Leave(r)
       PROVE  Addressing' /\ Looping' /\ Owned' /\ Listed'
  <2>1. /\ st[r] \in {"done", "refused"} /\ st'[r] = "new"
        /\ \A p \in Requests : via[p] # r
        /\ via'[r] = Nothing
        /\ \A p \in Requests \ {r} : /\ st'[p] = st[p] /\ from'[p] = from[p]
                                     /\ via'[p] = via[p] /\ out'[p] = out[p]
                                     /\ shared'[p] = shared[p]
        /\ inUse' = IF via[r] = Nothing THEN inUse \ {from[r]} ELSE inUse
        /\ UNCHANGED outbound
    BY <1>1, <1>12 DEF Leave, LoopTypeOK
  <2>2. Addressing'
    BY <1>1, <2>1 DEF Addressing, Open, Direct
  <2>3. Looping'
    BY <1>1, <2>1 DEF Looping
  <2>4. Owned'
    BY <1>1, <2>1 DEF Owned
  <2>5. Listed'
    BY <1>1, <2>1 DEF Listed, Closing, Open
  <2> QED BY <2>2, <2>3, <2>4, <2>5
<1> QED BY <1>4, <1>5, <1>6, <1>7, <1>8, <1>9, <1>10, <1>11, <1>12 DEF LoopNext

\* Nothing but the look at the map decides about a request.
LEMMA OnlyCheckDecides ==
    ASSUME LoopTypeOK, [LoopNext]_loopVars, NEW r \in Requests,
           st[r] = "received", st'[r] \in {"accepted", "refused"}
    PROVE  /\ st'[r] = "accepted" => from[r] \notin outbound
           /\ st'[r] = "refused" => from[r] \in outbound
<1>1. Check(r)
  BY DEF LoopNext, loopVars, LoopTypeOK, Arrive, ArriveThrough, Check, Dial, Register, Close,
         Unregister, Leave
<1> QED BY <1>1 DEF Check, LoopTypeOK

LEMMA LoopInvariance == ASSUME Kind = "http" PROVE LoopSpec => []LoopInv
BY LoopStarts, LoopStep, PTL DEF LoopSpec

\* handler.go:91-100, 217-230: a client is taken for a loop only if its address is that of a
\* connection whose handler is between Close and delete; no entry outlives its handler.
THEOREM LoopsAreTold ==
    ASSUME Kind = "http"
    PROVE  LoopSpec => RefusedIsLoop
<1>1. LoopInv /\ [LoopNext]_loopVars =>
        [\A r \in Requests : (st[r] = "received" /\ st'[r] = "refused")
                                => via[r] # Nothing \/ Closing(from[r]) # {}]_loopVars
  <2> SUFFICES ASSUME LoopInv, [LoopNext]_loopVars, NEW r \in Requests,
                      st[r] = "received", st'[r] = "refused", via[r] = Nothing
               PROVE  Closing(from[r]) # {}
    OBVIOUS
  <2>1. from[r] \in outbound
    BY OnlyCheckDecides DEF LoopInv
  <2>2. PICK q \in Requests : st[q] \in {"tunnel", "closed"} /\ out[q] = from[r]
    BY <2>1 DEF LoopInv, Owned
  <2>3. ~Open(q)
    BY <2>2 DEF LoopInv, Addressing, Direct
  <2> QED BY <2>2, <2>3 DEF Open, Closing
<1> QED BY LoopInvariance, <1>1, PTL DEF LoopSpec, RefusedIsLoop

\* handler.go:91-100, 217-230: no loop through a tunnel that is up is taken for a client,
\* unless the tunnel got its address while it was still on the map for another.
THEOREM LoopsAreRefused ==
    ASSUME Kind = "http"
    PROVE  LoopSpec => LoopRefused
<1>1. LoopInv /\ [LoopNext]_loopVars =>
        [\A r \in Requests : (st[r] = "received" /\ st'[r] = "accepted" /\ via[r] # Nothing)
                                => st[via[r]] # "tunnel" \/ shared[via[r]]]_loopVars
  <2> SUFFICES ASSUME LoopInv, [LoopNext]_loopVars, NEW r \in Requests,
                      st[r] = "received", st'[r] = "accepted", via[r] # Nothing,
                      ~shared[via[r]]
               PROVE  st[via[r]] # "tunnel"
    OBVIOUS
  <2>1. from[r] \notin outbound
    BY OnlyCheckDecides DEF LoopInv
  <2>2. via[r] \in Requests /\ from[r] = out[via[r]]
    BY DEF LoopInv, Looping
  <2> QED BY <2>1, <2>2 DEF LoopInv, Listed
<1> QED BY LoopInvariance, <1>1, PTL DEF LoopSpec, LoopRefused

-----------------------------------------------------------------------------
(* One answer.                                                             *)

Asked == {0} \cup Positions

AuthTypes ==
    /\ \A p \in Positions : orElse[p] \in Asked /\ (orElse[p] = 0 \/ orElse[p] > p)
    /\ \A p \in Positions : next[p] \in Asked
    /\ \A p \in Positions : sends[p] \in Nat
    /\ at \in Asked

\* Nobody has been answered while a provider is asked.
Unanswered == at # 0 => answers = <<>> /\ ~admitted

AuthInv == AuthTypes /\ Unanswered /\ RightAnswer

LEMMA AuthStarts == AuthInit => AuthInv
<1>1. AuthInit => AuthTypes
  <2>1. 1 \in Positions
    BY ChainAssumption DEF Positions
  <2> QED  BY <2>1 DEF AuthInit, AuthTypes, Asked, RejectCodes
<1>2. AuthInit => Unanswered /\ RightAnswer
  BY DEF AuthInit, Unanswered, RightAnswer, OneAnswer, PromptHidden
<1> QED  BY <1>1, <1>2 DEF AuthInv

\* A provider that may ask for a password, or look as if it did.
Prompts(p) == \/ kind[p] \in Passwords /\ ~(hides[p] /\ onHidden = "no")
              \/ kind[p] = "reject" /\ sends[p] = 407

\* What becomes of the one who is asked.
Outcome(p) ==
    \/ /\ at' = orElse[p] \/ at' = next[p]
       /\ at' # 0 /\ UNCHANGED <<answers, admitted>>
    \/ at' = 0 /\ admitted' = TRUE /\ UNCHANGED answers
    \/ \E code \in Nat : /\ at' = 0 /\ answers' = Append(answers, code) /\ UNCHANGED admitted
                         /\ code = 407 => Prompts(p)

LEMMA JudgeOutcome ==
    ASSUME NEW p \in Positions, NEW right, Judge(p, right), kind[p] \in Passwords
    PROVE  Outcome(p)
<1>1. CASE header /\ right /\ hides[p] /\ onHidden = "plain"
  BY <1>1 DEF Judge, AnswerWith, Outcome, Prompts
<1>2. CASE header /\ right /\ ~(hides[p] /\ onHidden = "plain")
  BY <1>2 DEF Judge, Admit, Outcome, Prompts
<1>3. CASE ~(header /\ right)
  <2>1. RequireBasicAuth(p)
    BY <1>3 DEF Judge
  <2>2. CASE orElse[p] # 0
    BY <2>1, <2>2 DEF RequireBasicAuth, Outcome, Prompts
  <2>3. CASE orElse[p] = 0
    <3>1. CASE hides[p] /\ onHidden = "no"
      BY <2>1, <2>3, <3>1 DEF RequireBasicAuth, AnswerWith, Outcome, Prompts
    <3>2. CASE ~(hides[p] /\ onHidden = "no")
      BY <2>1, <2>3, <3>2 DEF RequireBasicAuth, AnswerWith, Outcome, Prompts
    <3> QED  BY <3>1, <3>2
  <2> QED  BY <2>2, <2>3
<1> QED  BY <1>1, <1>2, <1>3

LEMMA AnyOutcome == ASSUME AuthTypes, AuthNext PROVE \E p \in Positions : at = p /\ Outcome(p)
<1>1. PICK p \in Positions : \/ ValidateBasic(p) \/ ValidateHMAC(p) \/ ValidateRedis(p)
                             \/ ValidateCert(p) \/ ValidateNone(p) \/ ValidateReject(p)
  BY DEF AuthNext
<1>2. CASE ValidateBasic(p) \/ ValidateHMAC(p) \/ ValidateRedis(p)
  BY <1>2, JudgeOutcome DEF ValidateBasic, ValidateHMAC, ValidateRedis, Passwords
<1>3. CASE ValidateCert(p)
  <2>1. CASE orElse[p] = 0 /\ cert # "good"
    BY <1>3, <2>1 DEF ValidateCert, AnswerWith, Outcome, Prompts
  <2>2. CASE orElse[p] # 0 /\ cert # "good"
    BY <1>3, <2>2 DEF ValidateCert, Outcome, Prompts
  <2>3. CASE cert = "good"
    BY <1>3, <2>3 DEF ValidateCert, Admit, Outcome, Prompts
  <2> QED  BY <2>1, <2>2, <2>3
<1>4. CASE ValidateNone(p)
  BY <1>4 DEF ValidateNone, Admit, Outcome, Prompts
<1>5. CASE ValidateReject(p)
  BY <1>5 DEF ValidateReject, AnswerWith, Outcome, Prompts, AuthTypes
<1> QED  BY <1>1, <1>2, <1>3, <1>4, <1>5

LEMMA AuthKeeps == ASSUME AuthInv, AuthNext PROVE AuthInv'
<1>1. PICK p \in Positions : at = p /\ Outcome(p)
  BY AnyOutcome DEF AuthInv
<1>2. p # 0 /\ answers = <<>> /\ ~admitted
  BY <1>1 DEF AuthInv, Unanswered, Positions
<1>3. UNCHANGED <<kind, orElse, next, hides, sends, onHidden>>
  BY DEF AuthNext, chain, request
<1>4. AuthTypes'
  <2>1. at' \in Asked
    BY <1>1 DEF Outcome, AuthInv, AuthTypes, Asked
  <2> QED  BY <1>3, <2>1 DEF AuthInv, AuthTypes
<1>5. Unanswered'
  BY <1>1, <1>2 DEF Unanswered, Outcome
<1>6. \/ answers' = <<>> /\ (at' = 0 => admitted')
      \/ \E code \in Nat : /\ answers' = <<code>> /\ ~admitted'
                           /\ code = 407 => Prompts(p)
  BY <1>1, <1>2 DEF Outcome
<1>7. OneAnswer'
  BY <1>6 DEF OneAnswer
<1>8. PromptHidden'
  <2>1. CASE answers' = <<>>
    BY <2>1 DEF PromptHidden
  <2>2. CASE answers' # <<>>
    <3>1. PICK code \in Nat : /\ answers' = <<code>>
                              /\ code = 407 => Prompts(p)
      BY <1>6, <2>2
    <3>2. DOMAIN answers' = {1} /\ answers'[1] = code
      BY <3>1
    <3> QED  BY <1>3, <3>1, <3>2 DEF PromptHidden, Prompts
  <2> QED  BY <2>1, <2>2
<1> QED  BY <1>4, <1>5, <1>7, <1>8 DEF AuthInv, RightAnswer

LEMMA AuthInvariance == AuthSpec => []AuthInv
<1>1. AuthInv /\ UNCHANGED authVars => AuthInv'
  BY DEF authVars, chain, request, AuthInv, AuthTypes, Unanswered, RightAnswer, OneAnswer, PromptHidden
<1> QED  BY AuthStarts, AuthKeeps, <1>1, PTL DEF AuthSpec

\* auth.go:13-17, common.go:24-39: behind any chain of providers, each with any `else`, a
\* client is let in or gets one answer, and no prompt where all hide it.
THEOREM ClientsGetOneAnswer == AuthSpec => []RightAnswer
<1>1. AuthInv => RightAnswer
  BY DEF AuthInv
<1> QED  BY AuthInvariance, <1>1, PTL

-----------------------------------------------------------------------------
(* The two ways in.                                                        *)

\* Valid as a function of the chain it is asked about.
Believes(k, t, p) == \/ k[p] = "basic" /\ t[p] = "right"
                     \/ k[p] = "hmac" /\ t[p] = "right"
                     \/ k[p] = "redis" /\ t[p] = "right"

ValidIn(k, o, t) ==
    CHOOSE v : v = [p \in {0} \cup Positions |->
                      /\ p # 0
                      /\ k[p] \in Passwords
                      /\ \/ k[p] = "basic" /\ t[p] = "right"
                         \/ k[p] = "hmac" /\ t[p] = "right"
                         \/ k[p] = "redis" /\ t[p] = "right"
                         \/ v[o[p]]]

LEMMA ValidIsValidIn == Valid = ValidIn(kind, orElse, tells)
BY DEF Valid, ValidIn, BasicMatches, VerifyHMAC, RedisMatches

\* Those who let the client in, of the last n.
Last(n) == {p \in Positions : p > MaxChain - n}
LetIn(k, o, t, n, G) ==
    /\ G \subseteq Last(n)
    /\ \A p \in Last(n) : p \in G <=> k[p] \in Passwords /\ (Believes(k, t, p) \/ o[p] \in G)

LEMMA SomeLetIn ==
    ASSUME NEW k, NEW o, NEW t,
           \A p \in Positions : o[p] \in Asked /\ (o[p] = 0 \/ o[p] > p)
    PROVE  \E G : LetIn(k, o, t, MaxChain, G)
<1>0. MaxChain \in Nat
  BY ChainAssumption
<1> DEFINE good == {n \in 0..MaxChain : \E G : LetIn(k, o, t, n, G)}
<1>1. 0 \in good
  <2>1. Last(0) = {}
    BY <1>0 DEF Last, Positions
  <2>2. LetIn(k, o, t, 0, {})
    BY <2>1 DEF LetIn
  <2> QED  BY <1>0, <2>2
<1>2. ASSUME NEW n \in 1..MaxChain, n - 1 \in good PROVE n \in good
  <2>1. PICK G : LetIn(k, o, t, n - 1, G)
    BY <1>2
  <2> DEFINE q == MaxChain - n + 1
             takes == k[q] \in Passwords /\ (Believes(k, t, q) \/ o[q] \in G)
             H == G \cup {p \in {q} : takes}
  <2>2. /\ q \in Positions /\ Last(n) = Last(n - 1) \cup {q} /\ q \notin Last(n - 1)
        /\ \A p \in Last(n) : o[p] # q
    BY <1>0 DEF Last, Positions, Asked
  <2>3. q \in H <=> takes
    BY <2>1, <2>2 DEF LetIn
  <2>4. \A p \in Last(n - 1) : p \in H <=> p \in G
    BY <2>2
  <2>5. \A p \in Last(n) : o[p] \in H <=> o[p] \in G
    BY <2>2
  <2>6. \A p \in Last(n) : p \in H <=> k[p] \in Passwords /\ (Believes(k, t, p) \/ o[p] \in H)
    <3> HIDE DEF H
    <3>1. TAKE p \in Last(n)
    <3>2. CASE p = q
      BY <2>3, <2>5, <3>2
    <3>3. CASE p \in Last(n - 1)
      BY <2>1, <2>4, <2>5, <3>3 DEF LetIn
    <3> QED  BY <2>2, <3>2, <3>3
  <2>7. H \subseteq Last(n)
    BY <2>1, <2>2 DEF LetIn
  <2>8. LetIn(k, o, t, n, H)
    <3> HIDE DEF H
    <3> QED  BY <2>6, <2>7 DEF LetIn
  <2> QED  BY <2>8
<1> HIDE DEF good
<1>3. MaxChain \in good
  BY <1>0, <1>1, <1>2, UpTo
<1> QED  BY <1>3 DEF good

LEMMA ValidUnfolds ==
    ASSUME NEW k, NEW o, NEW t,
           \A p \in Positions : o[p] \in Asked /\ (o[p] = 0 \/ o[p] > p)
    PROVE  /\ ValidIn(k, o, t)[0] = FALSE
           /\ \A p \in Positions :
                ValidIn(k, o, t)[p] =
                  (k[p] \in Passwords /\ (Believes(k, t, p) \/ ValidIn(k, o, t)[o[p]]))
<1>1. PICK G : LetIn(k, o, t, MaxChain, G)
  BY SomeLetIn
<1>2. Last(MaxChain) = Positions /\ 0 \notin Positions
  BY ChainAssumption DEF Last, Positions
<1> DEFINE Body(v, p) == /\ p # 0
                         /\ k[p] \in Passwords
                         /\ \/ k[p] = "basic" /\ t[p] = "right"
                            \/ k[p] = "hmac" /\ t[p] = "right"
                            \/ k[p] = "redis" /\ t[p] = "right"
                            \/ v[o[p]]
           g == [p \in Asked |-> IF p \in G THEN TRUE ELSE FALSE]
<1>3. \A p \in Asked : g[p] = Body(g, p)
  <2>1. g[0] = FALSE /\ Body(g, 0) = FALSE
    <3>1. 0 \notin G /\ 0 \in Asked
      BY <1>1, <1>2 DEF LetIn, Asked
    <3>2. g[0] = FALSE
      BY <3>1
    <3>3. Body(g, 0) = FALSE
      OBVIOUS
    <3> QED  BY <3>2, <3>3
  <2>2. ASSUME NEW p \in Positions PROVE g[p] = Body(g, p)
    <3>1. o[p] \in Asked /\ p \in Asked /\ p # 0
      BY <1>2 DEF Asked
    <3>2. g[p] = (IF p \in G THEN TRUE ELSE FALSE) /\ (g[o[p]] <=> o[p] \in G)
      BY <3>1
    <3>3. p \in G <=> k[p] \in Passwords /\ (Believes(k, t, p) \/ o[p] \in G)
      BY <1>1, <1>2 DEF LetIn
    <3> HIDE DEF g
    <3>4. Body(g, p) <=> k[p] \in Passwords /\ (Believes(k, t, p) \/ o[p] \in G)
      BY <3>1, <3>2 DEF Believes
    <3>5. CASE p \in G
      <4>1. Body(g, p) = TRUE
        BY <3>3, <3>4, <3>5, Zenon
      <4> QED  BY <3>2, <3>5, <4>1
    <3>6. CASE p \notin G
      <4>1. Body(g, p) = FALSE
        BY <3>3, <3>4, <3>6, Zenon
      <4> QED  BY <3>2, <3>6, <4>1
    <3> QED  BY <3>5, <3>6
  <2> HIDE DEF g, Body
  <2> QED  BY <2>1, <2>2 DEF Asked
<1>4. g = [p \in Asked |-> Body(g, p)]
  <2>1. g = [p \in Asked |-> g[p]]
    OBVIOUS
  <2> HIDE DEF g, Body
  <2> QED  BY <1>3, <2>1
<1>5. ValidIn(k, o, t) = CHOOSE v : v = [p \in Asked |-> Body(v, p)]
  BY DEF ValidIn, Asked
<1> HIDE DEF g
<1>6. ValidIn(k, o, t) = [p \in Asked |-> Body(ValidIn(k, o, t), p)]
  <2> HIDE DEF Body
  <2>1. \E v : v = [p \in Asked |-> Body(v, p)]
    BY <1>4
  <2> QED  BY <1>5, <2>1
<1> DEFINE w == ValidIn(k, o, t)
<1> HIDE DEF w
<1>7. \A p \in Asked : w[p] = Body(w, p)
  <2>1. w = [p \in Asked |-> Body(w, p)]
    BY <1>6 DEF w
  <2> HIDE DEF Body
  <2> QED  BY <2>1, Zenon
<1>8. w[0] = FALSE
  BY <1>7 DEF Asked
<1>9. ASSUME NEW p \in Positions
      PROVE  w[p] = (k[p] \in Passwords /\ (Believes(k, t, p) \/ w[o[p]]))
  <2>1. w[p] = Body(w, p) /\ p # 0
    BY <1>2, <1>7 DEF Asked
  <2> QED  BY <2>1, Zenon DEF Believes
<1> QED  BY <1>8, <1>9 DEF w

\* The login that is compared: in a header, not for the hidden domain, behind passwords
\* and rejections.
Compared == /\ header /\ onHidden # "plain"
            /\ \A p \in Positions : kind[p] \in Passwords \cup {"reject"}

\* Whoever is asked would say of the login what the first would.
AgreeInv == Compared => /\ at # 0 => (ValidIn(kind, orElse, tells)[1]
                                       <=> ValidIn(kind, orElse, tells)[at])
                        /\ at = 0 => (admitted <=> ValidIn(kind, orElse, tells)[1])

LEMMA AgreeStarts == AuthInit => AgreeInv
BY DEF AuthInit, AgreeInv

LEMMA AgreeKeeps == ASSUME AuthInv, AgreeInv, AuthNext PROVE AgreeInv'
<1>1. UNCHANGED <<kind, orElse, tells, hides, header, onHidden>>
  BY DEF AuthNext, chain, request
<1>2. PICK p \in Positions : \/ ValidateBasic(p) \/ ValidateHMAC(p) \/ ValidateRedis(p)
                             \/ ValidateCert(p) \/ ValidateNone(p) \/ ValidateReject(p)
  BY DEF AuthNext
<1>3. SUFFICES ASSUME Compared
               PROVE  /\ at' # 0 => (ValidIn(kind, orElse, tells)[1]
                                      <=> ValidIn(kind, orElse, tells)[at'])
                      /\ at' = 0 => (admitted' <=> ValidIn(kind, orElse, tells)[1])
  <2>1. Compared' => Compared
    BY <1>1 DEF Compared
  <2> QED  BY <1>1, <2>1 DEF AgreeInv
<1> DEFINE w == ValidIn(kind, orElse, tells)
<1>4. /\ w[0] = FALSE
      /\ \A q \in Positions : w[q] = (kind[q] \in Passwords
                                      /\ (Believes(kind, tells, q) \/ w[orElse[q]]))
  BY ValidUnfolds DEF AuthInv, AuthTypes
<1> HIDE DEF w
<1>5. at = p /\ p # 0 /\ ~admitted
  BY <1>2 DEF AuthInv, Unanswered, Positions, ValidateBasic, ValidateHMAC, ValidateRedis,
              ValidateCert, ValidateNone, ValidateReject
<1>6. w[1] <=> w[p]
  BY <1>3, <1>5 DEF AgreeInv, w
<1>7. w[p] <=> kind[p] \in Passwords /\ (Believes(kind, tells, p) \/ w[orElse[p]])
  BY <1>4
<1>8. CASE ValidateReject(p)
  <2>1. at' = 0 /\ admitted' = admitted /\ kind[p] \notin Passwords
    BY <1>8 DEF ValidateReject, AnswerWith, Passwords
  <2> QED  BY <1>5, <1>6, <1>7, <2>1 DEF w
<1>9. CASE ValidateBasic(p) \/ ValidateHMAC(p) \/ ValidateRedis(p)
  <2>1. /\ kind[p] \in Passwords
        /\ Judge(p, tells[p] = "right")
        /\ Believes(kind, tells, p) <=> tells[p] = "right"
    BY <1>9 DEF ValidateBasic, ValidateHMAC, ValidateRedis, BasicMatches, VerifyHMAC,
                RedisMatches, Passwords, Believes
  <2>2. CASE tells[p] = "right"
    <3>1. at' = 0 /\ admitted'
      BY <1>3, <2>1, <2>2 DEF Judge, Admit, Compared
    <3> QED  BY <1>6, <1>7, <2>1, <2>2, <3>1 DEF w
  <2>3. CASE tells[p] # "right"
    <3>1. IF orElse[p] # 0 THEN at' = orElse[p] ELSE at' = 0 /\ admitted' = admitted
      BY <2>1, <2>3 DEF Judge, RequireBasicAuth, AnswerWith
    <3>2. w[p] <=> w[orElse[p]]
      BY <1>7, <2>1, <2>3
    <3>3. CASE orElse[p] # 0
      BY <1>6, <3>1, <3>2, <3>3 DEF w
    <3>4. CASE orElse[p] = 0
      <4>1. ~w[1]
        BY <1>4, <1>6, <3>2, <3>4
      <4> QED  BY <1>5, <3>1, <3>4, <4>1 DEF w
    <3> QED  BY <3>3, <3>4
  <2> QED  BY <2>2, <2>3
<1>10. ~ValidateCert(p) /\ ~ValidateNone(p)
  BY <1>3 DEF Compared, Passwords, ValidateCert, ValidateNone
<1> QED  BY <1>2, <1>8, <1>9, <1>10

LEMMA AgreeInvariance == AuthSpec => []AgreeInv
<1>1. AgreeInv /\ UNCHANGED authVars => AgreeInv'
  <2> HAVE AgreeInv /\ UNCHANGED authVars
  <2>1. UNCHANGED <<kind, orElse, tells, header, onHidden, at, admitted>>
    BY DEF authVars, chain, request
  <2>2. Compared' <=> Compared
    BY <2>1 DEF Compared
  <2> QED  BY <2>1, <2>2 DEF AgreeInv
<1> QED  BY AuthInvariance, AgreeStarts, AgreeKeeps, <1>1, PTL DEF AuthSpec

\* common.go:41-49 and the Validate of each provider, for chains of passwords and
\* rejections of any length: a login that a SOCKS client is let in with lets an HTTP
\* client in, and no other does.
THEOREM BothWaysAgree == AuthSpec => []WaysAgree
<1>1. AgreeInv => WaysAgree
  <2>1. WaysAgree <=> (Compared /\ at = 0 => (admitted <=> ValidIn(kind, orElse, tells)[1]))
    BY ValidIsValidIn DEF WaysAgree, Compared
  <2> QED  BY <2>1 DEF AgreeInv
<1> QED  BY AgreeInvariance, <1>1, PTL

-----------------------------------------------------------------------------
(* Reloading a file.                                                       *)

FileTypes ==
    /\ fileClock \in Nat /\ latest \in Nat /\ version \in Nat
    /\ file \in [text : Nat, time : Nat]
    /\ loaded \in [text : Nat, time : Nat]
    /\ handle \in [text : Nat, time : Nat, open : BOOLEAN, whole : BOOLEAN]
    /\ later \in BOOLEAN /\ writing \in BOOLEAN

\* No time is ahead of the latest that the file has had.
TimesPast ==
    /\ file.time <= latest /\ loaded.time <= latest /\ handle.time <= latest
    /\ later => file.time = latest

\* What was opened and then replaced is older than a change with a time of its own;
\* what is loaded is older too, or is what the file has.
Outdated ==
    /\ later /\ handle.open /\ ~handle.whole => handle.time < file.time
    /\ later /\ ~writing /\ loaded.text # file.text => loaded.time < file.time

FileInv == FileTypes /\ TimesPast /\ Outdated

LEMMA FileStarts == FileInit => FileInv
<1> SUFFICES ASSUME FileInit PROVE FileInv
  OBVIOUS
<1>1. /\ file = [text |-> 1, time |-> 1] /\ loaded = [text |-> 0, time |-> 0]
      /\ handle = [text |-> 0, time |-> 0, open |-> FALSE, whole |-> TRUE]
      /\ fileClock = 1 /\ version = 1 /\ latest = 1 /\ later = TRUE /\ writing = FALSE
  BY DEF FileInit, NoFile, Torn
<1>2. FileTypes
  <2>1. file \in [text : Nat, time : Nat] /\ loaded \in [text : Nat, time : Nat]
    BY <1>1
  <2>2. handle \in [text : Nat, time : Nat, open : BOOLEAN, whole : BOOLEAN]
    BY <1>1
  <2> QED  BY <1>1, <2>1, <2>2 DEF FileTypes
<1>3. /\ file.time = 1 /\ file.text = 1 /\ loaded.time = 0 /\ loaded.text = 0
      /\ handle.time = 0 /\ ~handle.open
  BY <1>1
<1>4. TimesPast
  BY <1>1, <1>3 DEF TimesPast
<1>5. Outdated
  BY <1>1, <1>3 DEF Outdated
<1> QED  BY <1>2, <1>4, <1>5 DEF FileInv

\* What does not touch the file, the clock of which it is kept, or what is loaded.
LEMMA OtherKeeps ==
    ASSUME FileInv, UNCHANGED <<file, writing, version, latest, later, handle, loaded>>,
           fileClock' \in Nat
    PROVE  FileInv'
BY DEF FileInv, FileTypes, TimesPast, Outdated

LEMMA OpenKeeps == ASSUME FileInv, OpenIfModified PROVE FileInv'
<1>1. /\ handle' = [text |-> file.text, time |-> file.time, open |-> Newest(file.time),
                    whole |-> TRUE]
      /\ UNCHANGED <<file, writing, version, latest, later, fileClock, loaded>>
  BY DEF OpenIfModified, content
<1>2. Newest(file.time) \in BOOLEAN
  BY DEF Newest
<1>3. handle' \in [text : Nat, time : Nat, open : BOOLEAN, whole : BOOLEAN]
  BY <1>1, <1>2 DEF FileInv, FileTypes
<1> QED  BY <1>1, <1>3 DEF FileInv, FileTypes, TimesPast, Outdated

LEMMA StoreKeeps ==
    ASSUME FileInv, handle.open, Store, UNCHANGED <<content, fileClock>>
    PROVE  FileInv'
<1>1. /\ loaded' = [text |-> IF handle.whole THEN file.text ELSE handle.text,
                    time |-> handle.time]
      /\ handle' = NoFile
      /\ UNCHANGED <<file, writing, version, latest, later, fileClock>>
  BY DEF Store, content
<1>2. loaded' \in [text : Nat, time : Nat]
  BY <1>1 DEF FileInv, FileTypes
<1>3. NoFile \in [text : Nat, time : Nat, open : BOOLEAN, whole : BOOLEAN]
  BY DEF NoFile, Torn
<1>4. FileTypes' /\ TimesPast'
  BY <1>1, <1>2, <1>3 DEF FileInv, FileTypes, TimesPast, NoFile
<1>5. Outdated'
  BY <1>1 DEF FileInv, FileTypes, TimesPast, Outdated, NoFile
<1> QED  BY <1>4, <1>5 DEF FileInv

\* A change that has a time of its own is later than all that was read before.
LEMMA ChangeKeeps ==
    ASSUME FileInv, NEW new \in Nat, NEW time \in Nat, Change(new, time),
           version' \in Nat, writing' \in BOOLEAN, UNCHANGED <<fileClock, loaded>>,
           \/ UNCHANGED handle
           \/ /\ handle' \in [text : Nat, time : Nat, open : BOOLEAN, whole : BOOLEAN]
              /\ handle'.time = handle.time
    PROVE  FileInv'
<1>1. /\ file' = [text |-> new, time |-> time] /\ later' = (time > latest)
      /\ latest' = IF time > latest THEN time ELSE latest
  BY DEF Change
<1>2. handle' \in [text : Nat, time : Nat, open : BOOLEAN, whole : BOOLEAN]
      /\ handle'.time = handle.time
  BY DEF FileInv, FileTypes
<1>3. FileTypes'
  BY <1>1, <1>2 DEF FileInv, FileTypes
<1>4. /\ file'.time = time /\ time <= latest' /\ latest <= latest'
      /\ time > latest => latest' = time
  BY <1>1 DEF FileInv, FileTypes
<1>8. later' => time > latest
  BY <1>1, Zenon
<1>5. /\ handle.time \in Nat /\ loaded.time \in Nat /\ latest \in Nat /\ latest' \in Nat
      /\ handle.time <= latest /\ loaded.time <= latest
      /\ loaded' = loaded /\ handle'.time = handle.time
  BY <1>1, <1>2 DEF FileInv, FileTypes, TimesPast
<1>6. TimesPast'
  <2>1. file'.time <= latest' /\ loaded'.time <= latest' /\ handle'.time <= latest'
    BY <1>4, <1>5
  <2>2. later' => file'.time = latest'
    <3>1. time > latest => file'.time = latest'
      BY <1>4
    <3> QED  BY <1>8, <3>1, Zenon
  <2> QED  BY <2>1, <2>2 DEF TimesPast
<1>7. later' => handle'.time < file'.time /\ loaded'.time < file'.time
  <2>1. time > latest => handle'.time < file'.time /\ loaded'.time < file'.time
    BY <1>4, <1>5
  <2> QED  BY <1>8, <2>1, Zenon
<1>9. Outdated'
  BY <1>7 DEF Outdated
<1> QED  BY <1>3, <1>6, <1>9 DEF FileInv

LEMMA WritersKeep ==
    ASSUME FileInv, BeginRewrite \/ EndRewrite \/ \E t \in 1..fileClock : Replace(t)
    PROVE  FileInv'
<1>1. CASE BeginRewrite
  <2>1. Torn \in Nat /\ fileClock \in Nat /\ version \in Nat
    BY DEF Torn, FileInv, FileTypes
  <2> QED  BY <1>1, <2>1, ChangeKeeps DEF BeginRewrite
<1>2. CASE EndRewrite
  <2>1. fileClock \in Nat /\ version + 1 \in Nat
    BY DEF FileInv, FileTypes
  <2> QED  BY <1>2, <2>1, ChangeKeeps DEF EndRewrite
<1>3. ASSUME NEW t \in 1..fileClock, Replace(t) PROVE FileInv'
  <2>1. t \in Nat /\ version + 1 \in Nat
    BY DEF FileInv, FileTypes
  <2>2. /\ handle' \in [text : Nat, time : Nat, open : BOOLEAN, whole : BOOLEAN]
        /\ handle'.time = handle.time
    BY <1>3 DEF Replace, FileInv, FileTypes
  <2>3. /\ Change(version + 1, t) /\ version' = version + 1
        /\ UNCHANGED <<fileClock, loaded, writing>>
    BY <1>3 DEF Replace
  <2>4. writing' \in BOOLEAN
    BY <2>3 DEF FileInv, FileTypes
  <2> QED  BY <2>1, <2>2, <2>3, <2>4, ChangeKeeps
<1> QED  BY <1>1, <1>2, <1>3

LEMMA FileInvariance == FileSpec => []FileInv
<1>1. FileInv /\ [FileNext]_fileVars => FileInv'
  <2> SUFFICES ASSUME FileInv, [FileNext]_fileVars PROVE FileInv'
    OBVIOUS
  <2>1. fileClock \in Nat
    BY DEF FileInv, FileTypes
  <2>2. CASE UNCHANGED fileVars
    BY <2>1, <2>2, OtherKeeps DEF fileVars, content, settings
  <2>3. CASE OpenIfModified
    BY <2>3, OpenKeeps
  <2>4. CASE ReloadBasic \/ ReloadCert
    BY <2>4, StoreKeeps DEF ReloadBasic, ReloadCert
  <2>5. CASE ReloadFails
    <3>1. /\ handle' = NoFile
          /\ UNCHANGED <<file, writing, version, latest, later, fileClock, loaded>>
      BY <2>5 DEF ReloadFails, content
    <3> QED  BY <3>1 DEF FileInv, FileTypes, TimesPast, Outdated, NoFile, Torn
  <2>6. CASE StartLoop \/ ChainProviders \/ ReloadTick \/ LoopStops \/ CloseProvider
    BY <2>1, <2>6, OtherKeeps
       DEF StartLoop, ChainProviders, ReloadTick, LoopStops, CloseProvider, content
  <2>7. CASE BeginRewrite \/ EndRewrite \/ \E t \in 1..fileClock : Replace(t)
    BY <2>7, WritersKeep
  <2>8. CASE FileTick
    BY <2>1, <2>8, OtherKeeps DEF FileTick, content
  <2> QED  BY <2>2, <2>3, <2>4, <2>5, <2>6, <2>7, <2>8 DEF FileNext, Reload
<1> QED  BY FileStarts, <1>1, PTL DEF FileSpec

\* file.go:9-28, basic.go:86-115: a change with a time of its own is loaded, or seen by the
\* next look, wherever in a reload it comes.
THEOREM ChangesAreSeen == FileSpec => []NoneMissed
<1>1. FileInv => NoneMissed
  BY DEF FileInv, Outdated, NoneMissed
<1> QED  BY FileInvariance, <1>1, PTL

-----------------------------------------------------------------------------
(* Serial numbers.                                                         *)

Bytes == 0 .. Base * Base - 1

LEMMA Quotients ==
    ASSUME NEW S \in Nat \ {0}, NEW x \in Nat, NEW y \in Nat, NEW d \in 0 .. S - 1,
           NEW e \in 0 .. S - 1, x * S + d = y * S + e
    PROVE  x = y /\ d = e
<1>1. ASSUME NEW u \in Nat, NEW w \in Nat, u < w PROVE w * S >= u * S + S
  <2>1. PICK k \in Nat : w = u + 1 + k
    <3>1. w - u - 1 \in Nat /\ w = u + 1 + (w - u - 1)
      BY <1>1
    <3> QED  BY <3>1
  <2>2. w * S = u * S + S + k * S /\ k * S >= 0 /\ u * S \in Int
    BY <2>1
  <2> QED  BY <2>2
<1>2. x * S \in Int /\ y * S \in Int
  OBVIOUS
<1>3. ~(x < y)
  BY <1>1, <1>2
<1>4. ~(y < x)
  BY <1>1, <1>2
<1> QED  BY <1>2, <1>3, <1>4

\* A byte is its two digits.
LEMMA DigitsOfByte ==
    ASSUME NEW x \in Bytes
    PROVE  /\ x \div Base \in Digits /\ x % Base \in Digits
           /\ (x \div Base) * Base + (x % Base) = x
<1>1. x \in Nat /\ Base \in Nat \ {0} /\ Base * Base \in Nat /\ x < Base * Base
  BY SerialsAssumption DEF Bytes
<1>2. x % Base \in Digits /\ x \div Base \in Int /\ (x \div Base) * Base + (x % Base) = x
  BY <1>1 DEF Digits
<1>3. x \div Base \in Digits
  BY <1>1, <1>2 DEF Digits
<1> QED  BY <1>2, <1>3

LEMMA BytesOfMagnitude ==
    ASSUME NEW max \in Nat, NEW b \in Magnitudes(max)
    PROVE  b \in Seq(Bytes) /\ Len(b) \in 0 .. max /\ \A i \in 1 .. Len(b) : b[i] \in Bytes
<1>1. PICK n \in 0 .. max : b \in [1 .. n -> Bytes]
  BY DEF Magnitudes, ByteStrings, Bytes
<1>2. b \in Seq(Bytes) /\ Len(b) = n
  BY <1>1
<1> QED  BY <1>1, <1>2

\* The digits of byte i are at p and behind it.
DigitsOf(b, i, s, p) == s[p] = b[i] \div Base /\ s[p + 1] = b[i] % Base

\* The result grows in front while the digits behind it are read: what is left of them
\* is two turns ahead at least.
Buffer ==
  task = "write" =>
    /\ buf \in Seq(Nat) /\ Len(buf) = 3 * Len(number)
    /\ \A i \in 1 .. round : DigitsOf(number, i, buf, 3 * i - 2) /\ buf[3 * i] = Colon
    /\ \A i \in round + 1 .. Len(number) : DigitsOf(number, i, buf, Len(number) + 2 * i - 1)

WriteInv ==
  /\ task \in {"new", "write", "read", "over"} /\ number \in Magnitudes(MaxBytes)
  /\ round \in 0 .. Len(number) /\ (task = "new" => round = 0)
  /\ Buffer /\ WritesBytes

LEMMA StartKeepsWriting == ASSUME WriteInv, StartFormat PROVE WriteInv'
<1> DEFINE n == Len(number')
           Digit(i) == IF i % 2 = 0 THEN number'[i \div 2 + 1] \div Base
                       ELSE number'[i \div 2 + 1] % Base
<1>1. /\ task = "new" /\ task' = "write" /\ number' \in Magnitudes(MaxBytes)
      /\ buf' = [p \in 1 .. 3 * n |-> IF p \in n + 1 .. n + 2 * n
                                      THEN Digit(p - 1 - n) ELSE Blank]
      /\ round' = round
  BY DEF StartFormat, DigitsAt
<1>2. n \in Nat /\ \A i \in 1 .. n : number'[i] \in Bytes
  BY <1>1, BytesOfMagnitude, SerialsAssumption
<1>3. round = 0
  BY <1>1 DEF WriteInv
<1>4. \A i \in 1 .. n : /\ Digit(2 * i - 2) = number'[i] \div Base
                         /\ Digit(2 * i - 1) = number'[i] % Base
  <2>1. \A i \in 1 .. n : /\ (2 * i - 2) % 2 = 0 /\ (2 * i - 2) \div 2 + 1 = i
                          /\ (2 * i - 1) % 2 # 0 /\ (2 * i - 1) \div 2 + 1 = i
    BY <1>2
  <2> QED  BY <2>1
<1>5. \A p \in n + 1 .. n + 2 * n : Digit(p - 1 - n) \in Nat
  <2>1. SUFFICES ASSUME NEW p \in n + 1 .. n + 2 * n PROVE Digit(p - 1 - n) \in Nat
    OBVIOUS
  <2>2. (p - 1 - n) \div 2 + 1 \in 1 .. n
    BY <1>2
  <2>3. number'[(p - 1 - n) \div 2 + 1] \in Bytes
    BY <1>2, <2>2
  <2> QED  BY <2>3, DigitsOfByte DEF Digits
<1> HIDE DEF Digit
<1>6. buf' \in [1 .. 3 * n -> Nat]
  BY <1>1, <1>2, <1>5, SerialsAssumption DEF Blank
<1>7. buf' \in Seq(Nat) /\ Len(buf') = 3 * n
  BY <1>2, <1>6
<1>8. ASSUME NEW i \in 1 .. n PROVE DigitsOf(number', i, buf', n + 2 * i - 1)
  <2>1. /\ n + 2 * i - 1 \in 1 .. 3 * n /\ n + 2 * i \in 1 .. 3 * n
        /\ n + 2 * i - 1 \in n + 1 .. n + 2 * n /\ n + 2 * i \in n + 1 .. n + 2 * n
        /\ n + 2 * i - 1 - 1 - n = 2 * i - 2 /\ n + 2 * i - 1 - n = 2 * i - 1
        /\ n + 2 * i - 1 + 1 = n + 2 * i
    BY <1>2
  <2>2. buf'[n + 2 * i - 1] = Digit(2 * i - 2) /\ buf'[n + 2 * i] = Digit(2 * i - 1)
    BY <1>1, <2>1
  <2> QED  BY <1>4, <2>1, <2>2 DEF DigitsOf
<1>9. Buffer'
  BY <1>1, <1>2, <1>3, <1>7, <1>8 DEF Buffer
<1> QED  BY <1>1, <1>2, <1>3, <1>9 DEF WriteInv, WritesBytes

LEMMA TurnKeepsWriting == ASSUME WriteInv, FormatTurn PROVE WriteInv'
<1> DEFINE n == Len(number)
           place == n + 2 * round
<1>1. /\ task = "write" /\ task' = task /\ round < n /\ round' = round + 1
      /\ number' = number /\ text' = text
      /\ buf' = [buf EXCEPT ![3 * round + 1] = buf[place + 1],
                            ![3 * round + 2] = buf[place + 2],
                            ![3 * round + 3] = Colon]
  BY DEF FormatTurn, DigitsAt
<1>2. n \in Nat /\ round \in 0 .. n
  BY BytesOfMagnitude, SerialsAssumption DEF WriteInv
<1>3. buf \in Seq(Nat) /\ Len(buf) = 3 * n
  BY <1>1 DEF WriteInv, Buffer
<1>9. /\ \A i \in 1 .. round : DigitsOf(number, i, buf, 3 * i - 2) /\ buf[3 * i] = Colon
      /\ \A i \in round + 1 .. n : DigitsOf(number, i, buf, n + 2 * i - 1)
  BY <1>1 DEF WriteInv, Buffer
<1> HIDE DEF n
<1>4. /\ round < n /\ place \in Nat /\ place + 1 \in 1 .. 3 * n /\ place + 2 \in 1 .. 3 * n
      /\ 3 * round + 1 \in 1 .. 3 * n /\ 3 * round + 2 \in 1 .. 3 * n
      /\ 3 * round + 3 \in 1 .. 3 * n /\ 3 * n \in Nat
  BY <1>1, <1>2
<1> HIDE DEF place
<1>10. buf[place + 1] \in Nat /\ buf[place + 2] \in Nat /\ Colon \in Nat
  BY <1>3, <1>4, SerialsAssumption DEF Colon
<1>5. /\ buf' \in Seq(Nat) /\ Len(buf') = 3 * n
      /\ buf'[3 * round + 1] = buf[place + 1] /\ buf'[3 * round + 2] = buf[place + 2]
      /\ buf'[3 * round + 3] = Colon
      /\ \A p \in 1 .. 3 * n : (p < 3 * round + 1 \/ p > 3 * round + 3) => buf'[p] = buf[p]
  <2> DEFINE x == buf[place + 1]
             y == buf[place + 2]
  <2>1. buf \in [1 .. 3 * n -> Nat]
    BY <1>3
  <2>2. buf' = [buf EXCEPT ![3 * round + 1] = x, ![3 * round + 2] = y, ![3 * round + 3] = Colon]
        /\ x \in Nat /\ y \in Nat
    BY <1>1, <1>10
  <2> HIDE DEF x, y
  <2>3. buf' \in [1 .. 3 * n -> Nat]
    BY <1>10, <2>1, <2>2
  <2>4. buf' \in Seq(Nat) /\ Len(buf') = 3 * n
    BY <1>4, <2>3
  <2>5. /\ buf'[3 * round + 1] = x /\ buf'[3 * round + 2] = y
        /\ buf'[3 * round + 3] = Colon
        /\ \A p \in 1 .. 3 * n : (p < 3 * round + 1 \/ p > 3 * round + 3) => buf'[p] = buf[p]
    BY <1>2, <1>4, <2>1, <2>2
  <2> QED  BY <2>4, <2>5 DEF x, y
<1>6. ASSUME NEW i \in 1 .. round + 1
      PROVE  DigitsOf(number', i, buf', 3 * i - 2) /\ buf'[3 * i] = Colon
  <2>1. CASE i = round + 1
    <3>1. DigitsOf(number, i, buf, n + 2 * i - 1) /\ n + 2 * i - 1 = place + 1
      BY <1>2, <1>4, <1>9, <2>1 DEF place
    <3>2. /\ 3 * i - 2 = 3 * round + 1 /\ 3 * i - 2 + 1 = 3 * round + 2
          /\ 3 * i = 3 * round + 3 /\ place + 1 + 1 = place + 2
      BY <1>2, <2>1 DEF place
    <3> QED  BY <1>1, <1>5, <3>1, <3>2 DEF DigitsOf
  <2>2. CASE i # round + 1
    <3>1. i \in 1 .. round
      BY <1>2, <2>2
    <3>2. /\ 3 * i - 2 \in 1 .. 3 * n /\ 3 * i - 2 + 1 \in 1 .. 3 * n /\ 3 * i \in 1 .. 3 * n
          /\ 3 * i - 2 < 3 * round + 1 /\ 3 * i - 2 + 1 < 3 * round + 1 /\ 3 * i < 3 * round + 1
      BY <1>2, <1>4, <3>1
    <3>3. buf'[3 * i - 2] = buf[3 * i - 2] /\ buf'[3 * i - 2 + 1] = buf[3 * i - 2 + 1]
          /\ buf'[3 * i] = buf[3 * i]
      BY <1>5, <3>2
    <3> QED  BY <1>1, <1>9, <3>1, <3>3 DEF DigitsOf
  <2> QED  BY <2>1, <2>2
<1>7. ASSUME NEW i \in round + 2 .. n PROVE DigitsOf(number', i, buf', n + 2 * i - 1)
  <2>1. /\ n + 2 * i - 1 \in 1 .. 3 * n /\ n + 2 * i - 1 + 1 \in 1 .. 3 * n
        /\ n + 2 * i - 1 > 3 * round + 3 /\ n + 2 * i - 1 + 1 > 3 * round + 3
        /\ i \in round + 1 .. n
    BY <1>2, <1>4
  <2>2. /\ buf'[n + 2 * i - 1] = buf[n + 2 * i - 1]
        /\ buf'[n + 2 * i - 1 + 1] = buf[n + 2 * i - 1 + 1]
    BY <1>5, <2>1
  <2> QED  BY <1>1, <1>9, <2>1, <2>2 DEF DigitsOf
<1>8. Buffer'
  <2>1. round' + 1 = round + 2 /\ Len(number') = n /\ round' = round + 1
    BY <1>1, <1>2 DEF n
  <2> QED  BY <1>5, <1>6, <1>7, <2>1 DEF Buffer
<1> QED  BY <1>1, <1>2, <1>4, <1>8 DEF WriteInv, WritesBytes, n

LEMMA EndKeepsWriting == ASSUME WriteInv, FormatEnd PROVE WriteInv'
<1> DEFINE n == Len(number)
<1>1. /\ task = "write" /\ task' = "over" /\ round = n /\ UNCHANGED <<number, round>>
      /\ buf # <<>> => text' = SubSeq(buf, 1, Len(buf) - 1)
  BY DEF FormatEnd
<1>2. n \in Nat /\ (number # <<>> => n > 0)
  BY BytesOfMagnitude, SerialsAssumption DEF WriteInv
<1>3. /\ buf \in Seq(Nat) /\ Len(buf) = 3 * n
      /\ \A i \in 1 .. n : DigitsOf(number, i, buf, 3 * i - 2) /\ buf[3 * i] = Colon
  BY <1>1 DEF WriteInv, Buffer
<1>4. ASSUME number # <<>>
      PROVE  Len(text') = 3 * n - 1 /\ \A p \in 1 .. 3 * n - 1 : text'[p] = buf[p]
  <2>1. buf # <<>> /\ text' = SubSeq(buf, 1, 3 * n - 1)
    BY <1>1, <1>2, <1>3, <1>4
  <2> QED  BY <1>2, <1>3, <1>4, <2>1, SubSeqProperties
<1>5. ASSUME number # <<>>, NEW i \in 1 .. n
      PROVE  /\ text'[3 * i - 2] = number[i] \div Base
             /\ text'[3 * i - 1] = number[i] % Base
             /\ i < n => text'[3 * i] = Colon
  <2>1. /\ 3 * i - 2 \in 1 .. 3 * n - 1 /\ 3 * i - 1 \in 1 .. 3 * n - 1
        /\ 3 * i - 2 + 1 = 3 * i - 1 /\ (i < n => 3 * i \in 1 .. 3 * n - 1)
    BY <1>2
  <2> QED  BY <1>3, <1>4, <1>5, <2>1 DEF DigitsOf
<1>6. WritesBytes'
  BY <1>1, <1>4, <1>5 DEF WritesBytes
<1> QED  BY <1>1, <1>2, <1>6 DEF WriteInv, Buffer

LEMMA WriteInvariance == SerialSpec => []WriteInv
<1>1. SerialInit => WriteInv
  <2> SUFFICES ASSUME SerialInit PROVE WriteInv
    OBVIOUS
  <2>1. <<>> \in Magnitudes(MaxBytes)
    BY SerialsAssumption DEF Magnitudes, ByteStrings
  <2> QED  BY <2>1 DEF SerialInit, WriteInv, Buffer, WritesBytes
<1>2. ASSUME WriteInv, UNCHANGED <<number, buf, round, text>>,
             task' = task \/ task' = "read" PROVE WriteInv'
  BY <1>2 DEF WriteInv, Buffer, WritesBytes, DigitsOf
<1>3. ASSUME WriteInv, [SerialNext]_serialVars PROVE WriteInv'
  <2>1. CASE ScanLine
    BY <1>2, <1>3, <2>1 DEF ScanLine
  <2>2. CASE UNCHANGED serialVars
    BY <1>2, <1>3, <2>2 DEF serialVars
  <2> QED  BY <1>3, <2>1, <2>2, StartKeepsWriting, TurnKeepsWriting, EndKeepsWriting DEF SerialNext
<1> QED  BY <1>1, <1>3, PTL DEF SerialSpec

\* Nothing is wrong with a line.
Whole(line) ==
  \A i \in 0 .. Pairs(line) - 1 :
    /\ i * 3 + 1 < Len(line) /\ ColonAfter(line, i)
    /\ {line[i * 3 + 1], line[i * 3 + 2]} \subseteq Digits

LEMMA WholeIsParsed ==
    ASSUME NEW line, Len(line) \in Nat
    PROVE  ParseSerial(line) =
             IF Whole(line)
             THEN [i \in 1 .. Pairs(line) |-> line[i * 3 - 2] * Base + line[i * 3 - 1]]
             ELSE Bad
<1> DEFINE size == Pairs(line)
           pairs == {i \in 0 .. size - 1 : i * 3 + 1 < Len(line)}
           Good(i) == /\ {line[i * 3 + 1], line[i * 3 + 2]} \subseteq Digits
                      /\ ColonAfter(line, i)
<1>1. ParseSerial(line) =
        IF Cardinality(pairs) = size /\ \A i \in pairs : Good(i)
        THEN [i \in 1 .. size |-> line[i * 3 - 2] * Base + line[i * 3 - 1]] ELSE Bad
  BY DEF ParseSerial
<1>2. size \in Nat
  BY DEF Pairs
<1> HIDE DEF size
<1>3. IsFiniteSet(0 .. size - 1) /\ Cardinality(0 .. size - 1) = size
  <2>1. 0 \in Int /\ size - 1 \in Int
    BY <1>2
  <2>2. /\ IsFiniteSet(0 .. size - 1)
        /\ Cardinality(0 .. size - 1) = IF 0 > size - 1 THEN 0 ELSE size - 1 - 0 + 1
    BY <2>1, FS_Interval
  <2> QED  BY <1>2, <2>2
<1>4. pairs \subseteq 0 .. size - 1
  OBVIOUS
<1> HIDE DEF pairs
<1>5. Cardinality(pairs) = size <=> pairs = 0 .. size - 1
  BY <1>3, <1>4, FS_Subset
<1>6. (pairs = 0 .. size - 1 /\ \A i \in pairs : Good(i)) <=> Whole(line)
  <2>0. size \in Nat
    BY <1>2
  <2>1. pairs = 0 .. size - 1 <=> \A i \in 0 .. size - 1 : i * 3 + 1 < Len(line)
    BY DEF pairs
  <2>2. ASSUME pairs = 0 .. size - 1 PROVE (\A i \in pairs : Good(i)) <=> \A i \in 0 .. size - 1 : Good(i)
    BY <2>2
  <2> HIDE DEF Good
  <2>3. Whole(line) <=> \A i \in 0 .. size - 1 : i * 3 + 1 < Len(line) /\ Good(i)
    BY DEF Whole, size, Good
  <2> QED  BY <2>1, <2>2, <2>3
<1> QED  BY <1>1, <1>5, <1>6 DEF size

\* What is written is read as what it was.
LEMMA ReadsBack == ASSUME WriteInv PROVE ReadsWhatItWrote
<1> SUFFICES ASSUME task = "over", number # <<>> PROVE ParseSerial(text) = number
  BY DEF ReadsWhatItWrote
<1> DEFINE n == Len(number)
<1>1. n \in Nat /\ n > 0 /\ number \in Seq(Bytes) /\ \A i \in 1 .. n : number[i] \in Bytes
  BY BytesOfMagnitude, SerialsAssumption DEF WriteInv
<1>2. /\ Len(text) = 3 * n - 1
      /\ \A i \in 1 .. n : /\ text[3 * i - 2] = number[i] \div Base
                           /\ text[3 * i - 1] = number[i] % Base
                           /\ i < n => text[3 * i] = Colon
  BY DEF WriteInv, WritesBytes
<1> HIDE DEF n
<1>3. Pairs(text) = n /\ Len(text) \in Nat
  BY <1>1, <1>2 DEF Pairs
<1>4. ASSUME NEW i \in 0 .. n - 1
      PROVE  /\ i * 3 + 1 < Len(text) /\ ColonAfter(text, i)
             /\ text[i * 3 + 1] \in Digits /\ text[i * 3 + 2] \in Digits
  <2>1. /\ i + 1 \in 1 .. n /\ i * 3 + 1 = 3 * (i + 1) - 2 /\ i * 3 + 2 = 3 * (i + 1) - 1
        /\ i * 3 + 3 = 3 * (i + 1) /\ i * 3 + 1 < 3 * n - 1
        /\ (i * 3 + 2 < 3 * n - 1 => i + 1 < n)
    BY <1>1
  <2>2. ColonAfter(text, i)
    BY <1>2, <2>1 DEF ColonAfter
  <2>3. /\ text[i * 3 + 1] = number[i + 1] \div Base /\ text[i * 3 + 2] = number[i + 1] % Base
        /\ number[i + 1] \in Bytes
    BY <1>1, <1>2, <2>1
  <2> QED  BY <1>2, <2>1, <2>2, <2>3, DigitsOfByte
<1>5. Whole(text)
  BY <1>3, <1>4 DEF Whole
<1>6. ParseSerial(text) = [i \in 1 .. n |-> text[i * 3 - 2] * Base + text[i * 3 - 1]]
  BY <1>3, <1>5, WholeIsParsed
<1>7. ASSUME NEW i \in 1 .. n PROVE text[i * 3 - 2] * Base + text[i * 3 - 1] = number[i]
  <2>1. i * 3 - 2 = 3 * i - 2 /\ i * 3 - 1 = 3 * i - 1
    BY <1>1
  <2> QED  BY <1>1, <1>2, <2>1, DigitsOfByte
<1>8. number = [i \in 1 .. n |-> number[i]]
  BY <1>1 DEF n
<1> QED  BY <1>6, <1>7, <1>8

LEMMA TextsAreLines ==
    ASSUME NEW line \in Texts
    PROVE  /\ Len(line) \in 1 .. MaxLine /\ DOMAIN line = 1 .. Len(line)
           /\ \A p \in 1 .. Len(line) : line[p] \in Digits \cup {Colon, Junk}
<1>1. PICK k \in 1 .. MaxLine : line \in [1 .. k -> Digits \cup {Colon, Junk}]
  BY DEF Texts
<1>2. line \in Seq(Digits \cup {Colon, Junk}) /\ Len(line) = k
  BY <1>1, SerialsAssumption
<1> QED  BY <1>1, <1>2

\* A good line is digits between colons, and comes to bytes.
LEMMA GoodLines ==
    ASSUME NEW line \in Texts, ParseSerial(line) # Bad
    PROVE  /\ ParseSerial(line) \in Seq(Bytes)
           /\ Len(ParseSerial(line)) \in 1 .. ((MaxLine + 2) \div 3)
           /\ \A p \in 1 .. Len(line) : (line[p] = Colon <=> p % 3 = 0) /\ line[p] # Junk
<1> DEFINE size == Pairs(line)
<1>1. /\ Len(line) \in 1 .. MaxLine
      /\ \A p \in 1 .. Len(line) : line[p] \in Digits \cup {Colon, Junk}
  BY TextsAreLines
<1>2. /\ Whole(line)
      /\ ParseSerial(line) = [i \in 1 .. size |-> line[i * 3 - 2] * Base + line[i * 3 - 1]]
  BY <1>1, WholeIsParsed, SerialsAssumption
<1>3. /\ size \in 1 .. ((MaxLine + 2) \div 3)
      /\ Len(line) <= 3 * size /\ 3 * size <= Len(line) + 2
  BY <1>1, SerialsAssumption DEF Pairs
<1>4. \A i \in 0 .. size - 1 :
        /\ i * 3 + 1 < Len(line) /\ ColonAfter(line, i)
        /\ line[i * 3 + 1] \in Digits /\ line[i * 3 + 2] \in Digits
  BY <1>2 DEF Whole
<1> HIDE DEF size
<1>5. ASSUME NEW i \in 1 .. size PROVE line[i * 3 - 2] * Base + line[i * 3 - 1] \in Bytes
  <2>1. i - 1 \in 0 .. size - 1 /\ (i - 1) * 3 + 1 = i * 3 - 2 /\ (i - 1) * 3 + 2 = i * 3 - 1
    BY <1>3
  <2>2. line[i * 3 - 2] \in Digits /\ line[i * 3 - 1] \in Digits
    BY <1>4, <2>1
  <2>3. ASSUME NEW x \in Digits, NEW y \in Digits PROVE x * Base + y \in Bytes
    <3>1. x \in Nat /\ y \in Nat /\ x <= Base - 1 /\ y <= Base - 1 /\ Base \in Nat
      BY SerialsAssumption DEF Digits
    <3>2. x * Base <= (Base - 1) * Base /\ (Base - 1) * Base = Base * Base - Base
          /\ x * Base \in Nat
      BY <3>1
    <3> QED  BY <3>1, <3>2 DEF Bytes
  <2> QED  BY <2>2, <2>3
<1>6. /\ ParseSerial(line) \in Seq(Bytes) /\ Len(ParseSerial(line)) = size
  <2>1. ParseSerial(line) \in [1 .. size -> Bytes]
    BY <1>2, <1>5 DEF size
  <2> QED  BY <1>3, <2>1
<1>7. ASSUME NEW p \in 1 .. Len(line)
      PROVE  (line[p] = Colon <=> p % 3 = 0) /\ line[p] # Junk
  <2>1. \A d \in Digits : d # Colon /\ d # Junk
    BY SerialsAssumption DEF Digits, Colon, Junk
  <2>2. Colon # Junk
    BY SerialsAssumption DEF Colon, Junk
  <2>3. PICK i \in 0 .. size - 1 : p = i * 3 + 1 \/ p = i * 3 + 2 \/ p = i * 3 + 3
    <3>1. p \in Nat /\ p >= 1 /\ p <= 3 * size /\ size \in Nat
      BY <1>1, <1>3, SerialsAssumption
    <3> DEFINE i == (p - 1) \div 3
    <3>2. i \in 0 .. size - 1
      BY <3>1
    <3>3. p = i * 3 + 1 \/ p = i * 3 + 2 \/ p = i * 3 + 3
      BY <3>1
    <3> QED  BY <3>2, <3>3
  <2>4. CASE p = i * 3 + 1
    <3>1. p % 3 # 0
      BY <1>3, <2>4
    <3> QED  BY <1>4, <2>1, <2>4, <3>1
  <2>5. CASE p = i * 3 + 2
    <3>1. p % 3 # 0
      BY <1>3, <2>5
    <3> QED  BY <1>4, <2>1, <2>5, <3>1
  <2>6. CASE p = i * 3 + 3
    <3>1. i * 3 + 2 < Len(line) /\ p % 3 = 0
      BY <1>1, <1>3, <2>6
    <3> QED  BY <1>4, <2>2, <2>6, <3>1 DEF ColonAfter
  <2> QED  BY <2>3, <2>4, <2>5, <2>6
<1> QED  BY <1>3, <1>6, <1>7

\* b is c with zeroes in front.
Padded(b, c) ==
  LET d == Len(b) - Len(c) IN
  /\ \A i \in 1 .. d : b[i] = 0
  /\ \A i \in 1 .. Len(c) : b[d + i] = c[i]

\* So many zeroes are in front.
Leads(b, z) ==
  /\ z \in 0 .. Len(b) /\ \A i \in 1 .. z : b[i] = 0
  /\ z < Len(b) => b[z + 1] # 0

LEMMA CutIsRest ==
    ASSUME NEW b \in Seq(Bytes)
    PROVE  \E z : Leads(b, z) /\ CutLeadingZeroes(b) = [i \in 1 .. Len(b) - z |-> b[z + i]]
<1> DEFINE m == Len(b)
           some == {i \in 1 .. m : b[i] # 0}
           first == {i \in DOMAIN b : b[i] # 0 /\ \A j \in 1 .. i - 1 : b[j] = 0}
<1>1. m \in Nat /\ DOMAIN b = 1 .. m
  OBVIOUS
<1>2. CutLeadingZeroes(b) = IF first = {} THEN <<>> ELSE SubSeq(b, CHOOSE i \in first : TRUE, m)
  BY DEF CutLeadingZeroes
<1>3. CASE some = {}
  <2>1. \A i \in 1 .. m : b[i] = 0
    BY <1>3
  <2>2. first = {}
    BY <1>1, <2>1
  <2> HIDE DEF first, m
  <2>3. CutLeadingZeroes(b) = <<>>
    BY <1>2, <2>2
  <2>4. <<>> = [i \in 1 .. m - m |-> b[m + i]]
    BY <1>1
  <2>5. Leads(b, m)
    BY <1>1, <2>1 DEF Leads, m
  <2> QED  BY <2>3, <2>4, <2>5 DEF m
<1>4. CASE some # {}
  <2>1. some \in SUBSET Nat
    BY <1>1
  <2>2. PICK f \in some : \A i \in some : f <= i
    <3> HIDE DEF some
    <3> QED  BY <1>4, <2>1, LeastOf
  <2>3. f \in 1 .. m /\ b[f] # 0 /\ \A j \in 1 .. f - 1 : b[j] = 0
    <3>1. f \in 1 .. m /\ b[f] # 0
      BY <2>2
    <3>2. ASSUME NEW j \in 1 .. f - 1 PROVE b[j] = 0
      <4>1. j \in 1 .. m /\ ~(f <= j)
        BY <1>1, <3>1
      <4> QED  BY <2>2, <4>1
    <3> QED  BY <3>1, <3>2
  <2> HIDE DEF some
  <2>4. first = {f}
    <3>1. f \in first
      BY <1>1, <2>3
    <3>2. ASSUME NEW i \in first PROVE i = f
      <4>1. i \in 1 .. m /\ b[i] # 0 /\ \A j \in 1 .. i - 1 : b[j] = 0
        BY <1>1
      <4>2. ~(f < i)
        BY <1>1, <2>3, <4>1
      <4>3. ~(i < f)
        BY <1>1, <2>3, <4>1
      <4> QED  BY <1>1, <2>3, <4>1, <4>2, <4>3
    <3> HIDE DEF first
    <3> QED  BY <3>1, <3>2
  <2> HIDE DEF first
  <2>5. CutLeadingZeroes(b) = SubSeq(b, f, m)
    <3>1. (CHOOSE i \in {f} : TRUE) = f
      OBVIOUS
    <3> QED  BY <1>2, <2>4, <3>1
  <2>6. SubSeq(b, f, m) = [i \in 1 .. m - (f - 1) |-> b[(f - 1) + i]]
    <3>1. m - f + 1 = m - (f - 1) /\ \A i \in 1 .. m - (f - 1) : (f - 1) + i = f + i - 1
      BY <1>1, <2>3
    <3>2. /\ Len(SubSeq(b, f, m)) = m - f + 1 /\ SubSeq(b, f, m) \in Seq(Bytes)
          /\ \A i \in 1 .. m - f + 1 : SubSeq(b, f, m)[i] = b[f + i - 1]
      BY <1>1, <2>3, SubSeqProperties
    <3> QED  BY <3>1, <3>2
  <2>7. Leads(b, f - 1)
    <3>1. f - 1 \in 0 .. Len(b) /\ f - 1 + 1 = f
      BY <1>1, <2>3
    <3> QED  BY <2>3, <3>1 DEF Leads
  <2> QED  BY <2>5, <2>6, <2>7
<1> QED  BY <1>3, <1>4

LEMMA CutOfPadded ==
    ASSUME NEW b \in Seq(Bytes), NEW c \in Seq(Bytes), Len(c) <= Len(b)
    PROVE  CutLeadingZeroes(b) = CutLeadingZeroes(c) <=> Padded(b, c)
<1> DEFINE m == Len(b)
           k == Len(c)
           d == m - k
<1>1. m \in Nat /\ k \in Nat /\ d \in Nat /\ k + d = m
  OBVIOUS
<1>2. PICK y : Leads(b, y) /\ CutLeadingZeroes(b) = [i \in 1 .. m - y |-> b[y + i]]
  BY CutIsRest
<1>3. PICK z : Leads(c, z) /\ CutLeadingZeroes(c) = [i \in 1 .. k - z |-> c[z + i]]
  BY CutIsRest
<1>4. /\ y \in 0 .. m /\ \A i \in 1 .. y : b[i] = 0
      /\ y < m => b[y + 1] # 0
      /\ z \in 0 .. k /\ \A i \in 1 .. z : c[i] = 0
      /\ z < k => c[z + 1] # 0
  BY <1>2, <1>3 DEF Leads
<1>5. Padded(b, c) <=> (\A i \in 1 .. d : b[i] = 0) /\ \A i \in 1 .. k : b[d + i] = c[i]
  BY DEF Padded
<1> HIDE DEF m, k, d
<1>6. ASSUME Padded(b, c) PROVE CutLeadingZeroes(b) = CutLeadingZeroes(c)
  <2>1. y = d + z
    <3>1. ~(y < d + z)
      <4>1. SUFFICES ASSUME y < d + z PROVE FALSE
        OBVIOUS
      <4>2. y + 1 \in 1 .. m /\ b[y + 1] # 0
        BY <1>1, <1>4, <4>1
      <4>3. CASE y + 1 <= d
        <5>1. y + 1 \in 1 .. d
          BY <1>1, <1>4, <4>3
        <5> QED  BY <1>5, <1>6, <4>2, <5>1
      <4>4. CASE ~(y + 1 <= d)
        <5>1. y + 1 - d \in 1 .. k /\ y + 1 - d \in 1 .. z /\ d + (y + 1 - d) = y + 1
          BY <1>1, <1>4, <4>1, <4>4
        <5>2. b[d + (y + 1 - d)] = c[y + 1 - d] /\ c[y + 1 - d] = 0
          BY <1>4, <1>5, <1>6, <5>1
        <5> QED  BY <4>2, <5>1, <5>2
      <4> QED  BY <4>3, <4>4
    <3>2. ~(d + z < y)
      <4>1. SUFFICES ASSUME d + z < y PROVE FALSE
        OBVIOUS
      <4>2. z + 1 \in 1 .. k /\ z < k /\ d + (z + 1) \in 1 .. y
        BY <1>1, <1>4, <4>1
      <4>3. b[d + (z + 1)] = c[z + 1] /\ c[z + 1] # 0 /\ b[d + (z + 1)] = 0
        BY <1>4, <1>5, <1>6, <4>2
      <4> QED  BY <4>3
    <3> QED  BY <1>1, <1>4, <3>1, <3>2
  <2>2. m - y = k - z /\ \A i \in 1 .. k - z : z + i \in 1 .. k /\ d + (z + i) = y + i
    BY <1>1, <1>4, <2>1
  <2>3. \A i \in 1 .. k - z : b[y + i] = c[z + i]
    <3>1. SUFFICES ASSUME NEW i \in 1 .. k - z PROVE b[y + i] = c[z + i]
      OBVIOUS
    <3>2. z + i \in 1 .. k /\ d + (z + i) = y + i
      BY <2>2
    <3>3. b[d + (z + i)] = c[z + i]
      BY <1>5, <1>6, <3>2
    <3> QED  BY <3>2, <3>3
  <2> QED  BY <1>2, <1>3, <2>2, <2>3
<1>7. ASSUME CutLeadingZeroes(b) = CutLeadingZeroes(c) PROVE Padded(b, c)
  <2>1. [i \in 1 .. m - y |-> b[y + i]] = [i \in 1 .. k - z |-> c[z + i]]
    BY <1>2, <1>3, <1>7
  <2>2. m - y = k - z
    <3>1. m - y \in Nat /\ k - z \in Nat
      BY <1>1, <1>4
    <3>2. 1 .. m - y = 1 .. k - z
      BY <2>1
    <3> QED  BY <3>1, <3>2
  <2>3. y = d + z
    BY <1>1, <1>4, <2>2
  <2>4. \A i \in 1 .. k - z : b[y + i] = c[z + i]
    BY <2>1, <2>2
  <2>5. \A i \in 1 .. d : b[i] = 0
    BY <1>1, <1>4, <2>3
  <2>6. ASSUME NEW i \in 1 .. k PROVE b[d + i] = c[i]
    <3>1. CASE i <= z
      <4>1. i \in 1 .. z /\ d + i \in 1 .. y
        BY <1>1, <1>4, <2>3, <3>1
      <4> QED  BY <1>4, <4>1
    <3>2. CASE ~(i <= z)
      <4>1. i - z \in 1 .. k - z /\ y + (i - z) = d + i /\ z + (i - z) = i
        BY <1>1, <1>4, <2>3, <3>2
      <4>2. b[y + (i - z)] = c[z + (i - z)]
        BY <2>4, <4>1
      <4> QED  BY <4>1, <4>2
    <3> QED  BY <3>1, <3>2
  <2> QED  BY <1>5, <2>5, <2>6
<1> QED  BY <1>6, <1>7

Square == Base * Base

\* The numbers that the beginnings of b stand for.
Sums(b, f, n) ==
    f = [i \in 0 .. n |-> IF i = 0 THEN 0 ELSE f[i - 1] * (Base * Base) + b[i]]

LEMMA SumsExist == ASSUME NEW b, NEW n \in Nat PROVE \E f : Sums(b, f, n)
<1> DEFINE good == {k \in 0 .. n : \E f : Sums(b, f, k)}
<1>1. 0 \in good
  <2>1. Sums(b, [i \in 0 .. 0 |-> 0], 0)
    BY DEF Sums
  <2> QED  BY <2>1
<1>2. ASSUME NEW k \in 1 .. n, k - 1 \in good PROVE k \in good
  <2>1. PICK f : Sums(b, f, k - 1)
    BY <1>2
  <2> DEFINE g == [i \in 0 .. k |-> IF i < k THEN f[i] ELSE f[k - 1] * (Base * Base) + b[k]]
  <2>2. \A i \in 0 .. (k - 1) : g[i] = f[i]
    OBVIOUS
  <2>3. g[k] = g[k - 1] * (Base * Base) + b[k]
    BY <2>2
  <2>4. \A i \in 0 .. (k - 1) : g[i] = IF i = 0 THEN 0 ELSE g[i - 1] * (Base * Base) + b[i]
    <3>1. \A i \in 0 .. (k - 1) : f[i] = IF i = 0 THEN 0 ELSE f[i - 1] * (Base * Base) + b[i]
      BY <2>1 DEF Sums
    <3> QED  BY <2>2, <3>1
  <2>5. Sums(b, g, k)
    <3>1. g = [i \in 0 .. k |-> g[i]]
      OBVIOUS
    <3> HIDE DEF g
    <3> DEFINE sumAt(i) == IF i = 0 THEN 0 ELSE g[i - 1] * (Base * Base) + b[i]
    <3>2. g[k] = sumAt(k)
      BY <2>3
    <3>3. \A i \in 0 .. (k - 1) : g[i] = sumAt(i)
      BY <2>4
    <3>4. \A i \in 0 .. k : i = k \/ i \in 0 .. (k - 1)
      OBVIOUS
    <3> HIDE DEF sumAt
    <3>5. \A i \in 0 .. k : g[i] = sumAt(i)
      BY <3>2, <3>3, <3>4
    <3>6. g = [i \in 0 .. k |-> sumAt(i)]
      BY <3>1, <3>5, Zenon
    <3> QED  BY <3>6, Zenon DEF Sums, sumAt
  <2> QED  BY <2>5
<1> HIDE DEF good
<1>3. n \in good
  BY <1>1, <1>2, UpTo
<1> QED  BY <1>3 DEF good

LEMMA ValueIsSum ==
    ASSUME NEW b \in Seq(Bytes)
    PROVE  \E f : /\ f[0] = 0 /\ Value(b) = f[Len(b)]
                  /\ \A i \in 0 .. Len(b) : f[i] \in Nat
                  /\ \A i \in 1 .. Len(b) : f[i] = f[i - 1] * Square + b[i]
<1>1. Len(b) \in Nat /\ \A i \in 1 .. Len(b) : b[i] \in Bytes
  OBVIOUS
<1> DEFINE f == CHOOSE f : Sums(b, f, Len(b))
<1>2. Sums(b, f, Len(b))
  BY <1>1, SumsExist
<1>3. Value(b) = f[Len(b)]
  BY DEF Value, Sums
<1> HIDE DEF f
<1>4. \A i \in 0 .. Len(b) : f[i] = IF i = 0 THEN 0 ELSE f[i - 1] * (Base * Base) + b[i]
  BY <1>2, Zenon DEF Sums
<1>5. f[0] = 0 /\ \A i \in 1 .. Len(b) : f[i] = f[i - 1] * Square + b[i]
  <2>1. 0 \in 0 .. Len(b) /\ \A i \in 1 .. Len(b) : i \in 0 .. Len(b) /\ i # 0
    BY <1>1
  <2> QED  BY <1>4, <2>1 DEF Square
<1> DEFINE good == {k \in 0 .. Len(b) : f[k] \in Nat}
<1>6. 0 \in good
  BY <1>1, <1>5
<1>7. ASSUME NEW k \in 1 .. Len(b), k - 1 \in good PROVE k \in good
  <2>1. f[k - 1] \in Nat /\ b[k] \in Nat /\ Square \in Nat
    BY <1>1, <1>7, SerialsAssumption DEF Bytes, Square
  <2>2. f[k] = f[k - 1] * Square + b[k]
    BY <1>5
  <2> QED  BY <1>1, <2>1, <2>2
<1> HIDE DEF good
<1>8. \A k \in 0 .. Len(b) : k \in good
  BY <1>1, <1>6, <1>7, UpTo
<1> QED  BY <1>3, <1>5, <1>8 DEF good

LEMMA ValueOfPadded ==
    ASSUME NEW b \in Seq(Bytes), NEW c \in Seq(Bytes), Len(c) <= Len(b)
    PROVE  Value(b) = Value(c) <=> Padded(b, c)
<1> DEFINE m == Len(b)
           k == Len(c)
           d == m - k
<1>1. /\ m \in Nat /\ k \in Nat /\ d \in Nat /\ k + d = m
      /\ \A i \in 1 .. m : b[i] \in 0 .. Square - 1
      /\ \A i \in 1 .. k : c[i] \in 0 .. Square - 1
  <2>1. Bytes = 0 .. Square - 1
    BY DEF Bytes, Square
  <2>2. (\A i \in 1 .. m : b[i] \in Bytes) /\ \A i \in 1 .. k : c[i] \in Bytes
    OBVIOUS
  <2>3. m \in Nat /\ k \in Nat /\ d \in Nat /\ k + d = m
    OBVIOUS
  <2> HIDE DEF m, k, d
  <2> QED  BY <2>1, <2>2, <2>3
<1>2. PICK f : /\ f[0] = 0 /\ Value(b) = f[m]
               /\ \A i \in 0 .. m : f[i] \in Nat
               /\ \A i \in 1 .. m : f[i] = f[i - 1] * Square + b[i]
  BY ValueIsSum
<1>3. PICK g : /\ g[0] = 0 /\ Value(c) = g[k]
               /\ \A i \in 0 .. k : g[i] \in Nat
               /\ \A i \in 1 .. k : g[i] = g[i - 1] * Square + c[i]
  BY ValueIsSum
<1>4. Padded(b, c) <=> (\A i \in 1 .. d : b[i] = 0) /\ \A i \in 1 .. k : b[d + i] = c[i]
  BY DEF Padded
<1>5. Square \in Nat \ {0}
  BY SerialsAssumption DEF Square
<1> HIDE DEF m, k, d
<1>6. ASSUME Padded(b, c) PROVE Value(b) = Value(c)
  <2> DEFINE low == {i \in 0 .. d : f[i] = 0}
  <2>1. 0 \in low
    BY <1>1, <1>2
  <2>2. ASSUME NEW i \in 1 .. d, i - 1 \in low PROVE i \in low
    <3>1. i \in 1 .. m /\ b[i] = 0 /\ f[i - 1] = 0 /\ i \in 0 .. d
      BY <1>1, <1>4, <1>6, <2>2
    <3>2. f[i] = 0 * Square + 0
      BY <1>2, <3>1
    <3> QED  BY <1>5, <3>1, <3>2
  <2> HIDE DEF low
  <2>3. \A i \in 0 .. d : i \in low
    BY <1>1, <2>1, <2>2, UpTo
  <2>4. f[d] = 0
    BY <1>1, <2>3 DEF low
  <2> DEFINE high == {i \in 0 .. k : f[d + i] = g[i]}
  <2>5. 0 \in high
    BY <1>1, <1>3, <2>4
  <2>6. ASSUME NEW i \in 1 .. k, i - 1 \in high PROVE i \in high
    <3> DEFINE j == d + i
    <3>1. /\ j \in 1 .. m /\ b[j] = c[i] /\ f[d + (i - 1)] = g[i - 1] /\ i \in 0 .. k
          /\ j - 1 = d + (i - 1)
      BY <1>1, <1>4, <1>6, <2>6
    <3>2. f[j] = g[i] => i \in high
      BY <3>1 DEF high
    <3> HIDE DEF j
    <3>3. f[j] = f[j - 1] * Square + b[j]
      BY <1>2, <3>1
    <3>4. g[i] = g[i - 1] * Square + c[i]
      BY <1>3
    <3> QED  BY <3>1, <3>2, <3>3, <3>4
  <2> HIDE DEF high
  <2>7. \A i \in 0 .. k : i \in high
    BY <1>1, <2>5, <2>6, UpTo
  <2>8. f[d + k] = g[k] /\ d + k = m
    <3>1. k \in 0 .. k /\ d + k = m
      BY <1>1
    <3>2. k \in high
      BY <2>7, <3>1
    <3> QED  BY <3>1, <3>2 DEF high
  <2> QED  BY <1>2, <1>3, <2>8
<1>7. ASSUME Value(b) = Value(c) PROVE Padded(b, c)
  <2> DEFINE same == {i \in 0 .. k : f[m - i] = g[k - i]}
  <2>1. 0 \in same
    <3>1. m - 0 = m /\ k - 0 = k /\ 0 \in 0 .. k
      BY <1>1
    <3> QED  BY <1>2, <1>3, <1>7, <3>1
  <2>2. ASSUME NEW i \in 1 .. k, i - 1 \in same
        PROVE  i \in same /\ b[d + (k - i + 1)] = c[k - i + 1]
    <3>1. /\ m - i + 1 \in 1 .. m /\ k - i + 1 \in 1 .. k /\ i \in 0 .. k
          /\ m - (i - 1) = m - i + 1 /\ k - (i - 1) = k - i + 1
          /\ m - i + 1 - 1 = m - i /\ k - i + 1 - 1 = k - i
          /\ m - i \in 0 .. m /\ k - i \in 0 .. k /\ d + (k - i + 1) = m - i + 1
      BY <1>1
    <3>2. f[m - i + 1] = g[k - i + 1]
      BY <2>2, <3>1
    <3>3. f[m - i] * Square + b[m - i + 1] = g[k - i] * Square + c[k - i + 1]
      <4>1. f[m - i + 1] = f[m - i + 1 - 1] * Square + b[m - i + 1]
        BY <1>2, <3>1
      <4>2. g[k - i + 1] = g[k - i + 1 - 1] * Square + c[k - i + 1]
        BY <1>3, <3>1
      <4>3. m - i + 1 - 1 = m - i /\ k - i + 1 - 1 = k - i
        BY <3>1
      <4> QED  BY <3>2, <4>1, <4>2, <4>3, Zenon
    <3>4. f[m - i] = g[k - i] /\ b[m - i + 1] = c[k - i + 1]
      <4>1. /\ f[m - i] \in Nat /\ g[k - i] \in Nat
            /\ b[m - i + 1] \in 0 .. Square - 1 /\ c[k - i + 1] \in 0 .. Square - 1
        BY <1>1, <1>2, <1>3, <3>1
      <4> DEFINE x == f[m - i]
                 y == g[k - i]
                 u == b[m - i + 1]
                 w == c[k - i + 1]
      <4>2. /\ x \in Nat /\ y \in Nat /\ u \in 0 .. Square - 1 /\ w \in 0 .. Square - 1
            /\ x * Square + u = y * Square + w
        BY <3>3, <4>1
      <4> HIDE DEF x, y, u, w
      <4>3. x = y /\ u = w
        BY <1>5, <4>2, Quotients
      <4> QED  BY <4>3 DEF x, y, u, w
    <3> QED  BY <3>1, <3>4
  <2> HIDE DEF same
  <2>3. \A i \in 0 .. k : i \in same
    BY <1>1, <2>1, <2>2, UpTo
  <2>4. ASSUME NEW i \in 1 .. k PROVE b[d + i] = c[i]
    <3> DEFINE j == k - i + 1
    <3>1. j \in 1 .. k /\ k - j + 1 = i /\ j - 1 \in 0 .. k
      BY <1>1
    <3> HIDE DEF j
    <3>2. b[d + (k - j + 1)] = c[k - j + 1]
      BY <2>2, <2>3, <3>1
    <3> QED  BY <3>1, <3>2
  <2>5. f[d] = 0
    <3>1. k \in same /\ m - k = d /\ k - k = 0
      BY <1>1, <2>3
    <3> QED  BY <1>3, <3>1 DEF same
  <2> DEFINE none == {i \in 0 .. d : f[d - i] = 0}
  <2>6. 0 \in none
    BY <1>1, <2>5
  <2>7. ASSUME NEW i \in 1 .. d, i - 1 \in none PROVE i \in none /\ b[d - i + 1] = 0
    <3>1. /\ d - i + 1 \in 1 .. m /\ d - (i - 1) = d - i + 1 /\ d - i + 1 - 1 = d - i
          /\ d - i \in 0 .. m /\ i \in 0 .. d
      BY <1>1
    <3>2. f[d - i + 1] = 0 /\ f[d - i + 1] = f[d - i] * Square + b[d - i + 1]
      BY <1>2, <2>7, <3>1
    <3>3. f[d - i] * Square + b[d - i + 1] = 0 * Square + 0
      BY <1>5, <3>2
    <3>4. f[d - i] = 0 /\ b[d - i + 1] = 0
      <4>1. /\ f[d - i] \in Nat /\ b[d - i + 1] \in 0 .. Square - 1 /\ 0 \in 0 .. Square - 1
            /\ 0 \in Nat
        BY <1>1, <1>2, <1>5, <3>1
      <4> QED  BY <1>5, <3>3, <4>1, Quotients
    <3> QED  BY <3>1, <3>4
  <2> HIDE DEF none
  <2>8. \A i \in 0 .. d : i \in none
    BY <1>1, <2>6, <2>7, UpTo
  <2>9. ASSUME NEW i \in 1 .. d PROVE b[i] = 0
    <3> DEFINE j == d - i + 1
    <3>1. j \in 1 .. d /\ d - j + 1 = i /\ j - 1 \in 0 .. d
      BY <1>1
    <3> HIDE DEF j
    <3>2. b[d - j + 1] = 0
      BY <2>7, <2>8, <3>1
    <3> QED  BY <3>1, <3>2
  <2> QED  BY <1>4, <2>4, <2>9
<1> QED  BY <1>6, <1>7

\* Two serials are the same without zeroes in front exactly when they are the same
\* number.
LEMMA CutByValue ==
    ASSUME NEW b \in Seq(Bytes), NEW c \in Seq(Bytes)
    PROVE  CutLeadingZeroes(b) = CutLeadingZeroes(c) <=> Value(b) = Value(c)
<1>1. Len(b) <= Len(c) \/ Len(c) <= Len(b)
  OBVIOUS
<1> QED  BY <1>1, CutOfPadded, ValueOfPadded

\* Of what was read: the set is what the good lines come to.
ListInv ==
  /\ \A l \in parsed : \E line \in Texts : l = <<line, ParseSerial(line)>>
  /\ sns = {CutLeadingZeroes(l[2]) : l \in {l \in parsed : l[2] # Bad}}

LEMMA ListInvariance == SerialSpec => []ListInv
<1>1. SerialInit => ListInv
  BY DEF SerialInit, ListInv
<1>2. ASSUME ListInv, ScanLine PROVE ListInv'
  <2>1. PICK line \in Texts :
          /\ parsed' = parsed \cup {<<line, ParseSerial(line)>>}
          /\ sns' = IF ParseSerial(line) = Bad THEN sns
                    ELSE sns \cup {CutLeadingZeroes(ParseSerial(line))}
    BY <1>2 DEF ScanLine
  <2>2. \A l \in parsed' : \E t \in Texts : l = <<t, ParseSerial(t)>>
    BY <1>2, <2>1 DEF ListInv
  <2>3. sns' = {CutLeadingZeroes(l[2]) : l \in {l \in parsed' : l[2] # Bad}}
    <3> DEFINE pair == <<line, ParseSerial(line)>>
               Good(S) == {l \in S : l[2] # Bad}
    <3>1. pair[2] = ParseSerial(line)
      OBVIOUS
    <3>2. /\ parsed' = parsed \cup {pair}
          /\ sns' = IF pair[2] = Bad THEN sns ELSE sns \cup {CutLeadingZeroes(pair[2])}
          /\ sns = {CutLeadingZeroes(l[2]) : l \in Good(parsed)}
      BY <1>2, <2>1, <3>1 DEF ListInv
    <3> HIDE DEF pair
    <3>3. Good(parsed') = IF pair[2] = Bad THEN Good(parsed) ELSE Good(parsed) \cup {pair}
      BY <3>2
    <3> HIDE DEF Good
    <3>4. sns' = {CutLeadingZeroes(l[2]) : l \in Good(parsed')}
      <4>1. CASE pair[2] = Bad
        BY <3>2, <3>3, <4>1, Zenon
      <4>2. CASE pair[2] # Bad
        <5>1. /\ sns' = sns \cup {CutLeadingZeroes(pair[2])}
              /\ Good(parsed') = Good(parsed) \cup {pair}
          BY <3>2, <3>3, <4>2
        <5> QED  BY <3>2, <5>1, Zenon
      <4> QED  BY <4>1, <4>2
    <3> QED  BY <3>4 DEF Good
  <2> QED  BY <2>2, <2>3 DEF ListInv
<1>3. ASSUME ListInv, UNCHANGED <<parsed, sns>> PROVE ListInv'
  BY <1>3 DEF ListInv
<1>4. ListInv /\ [SerialNext]_serialVars => ListInv'
  BY <1>2, <1>3 DEF SerialNext, StartFormat, FormatTurn, FormatEnd, serialVars
<1> QED  BY <1>1, <1>4, PTL DEF SerialSpec

LEMMA ListMeans == ASSUME ListInv PROVE ListedByValue
<1>1. ASSUME NEW l \in parsed, l[2] # Bad
      PROVE  /\ l[2] \in Seq(Bytes)
             /\ \A p \in DOMAIN l[1] : (l[1][p] = Colon <=> p % 3 = 0) /\ l[1][p] # Junk
  <2>1. PICK line \in Texts : l = <<line, ParseSerial(line)>>
    BY DEF ListInv
  <2>2. l[1] = line /\ l[2] = ParseSerial(line)
    BY <2>1
  <2> QED  BY <1>1, <2>2, GoodLines, TextsAreLines
<1>2. ASSUME NEW serial \in Magnitudes((MaxLine + 2) \div 3)
      PROVE  Has(serial) <=> \E l \in parsed : l[2] # Bad /\ Value(l[2]) = Value(serial)
  <2>1. serial \in Seq(Bytes)
    <3>1. (MaxLine + 2) \div 3 \in Nat
      BY SerialsAssumption
    <3> QED  BY <3>1, BytesOfMagnitude
  <2>2. Has(serial) <=> \E l \in parsed : /\ l[2] # Bad
                                         /\ CutLeadingZeroes(l[2]) = CutLeadingZeroes(serial)
    BY DEF Has, ListInv
  <2>3. ASSUME NEW l \in parsed, l[2] # Bad
        PROVE  CutLeadingZeroes(l[2]) = CutLeadingZeroes(serial) <=> Value(l[2]) = Value(serial)
    BY <1>1, <2>1, <2>3, CutByValue
  <2> QED  BY <2>2, <2>3, Zenon
<1>3. \A l \in parsed : l[2] # Bad =>
        \A p \in DOMAIN l[1] : (l[1][p] = Colon <=> p % 3 = 0) /\ l[1][p] # Junk
  BY <1>1, Zenon
<1>4. \A serial \in Magnitudes((MaxLine + 2) \div 3) :
        Has(serial) <=> \E l \in parsed : l[2] # Bad /\ Value(l[2]) = Value(serial)
  BY <1>2, Zenon
<1> QED  BY <1>3, <1>4, Zenon DEF ListedByValue

\* cert.go:178-259: for serials, lines and lists of any length: what is written for a
\* serial is its bytes and is read as that serial, and one is on the list exactly when
\* a good line has its value.
THEOREM SerialsAreTheSame == SerialSpec => []SerialsAgree
<1>1. WriteInv /\ ListInv => SerialsAgree
  BY ReadsBack, ListMeans DEF WriteInv, SerialsAgree
<1> QED  BY WriteInvariance, ListInvariance, <1>1, PTL
=============================================================================

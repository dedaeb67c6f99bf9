------------------------------ MODULE AuthChain ------------------------------
(***************************************************************************)
(* Who is let in: the authentication providers of pkg/dumbproxy/auth, one  *)
(* behind the other.  An HTTP request goes through Validate, which answers *)
(* the client itself when it does not let it in; a SOCKS client's login    *)
(* goes through Valid.  The two must agree, and a client must get one      *)
(* answer.                                                                 *)
(*                                                                         *)
(* Providers are numbered from the first one on.  Each sees the same       *)
(* request and knows one thing about its credentials; the decoding of      *)
(* headers, tokens and certificates is left out.                           *)
(***************************************************************************)
EXTENDS Naturals, Sequences

CONSTANT MaxChain       \* bound on the providers
\* There is a first provider.
ASSUME ChainAssumption == MaxChain \in Nat \ {0}

Positions == 1..MaxChain
Kinds == {"basic", "hmac", "redis", "cert", "none", "reject"}
Passwords == {"basic", "hmac", "redis"}
\* The status of a rejection: the default, or another that its "code" or the other server
\* says, such as that of a prompt.
RejectCodes == {403, 407}

VARIABLES
    kind,       \* of each provider; those behind the last one are "none"
    orElse,     \* who is asked next: "else" (0: nobody)
    next,       \* a certificate's "next" (0: nobody)
    hides,      \* hidden_domain is set
    tells,      \* what a provider finds: right, wrong, bad (a broken or expired token,
                \* an entry that is not there or cannot be read)
    sends,      \* the status a rejection is made with
    header,     \* the request has an Authorization that can be read
    onHidden,   \* the request is for the hidden domain: no, plain (its name and no more),
                \* loose (with a port, or in capitals)
    cert,       \* the client's certificate: none, listed (in the blacklist), good
    at,         \* the provider that is asked, 0: none
    answers,    \* status codes written
    admitted

chain == <<kind, orElse, next, hides, tells, sends>>
request == <<header, onHidden, cert>>
authVars == <<chain, request, at, answers, admitted>>

\* A chain is built from the end: who is asked next was there before.
AuthInit ==
    /\ kind \in [Positions -> Kinds]
    /\ orElse \in {f \in [Positions -> {0} \cup Positions] :
                     \A p \in Positions : /\ f[p] = 0 \/ f[p] > p
                                          /\ kind[p] \in {"none", "reject"} => f[p] = 0}
    /\ next \in {f \in [Positions -> {0} \cup Positions] :
                     \A p \in Positions : /\ f[p] = 0 \/ f[p] > p
                                          /\ kind[p] # "cert" => f[p] = 0}
    /\ hides \in [Positions -> BOOLEAN]
    /\ \A p \in Positions : kind[p] \notin Passwords => ~hides[p]
    /\ tells \in [Positions -> {"right", "wrong", "bad"}]
    /\ \A p \in Positions : kind[p] \notin Passwords => tells[p] = "wrong"
    /\ sends \in [Positions -> RejectCodes]
    /\ \A p \in Positions : kind[p] # "reject" => sends[p] = 403
    /\ header \in BOOLEAN /\ onHidden \in {"no", "plain", "loose"}
    /\ cert \in {"none", "listed", "good"}
    /\ at = 1 /\ answers = <<>> /\ admitted = FALSE

AnswerWith(code) == /\ answers' = Append(answers, code) /\ at' = 0
                    /\ UNCHANGED admitted

\* A slip: the provider's own setting is not looked at.
RequireBasicAuthOpenly(p) ==
    IF orElse[p] # 0
    THEN at' = orElse[p] /\ UNCHANGED <<answers, admitted>>
    ELSE AnswerWith(407)

\* A slip: the next provider is not asked.
RequireAlone(p) == AnswerWith(IF hides[p] /\ onHidden = "no" THEN 400 ELSE 407)

\* requireBasicAuth: the next provider, or 407, or 400 where the prompt is hidden.
RequireBasicAuth(p) ==
    IF orElse[p] # 0
    THEN at' = orElse[p] /\ UNCHANGED <<answers, admitted>>
    ELSE AnswerWith(IF hides[p] /\ onHidden = "no" THEN 400 ELSE 407)

Admit == admitted' = TRUE /\ at' = 0 /\ UNCHANGED answers

\* What Validate does with the credentials of a request: a right one on the hidden
\* domain gets a page that says so.  The name is compared as it is here, and without
\* its port and in small letters in requireBasicAuth.
Judge(p, right) ==
    IF header /\ right
    THEN IF hides[p] /\ onHidden = "plain" THEN AnswerWith(200) ELSE Admit
    ELSE RequireBasicAuth(p)

\* The password file matches.
BasicMatches(p) == tells[p] = "right"

\* The token can be decoded, has not expired and is signed.
VerifyHMAC(p) == tells[p] = "right"

\* The entry is there, its encoding is known, and the password matches.
RedisMatches(p) == tells[p] = "right"

ValidateBasic(p) == at = p /\ kind[p] = "basic" /\ Judge(p, BasicMatches(p))
ValidateHMAC(p) == at = p /\ kind[p] = "hmac" /\ Judge(p, VerifyHMAC(p))
ValidateRedis(p) == at = p /\ kind[p] = "redis" /\ Judge(p, RedisMatches(p))

ValidateCert(p) ==
    /\ at = p /\ kind[p] = "cert"
    /\ \/ /\ cert # "good"
          /\ IF orElse[p] # 0 THEN at' = orElse[p] /\ UNCHANGED <<answers, admitted>>
                              ELSE AnswerWith(400)
       \/ /\ cert = "good"
          /\ IF next[p] # 0 THEN at' = next[p] /\ UNCHANGED <<answers, admitted>>
                            ELSE Admit

ValidateNone(p) == at = p /\ kind[p] = "none" /\ Admit

\* A file with the status it is set to, or the response of another server.
ValidateReject(p) == at = p /\ kind[p] = "reject" /\ AnswerWith(sends[p])

AuthNext == /\ \E p \in Positions : \/ ValidateBasic(p) \/ ValidateHMAC(p)
                                    \/ ValidateRedis(p) \/ ValidateCert(p)
                                    \/ ValidateNone(p) \/ ValidateReject(p)
            /\ UNCHANGED <<chain, request>>

AuthSpec == AuthInit /\ [][AuthNext]_authVars

-----------------------------------------------------------------------------
(* Valid, which tryValid asks of the next provider.  Providers without it, *)
(* the certificate's and "none", let nobody in.                            *)

Valid[p \in {0} \cup Positions] ==
    /\ p # 0
    /\ kind[p] \in Passwords
    /\ \/ kind[p] = "basic" /\ BasicMatches(p)
       \/ kind[p] = "hmac" /\ VerifyHMAC(p)
       \/ kind[p] = "redis" /\ RedisMatches(p)
       \/ Valid[orElse[p]]

-----------------------------------------------------------------------------

\* auth.go:13-16: Validate either lets the request in and writes nothing, or writes
\* one answer.
OneAnswer == at = 0 => (IF admitted THEN answers = <<>> ELSE Len(answers) = 1)

\* The two ways in agree: behind passwords and rejections, whom Valid lets in with a
\* login, Validate lets in with the same in a header, and the other way round.
WaysAgree ==
    (at = 0 /\ header /\ onHidden # "plain" /\ \A p \in Positions : kind[p] \in Passwords \cup {"reject"})
        => (admitted <=> Valid[1])

\* README.md:258: where every provider of passwords hides its prompt, and no rejection is
\* set to look like one, no client is asked for a password elsewhere than on the hidden
\* domain, however the chain is built.
PromptHidden ==
    /\ onHidden = "no"
    /\ \A p \in Positions : kind[p] \in Passwords => hides[p]
    /\ \A p \in Positions : kind[p] = "reject" => sends[p] # 407
    => \A i \in DOMAIN answers : answers[i] # 407

\* What a client hears: one answer, and no prompt where it is to be hidden.
RightAnswer == OneAnswer /\ PromptHidden
=============================================================================

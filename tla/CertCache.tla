------------------------------ MODULE CertCache ------------------------------
(***************************************************************************)
(* LocalCertCache (local.go in pkg/dumbproxy/certcache) before a slower    *)
(* store of certificates.  Get reads through, one read for all that want   *)
(* the key; Put and Delete change the cache first and the store after it.  *)
(* What a Get has read may reach the cache after a Put or a Delete, and a  *)
(* Put may fail in the store: the cache is wrong then, until the entry's   *)
(* time is up.  That time begins when the store's answer has arrived.      *)
(*                                                                         *)
(* The certificates of one key are numbered; 0 is a miss.                  *)
(***************************************************************************)
EXTENDS Naturals

CONSTANTS
    Getters,
    MaxCert,    \* bound on the certificates that are put
    TTL,        \* in ticks
    MaxRead     \* bound on the ticks an answer of the store is on its way

ASSUME CertAssumption == MaxCert \in Nat /\ TTL \in Nat /\ MaxRead \in Nat

VARIABLES
    store,      \* the certificate the store has
    certs,      \* certificates made so far
    copy,       \* the cache's entry: a certificate, an error or NoCopy
    rest,       \* ticks until it expires
    getting,    \* of a Get: idle, missed, sharing, reading, read, got
    gone,       \* of a Get: its context has ended
    found,      \* what the shared read found, or a Get got: a certificate or an error
    writer,     \* Put or Delete: idle, put, delete
    onWay,      \* ticks since the store answered a Get's read
    since0      \* history: ticks since a certificate was in the store, or being put

certVars == <<store, certs, copy, rest, getting, gone, found, writer, onWay, since0>>

NoCopy == MaxCert + 1
Cancelled == MaxCert + 2
Failed == MaxCert + 3
Certs == 0..MaxCert
MaxSince == TTL + MaxRead + 1   \* beyond it, all is equally long ago

CertInit == /\ store = 0 /\ certs = 0 /\ copy = NoCopy /\ rest = 0
            /\ getting = [g \in Getters |-> "idle"]
            /\ gone = [g \in Getters |-> FALSE]
            /\ found = [g \in Getters |-> NoCopy]
            /\ writer = "idle"
            /\ onWay = [g \in Getters |-> 0]
            /\ since0 = [c \in Certs |-> IF c = 0 THEN 0 ELSE MaxSince]

\* A slip: the entry's age is not looked at.
GetCachedAny(g) ==
    /\ getting[g] = "idle"
    /\ IF copy # NoCopy
       THEN /\ getting' = [getting EXCEPT ![g] = "got"]
            /\ found' = [found EXCEPT ![g] = copy] /\ UNCHANGED copy
       ELSE getting' = [getting EXCEPT ![g] = "missed"] /\ UNCHANGED <<copy, found>>
    /\ UNCHANGED <<store, certs, rest, gone, writer, onWay, since0>>

\* GetValidOrDelete.  The entry may be an error.
GetCached(g) ==
    /\ getting[g] = "idle"
    /\ IF copy # NoCopy /\ rest > 0
       THEN /\ getting' = [getting EXCEPT ![g] = "got"]
            /\ found' = [found EXCEPT ![g] = copy] /\ UNCHANGED copy
       ELSE /\ getting' = [getting EXCEPT ![g] = "missed"]
            /\ copy' = NoCopy /\ UNCHANGED found
    /\ UNCHANGED <<store, certs, rest, gone, writer, onWay, since0>>

\* singleflight: the first one reads, with its own context.
ShareRead(g) ==
    /\ getting[g] = "missed"
    /\ getting' = [getting EXCEPT ![g] =
                     IF \E h \in Getters : getting[h] \in {"reading", "read"}
                     THEN "sharing" ELSE "reading"]
    /\ UNCHANGED <<store, certs, copy, rest, gone, found, writer, onWay, since0>>

ReadStore(g) ==
    /\ getting[g] = "reading"
    /\ \E result \in {store, Failed} \cup (IF gone[g] THEN {Cancelled} ELSE {}) :
         found' = [found EXCEPT ![g] = result]
    /\ getting' = [getting EXCEPT ![g] = "read"]
    /\ UNCHANGED <<store, certs, copy, rest, gone, writer, onWay, since0>>

\* What is found goes to all that share the read.
Hand(g) ==
    LET sharers == {h \in Getters : h = g \/ getting[h] = "sharing"} IN
    /\ getting' = [h \in Getters |-> IF h \in sharers THEN "got" ELSE getting[h]]
    /\ found' = [h \in Getters |-> IF h \in sharers THEN found[g] ELSE found[h]]

\* The answer is there.  The item is stamped now, and cached unless the context of the
\* reader has ended.
Fill(g) ==
    /\ getting[g] = "read"
    /\ IF gone[g] THEN UNCHANGED <<copy, rest>> ELSE copy' = found[g] /\ rest' = TTL
    /\ Hand(g)
    /\ onWay' = [onWay EXCEPT ![g] = 0]
    /\ UNCHANGED <<store, certs, gone, writer, since0>>

ReturnCert(g) ==
    /\ getting[g] = "got"
    /\ getting' = [getting EXCEPT ![g] = "idle"]
    /\ gone' = [gone EXCEPT ![g] = FALSE]
    /\ found' = [found EXCEPT ![g] = NoCopy]
    /\ UNCHANGED <<store, certs, copy, rest, writer, onWay, since0>>

EndGet(g) ==
    /\ getting[g] \in {"missed", "sharing", "reading", "read"} /\ ~gone[g]
    /\ gone' = [gone EXCEPT ![g] = TRUE]
    /\ UNCHANGED <<store, certs, copy, rest, getting, found, writer, onWay, since0>>

\* Put and Delete: the cache first.
PutCached ==
    /\ writer = "idle" /\ certs < MaxCert
    /\ certs' = certs + 1
    /\ copy' = certs + 1 /\ rest' = TTL
    /\ since0' = [since0 EXCEPT ![certs + 1] = 0]
    /\ writer' = "put"
    /\ UNCHANGED <<store, getting, gone, found, onWay>>

DeleteCached ==
    /\ writer = "idle" /\ store # 0
    /\ copy' = NoCopy
    /\ writer' = "delete"
    /\ UNCHANGED <<store, certs, rest, getting, gone, found, onWay, since0>>

\* Then the store, which may fail.
WriteStore ==
    /\ writer # "idle"
    /\ \/ store' = IF writer = "put" THEN certs ELSE 0
       \/ UNCHANGED store
    /\ since0' = [since0 EXCEPT ![store'] = 0]
    /\ writer' = "idle"
    /\ UNCHANGED <<certs, copy, rest, getting, gone, found, onWay>>

\* (What is got is looked at as it is returned.)
CertTick ==
    /\ \A g \in Getters : /\ getting[g] # "got"
                          /\ getting[g] = "read" => onWay[g] < MaxRead
    /\ onWay' = [g \in Getters |-> IF getting[g] = "read" THEN onWay[g] + 1 ELSE onWay[g]]
    /\ rest' = IF rest > 0 THEN rest - 1 ELSE 0
    /\ since0' = [c \in Certs |->
                    IF c = store \/ (writer = "put" /\ c = certs) THEN 0
                    ELSE IF since0[c] < MaxSince THEN since0[c] + 1 ELSE MaxSince]
    /\ UNCHANGED <<store, certs, copy, getting, gone, found, writer>>

CertNext == \/ \E g \in Getters : \/ GetCached(g) \/ ShareRead(g) \/ ReadStore(g) \/ Fill(g)
                                  \/ ReturnCert(g) \/ EndGet(g)
            \/ PutCached \/ DeleteCached \/ WriteStore \/ CertTick

CertSpec == CertInit /\ [][CertNext]_certVars

-----------------------------------------------------------------------------

\* local.go:35-67: what Get returns was in the store, or about to be, at most the TTL
\* ago and the time an answer of the store takes to arrive, however reads, Put and Delete
\* overlap and fail.  (The TTL alone is not what the code gives: local.go:41 stamps the
\* item when next.Get has returned, and a Delete may have come since the store answered.)
BoundedStaleness ==
    \A g \in Getters : (getting[g] = "got" /\ found[g] \in Certs)
                         => since0[found[g]] <= TTL + MaxRead

\* local.go:46-48: the end of one caller's context is not remembered for the others.
\* (Those who share its read get the error all the same.)
CancelNotCached == copy # Cancelled

\* The cache misleads nobody for longer than an answer takes and its entry lasts, and
\* not for another's sake.
CacheSound == BoundedStaleness /\ CancelNotCached
=============================================================================

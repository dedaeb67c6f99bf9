---------------------------- MODULE SelectionProofs ---------------------------
(***************************************************************************)
(* What Selected returns, for every sequence: elements of it, those at the *)
(* positions to keep and no others. Its recursion runs over the numbers up *)
(* to a length, and is followed by taking the least number at which a      *)
(* claim fails: the order of Nat is well-founded.                          *)
(***************************************************************************)
EXTENDS Selection, WellFoundedInduction, SequenceTheorems, TLAPS

Smaller == {p \in Nat \X Nat : p[1] < p[2]}

LEMMA LeastOf == ASSUME NEW T \in SUBSET Nat, T # {} PROVE \E m \in T : \A k \in T : m <= k
<1>1. IsWellFoundedOn(Smaller, Nat)
  BY NatLessThanWellFounded DEF OpToRel, Smaller
<1>2. PICK m \in T : \A k \in T : <<k, m>> \notin Smaller
  BY <1>1, WFMin
<1>3. \A k \in T : ~(k < m)
  BY <1>2 DEF Smaller
<1> QED  BY <1>3

\* Induction as the library cannot be asked for it: over a set.
LEMMA UpTo ==
    ASSUME NEW n \in Nat, NEW good, 0 \in good,
           \A k \in 1..n : k - 1 \in good => k \in good
    PROVE  \A k \in 0..n : k \in good
<1> DEFINE bad == {k \in 0..n : k \notin good}
<1>1. SUFFICES ASSUME bad # {} PROVE FALSE
  OBVIOUS
<1>2. PICK m \in bad : \A k \in bad : m <= k
  <2>1. bad \in SUBSET Nat
    OBVIOUS
  <2> HIDE DEF bad
  <2> QED  BY <1>1, <2>1, LeastOf
<1>3. m \in 1..n /\ m - 1 \notin bad
  BY <1>2
<1>4. m - 1 \in good /\ m \notin good
  BY <1>2, <1>3
<1> QED  BY <1>3, <1>4

\* The table of partial selections.
Parts(s, keep, f, n) ==
    f = [i \in 0..n |-> IF i = 0 THEN <<>>
                        ELSE IF i \in keep THEN Append(f[i - 1], s[i])
                        ELSE f[i - 1]]

LEMMA PartsExist ==
    ASSUME NEW s, NEW keep, NEW n \in Nat
    PROVE  \E f : Parts(s, keep, f, n)
<1> DEFINE good == {k \in 0..n : \E f : Parts(s, keep, f, k)}
<1>1. 0 \in good
  <2>1. Parts(s, keep, [i \in 0..0 |-> <<>>], 0)
    BY DEF Parts
  <2> QED  BY <2>1
<1>2. ASSUME NEW k \in 1..n, k - 1 \in good PROVE k \in good
  <2>1. PICK f : Parts(s, keep, f, k - 1)
    BY <1>2
  <2> DEFINE g == [i \in 0..k |-> IF i < k THEN f[i]
                                  ELSE IF k \in keep THEN Append(f[k - 1], s[k])
                                  ELSE f[k - 1]]
  <2>2. \A i \in 0..(k - 1) : g[i] = f[i]
    OBVIOUS
  <2>3. g[k] = IF k \in keep THEN Append(g[k - 1], s[k]) ELSE g[k - 1]
    BY <2>2
  <2>4. \A i \in 0..(k - 1) : g[i] = IF i = 0 THEN <<>>
                                     ELSE IF i \in keep THEN Append(g[i - 1], s[i])
                                     ELSE g[i - 1]
    <3>1. \A i \in 0..(k - 1) : f[i] = IF i = 0 THEN <<>>
                                     ELSE IF i \in keep THEN Append(f[i - 1], s[i])
                                     ELSE f[i - 1]
      BY <2>1 DEF Parts
    <3> QED  BY <2>2, <3>1
  <2>5. Parts(s, keep, g, k)
    <3> HIDE DEF g
    <3>1. g = [i \in 0..k |-> g[i]]
      BY DEF g
    <3> QED  BY <2>3, <2>4, <3>1 DEF Parts
  <2> QED  BY <2>5
<1> HIDE DEF good
<1>3. n \in good
  BY <1>1, <1>2, UpTo
<1> QED  BY <1>3 DEF good

LEMMA SelectedParts ==
    ASSUME NEW S, NEW s \in Seq(S), NEW keep
    PROVE  \E f : Parts(s, keep, f, Len(s)) /\ Selected(s, keep) = f[Len(s)]
<1> DEFINE f == CHOOSE f : Parts(s, keep, f, Len(s))
<1>1. Parts(s, keep, f, Len(s))
  <2>1. Len(s) \in Nat
    OBVIOUS
  <2> QED  BY <2>1, PartsExist
<1>2. Selected(s, keep) = f[Len(s)]
  BY DEF Selected, Parts
<1> QED  BY <1>1, <1>2

\* What is selected: elements at the positions, and all of them.
LEMMA SelectedElements ==
    ASSUME NEW S, NEW s \in Seq(S), NEW keep
    PROVE  /\ Selected(s, keep) \in Seq(S)
           /\ \A i \in 1..Len(Selected(s, keep)) :
                 \E j \in 1..Len(s) : j \in keep /\ Selected(s, keep)[i] = s[j]
           /\ \A j \in 1..Len(s) : j \in keep =>
                 \E i \in 1..Len(Selected(s, keep)) : Selected(s, keep)[i] = s[j]
<1>1. PICK f : Parts(s, keep, f, Len(s)) /\ Selected(s, keep) = f[Len(s)]
  BY SelectedParts
<1>2. Len(s) \in Nat /\ \A i \in 1..Len(s) : s[i] \in S
  OBVIOUS
<1>3. \A i \in 0..Len(s) : f[i] = IF i = 0 THEN <<>>
                                  ELSE IF i \in keep THEN Append(f[i - 1], s[i])
                                  ELSE f[i - 1]
  BY <1>1, Zenon DEF Parts
<1>4. /\ f[0] = <<>>
      /\ \A i \in 1..Len(s) : f[i] = IF i \in keep THEN Append(f[i - 1], s[i]) ELSE f[i - 1]
  <2>1. 0 \in 0..Len(s) /\ \A i \in 1..Len(s) : i \in 0..Len(s) /\ i # 0
    BY <1>2
  <2> QED  BY <1>3, <2>1
<1> DEFINE Fits(k) == /\ f[k] \in Seq(S)
                      /\ \A i \in 1..Len(f[k]) : \E j \in 1..k : j \in keep /\ f[k][i] = s[j]
                      /\ \A j \in 1..k : j \in keep => \E i \in 1..Len(f[k]) : f[k][i] = s[j]
           good == {k \in 0..Len(s) : Fits(k)}
<1>5. 0 \in good
  <2>1. Fits(0)
    BY <1>4
  <2> QED  BY <1>2, <2>1
<1>6. ASSUME NEW k \in 1..Len(s), k - 1 \in good PROVE k \in good
  <2>1. Fits(k - 1) /\ k \in Nat /\ k - 1 \in Nat
    BY <1>2, <1>6
  <2>2. CASE k \notin keep
    <3>1. f[k] = f[k - 1]
      BY <1>4, <2>2
    <3>2. \A j \in 1..k : j \in keep => j \in 1..(k - 1)
      BY <2>1, <2>2
    <3>3. \A j \in 1..(k - 1) : j \in 1..k
      BY <2>1
    <3>4. Fits(k)
      BY <2>1, <3>1, <3>2, <3>3
    <3> QED  BY <3>4
  <2>3. CASE k \in keep
    <3>1. f[k] = Append(f[k - 1], s[k]) /\ s[k] \in S
      BY <1>2, <1>4, <2>3
    <3>2. /\ f[k] \in Seq(S) /\ Len(f[k]) = Len(f[k - 1]) + 1 /\ Len(f[k - 1]) \in Nat
          /\ f[k][Len(f[k - 1]) + 1] = s[k]
          /\ \A i \in 1..Len(f[k - 1]) : f[k][i] = f[k - 1][i]
      BY <2>1, <3>1, AppendProperties
    <3>3. \A i \in 1..Len(f[k]) : \E j \in 1..k : j \in keep /\ f[k][i] = s[j]
      <4>1. TAKE i \in 1..Len(f[k])
      <4>2. CASE i = Len(f[k])
        <5>1. k \in 1..k /\ f[k][i] = s[k]
          BY <2>1, <3>2, <4>2
        <5> QED  BY <2>3, <5>1
      <4>3. CASE i # Len(f[k])
        <5>1. i \in 1..Len(f[k - 1])
          BY <3>2, <4>3
        <5>2. PICK j \in 1..(k - 1) : j \in keep /\ f[k - 1][i] = s[j]
          BY <2>1, <5>1
        <5> QED  BY <2>1, <3>2, <5>1, <5>2
      <4> QED  BY <4>2, <4>3
    <3>4. \A j \in 1..k : j \in keep => \E i \in 1..Len(f[k]) : f[k][i] = s[j]
      <4>1. SUFFICES ASSUME NEW j \in 1..k, j \in keep
                     PROVE  \E i \in 1..Len(f[k]) : f[k][i] = s[j]
        OBVIOUS
      <4>2. CASE j = k
        BY <3>2, <4>2
      <4>3. CASE j # k
        <5>1. j \in 1..(k - 1)
          BY <2>1, <4>3
        <5>2. PICK i \in 1..Len(f[k - 1]) : f[k - 1][i] = s[j]
          BY <2>1, <4>1, <5>1
        <5> QED  BY <3>2, <5>2
      <4> QED  BY <4>2, <4>3
    <3> QED  BY <3>2, <3>3, <3>4
  <2> QED  BY <2>2, <2>3
<1>7. Len(s) \in good
  <2> HIDE DEF good
  <2>1. \A k \in 0..Len(s) : k \in good
    BY <1>2, <1>5, <1>6, UpTo
  <2> QED  BY <1>2, <2>1
<1> QED  BY <1>1, <1>2, <1>7
===============================================================================

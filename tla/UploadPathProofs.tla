---------------------------- MODULE UploadPathProofs ----------------------------
(***************************************************************************)
(* TLAPS proofs about UploadPath, for any pieces and blocks, any length of *)
(* the queue and of a chunk, any number of messages and troubles.          *)
(*                                                                         *)
(* UploadShape types the two tasks and ties them together; PendingInv      *)
(* follows the shared count through the writer's turns; CancelInv adds     *)
(* that no block is queued twice; HeardInv runs the remote over all that   *)
(* is queued for it (After).  The refinement of RequestLedger counts for   *)
(* each block the places that owe an answer (Due).                         *)
(***************************************************************************)
EXTENDS UploadPath, TLAPS, WellFoundedInduction, SequenceTheorems, FiniteSetTheorems

\* A set of naturals has a least element.
LEMMA Least ==
  ASSUME NEW T \in SUBSET Nat, T # {}
  PROVE  \E x \in T : \A y \in T : x <= y
<1> DEFINE R == OpToRel(<, Nat)
<1>1. IsWellFoundedOn(R, Nat) BY NatLessThanWellFounded
<1>2. \E x \in T : \A y \in T : ~ (<<y, x>> \in R)
  <2> HIDE DEF R
  <2> QED BY <1>1, WFMin
<1>3. \A p \in Nat, q \in Nat : p < q => <<p, q>> \in R BY DEF OpToRel
<1> HIDE DEF R
<1>4. PICK x \in T : \A y \in T : ~ (<<y, x>> \in R) BY <1>2
<1>5. \A y \in T : ~(y < x) BY <1>3, <1>4
<1> QED BY <1>5

\* What RemoveFirst takes out, and where the rest goes.
LEMMA RemoveFirstIs ==
  ASSUME NEW S, NEW s \in Seq(S), NEW e
  PROVE  \/ RemoveFirst(s, e) = s /\ \A k \in DOMAIN s : s[k] # e
         \/ \E i \in DOMAIN s : /\ s[i] = e
                /\ RemoveFirst(s, e) \in Seq(S)
                /\ Len(RemoveFirst(s, e)) = Len(s) - 1
                /\ \A k \in 1..(Len(s) - 1) : RemoveFirst(s, e)[k] = IF k < i THEN s[k] ELSE s[k+1]
<1> DEFINE I == {i \in 1..Len(s) : s[i] = e}
           m == Min(I)
           r == SubSeq(s, 1, m - 1) \o SubSeq(s, m + 1, Len(s))
<1>0. RemoveFirst(s, e) = IF \E i \in 1..Len(s) : s[i] = e THEN
                             SubSeq(s, 1, (IF I # {} THEN m ELSE 0) - 1) \o SubSeq(s, (IF I # {} THEN m ELSE 0) + 1, Len(s)) ELSE s
  BY DEF RemoveFirst, SelectInSeq, RemoveAt
<1> HIDE DEF m
<1>1. CASE \A k \in DOMAIN s : s[k] # e
  BY <1>0, <1>1
<1>2. CASE \E k \in DOMAIN s : s[k] = e
  <2>1. I \in SUBSET Nat /\ I # {} BY <1>2
  <2>2. \E x \in I : \A y \in I : x <= y BY <2>1, Least
  <2>4. m \in I BY <2>2 DEF Min, m
  <2>5. RemoveFirst(s, e) = r
    <3>1. \E i \in 1..Len(s) : s[i] = e BY <1>2
    <3> HIDE DEF I
    <3> QED BY <1>0, <2>1, <3>1
  <2>6. m \in 1..Len(s) /\ s[m] = e BY <2>4
  <2> DEFINE l == SubSeq(s, 1, m - 1)
             t == SubSeq(s, m + 1, Len(s))
  <2>a. l \in Seq(S) /\ Len(l) = m - 1 /\ \A k \in 1..(m - 1) : l[k] = s[k]
    BY <2>6, SubSeqProperties
  <2>b. t \in Seq(S) /\ Len(t) = Len(s) - m /\ \A k \in 1..(Len(s) - m) : t[k] = s[m + k]
    <3>1. \A k \in (m + 1)..Len(s) : s[k] \in S BY <2>6
    <3>2. m + 1 \in Int /\ Len(s) \in Int BY <2>6
    <3>3. /\ t \in Seq(S)
          /\ Len(t) = IF m + 1 <= Len(s) THEN Len(s) - (m + 1) + 1 ELSE 0
          /\ \A k \in 1..(Len(s) - (m + 1) + 1) : t[k] = s[m + 1 + k - 1]
      BY <3>1, <3>2, SubSeqProperties
    <3> QED BY <3>3, <2>6
  <2> HIDE DEF l, t
  <2>7. /\ r \in Seq(S) /\ Len(r) = Len(s) - 1
        /\ \A k \in 1..(Len(s) - 1) : r[k] = IF k < m THEN s[k] ELSE s[k+1]
    <3>1. r = l \o t BY DEF l, t
    <3> HIDE DEF r
    <3>2. /\ l \o t \in Seq(S) /\ Len(l \o t) = Len(l) + Len(t)
          /\ \A k \in 1..(Len(l) + Len(t)) : (l \o t)[k] = IF k <= Len(l) THEN l[k] ELSE t[k - Len(l)]
      BY <2>a, <2>b, ConcatProperties
    <3>3. Len(s) \in Nat /\ m \in 1..Len(s) BY <2>6
    <3>4. Len(l) + Len(t) = Len(s) - 1 BY <2>a, <2>b, <3>3
    <3>5. ASSUME NEW k \in 1..(Len(s) - 1)
          PROVE  r[k] = IF k < m THEN s[k] ELSE s[k+1]
      <4>1. CASE k < m BY <4>1, <3>1, <3>2, <3>3, <3>4, <2>a
      <4>2. CASE ~(k < m)
        <5>1. k - Len(l) \in 1..(Len(s) - m) /\ ~(k <= Len(l)) BY <4>2, <2>a, <3>3
        <5>2. r[k] = t[k - Len(l)] BY <5>1, <3>1, <3>2, <3>4
        <5>3. m + (k - Len(l)) = k + 1 BY <2>a, <3>3
        <5> QED BY <4>2, <5>1, <5>2, <5>3, <2>b
      <4> QED BY <4>1, <4>2
    <3> QED BY <3>1, <3>2, <3>4, <3>5
  <2> HIDE DEF I, r
  <2>8. m \in DOMAIN s BY <2>6
  <2> QED BY <2>5, <2>6, <2>7, <2>8
<1> QED BY <1>1, <1>2
\* A sequence known by its last element and the rest, and by its first.
LEMMA SnocIs ==
  ASSUME NEW S, NEW s \in Seq(S), NEW t \in Seq(S), NEW e \in S,
         Len(s) = Len(t) + 1, s[Len(s)] = e, \A k \in 1..Len(t) : s[k] = t[k]
  PROVE  s = t \o <<e>>
<1> DEFINE a == Append(t, e)
<1>1. /\ a \in Seq(S) /\ Len(a) = Len(t) + 1 /\ a[Len(t) + 1] = e
      /\ \A k \in 1..Len(t) : a[k] = t[k]
  BY AppendProperties
<1>2. a = t \o <<e>> BY AppendIsConcat
<1>3. Len(t) \in Nat OBVIOUS
<1> HIDE DEF a
<1>4. \A k \in 1..Len(s) : k \in 1..Len(t) \/ k = Len(t) + 1 BY <1>3
<1>5. \A k \in 1..Len(s) : s[k] = a[k] BY <1>1, <1>4
<1>6. s = a BY <1>1, <1>5, SeqEqual
<1> QED BY <1>2, <1>6

\* A sequence is its head and the rest.
LEMMA ConsIs ==
  ASSUME NEW S, NEW s \in Seq(S), NEW t \in Seq(S), NEW e \in S,
         Len(s) = Len(t) + 1, s[1] = e, \A k \in 1..Len(t) : s[k + 1] = t[k]
  PROVE  s = <<e>> \o t
<1> DEFINE w == <<e>>
           a == w \o t
<1>1. w \in Seq(S) /\ Len(w) = 1 /\ w[1] = e OBVIOUS
<1>3. Len(t) \in Nat OBVIOUS
<1> HIDE DEF w
<1>2. /\ a \in Seq(S) /\ Len(a) = Len(w) + Len(t)
      /\ \A k \in 1..(Len(w) + Len(t)) : a[k] = IF k <= Len(w) THEN w[k] ELSE t[k - Len(w)]
  BY <1>1, ConcatProperties
<1> HIDE DEF a
<1>4. a \in Seq(S) /\ Len(a) = 1 + Len(t) BY <1>1, <1>2
<1>5. a[1] = e
  <2>1. 1 \in 1..(Len(w) + Len(t)) /\ 1 <= Len(w) BY <1>1, <1>3
  <2> QED BY <2>1, <1>1, <1>2
<1>6. ASSUME NEW k \in 1..Len(t) PROVE a[k + 1] = t[k]
  <2>1. k + 1 \in 1..(Len(w) + Len(t)) /\ ~(k + 1 <= Len(w)) /\ (k + 1) - Len(w) = k BY <1>1, <1>3
  <2> QED BY <2>1, <1>2
<1>7. \A k \in 1..Len(s) : k = 1 \/ \E j \in 1..Len(t) : k = j + 1
  <2> SUFFICES ASSUME NEW k \in 1..Len(s), k # 1 PROVE \E j \in 1..Len(t) : k = j + 1 OBVIOUS
  <2>1. k - 1 \in 1..Len(t) /\ k = (k - 1) + 1 BY <1>3
  <2> QED BY <2>1
<1>8. \A k \in 1..Len(s) : s[k] = a[k] BY <1>5, <1>6, <1>7
<1>9. s = a BY <1>3, <1>4, <1>8, SeqEqual
<1> QED BY <1>9 DEF a, w
\* How often x stands in a sequence: removing one place removes one x or none.
LEMMA TimesNat ==
  ASSUME NEW S, NEW s \in Seq(S), NEW x
  PROVE  /\ IsFiniteSet({k \in DOMAIN s : s[k] = x})
         /\ Times(s, x) \in Nat
         /\ (\A k \in DOMAIN s : s[k] # x) => Times(s, x) = 0
<1>1. DOMAIN s = 1..Len(s) /\ Len(s) \in Nat BY LenProperties
<1>2. IsFiniteSet(1..Len(s)) BY <1>1, FS_Interval
<1>3. {k \in DOMAIN s : s[k] = x} \in SUBSET (1..Len(s)) BY <1>1
<1>4. IsFiniteSet({k \in DOMAIN s : s[k] = x}) BY <1>2, <1>3, FS_Subset
<1>5. Cardinality({k \in DOMAIN s : s[k] = x}) \in Nat BY <1>4, FS_CardinalityType
<1>6. ASSUME \A k \in DOMAIN s : s[k] # x PROVE Times(s, x) = 0
  <2>1. {k \in DOMAIN s : s[k] = x} = {} BY <1>6
  <2> QED BY <2>1, FS_EmptySet DEF Times
<1> QED BY <1>4, <1>5, <1>6 DEF Times

\* An element taken out of any place counts once less.
LEMMA TimesWithout ==
  ASSUME NEW S, NEW s \in Seq(S), NEW u \in Seq(S), NEW i \in 1..Len(s), NEW x,
         Len(u) = Len(s) - 1,
         \A k \in 1..(Len(s) - 1) : u[k] = IF k < i THEN s[k] ELSE s[k + 1]
  PROVE  Times(s, x) = Times(u, x) + (IF s[i] = x THEN 1 ELSE 0)
<1> DEFINE A == {k \in DOMAIN u : u[k] = x}
           B == {k \in DOMAIN s : s[k] = x}
           f == [k \in A |-> IF k < i THEN k ELSE k + 1]
<1>0. /\ DOMAIN s = 1..Len(s) /\ Len(s) \in Nat /\ DOMAIN u = 1..(Len(s) - 1)
  BY LenProperties
<1>1. f \in Bijection(A, B \ {i})
  <2>1. \A k \in A : k \in 1..(Len(s) - 1) /\ u[k] = x BY <1>0
  <2>2. \A k \in A : f[k] \in B \ {i} BY <2>1, <1>0
  <2>3. \A k, l \in A : f[k] = f[l] => k = l BY <2>1, <1>0
  <2>4. ASSUME NEW l \in B \ {i} PROVE \E k \in A : f[k] = l
    <3>1. CASE l < i
      <4>1. l \in A BY <3>1, <1>0
      <4> QED BY <3>1, <4>1
    <3>2. CASE ~(l < i)
      <4>1. l - 1 \in 1..(Len(s) - 1) /\ ~(l - 1 < i) /\ (l - 1) + 1 = l BY <3>2, <1>0
      <4>2. l - 1 \in A BY <4>1, <1>0
      <4> QED BY <4>1, <4>2
    <3> QED BY <3>1, <3>2
  <2> HIDE DEF A, B
  <2>5. f \in Injection(A, B \ {i}) BY <2>2, <2>3 DEF Injection, IsInjective
  <2>6. f \in Surjection(A, B \ {i}) BY <2>2, <2>4 DEF Surjection
  <2> QED BY <2>5, <2>6 DEF Bijection
<1>2. IsFiniteSet(A) /\ IsFiniteSet(B) BY TimesNat
<1>3. Cardinality(B \ {i}) = Cardinality(A)
  <2> HIDE DEF A, B, f
  <2> QED BY <1>1, <1>2, FS_Bijection DEF ExistsBijection
<1>4. i \in B <=> s[i] = x BY <1>0
<1>5. Cardinality(B \ {i}) = IF i \in B THEN Cardinality(B) - 1 ELSE Cardinality(B)
  BY <1>2, FS_RemoveElement
<1>6. Cardinality(A) \in Nat /\ Cardinality(B) \in Nat BY <1>2, FS_CardinalityType
<1>7. Times(s, x) = Cardinality(B) /\ Times(u, x) = Cardinality(A) BY DEF Times
<1> HIDE DEF A, B
<1> QED BY <1>3, <1>4, <1>5, <1>6, <1>7

\* An element put at the end counts once more.
LEMMA TimesAppend ==
  ASSUME NEW S, NEW s \in Seq(S), NEW e \in S, NEW x
  PROVE  Times(Append(s, e), x) = Times(s, x) + (IF e = x THEN 1 ELSE 0)
<1> DEFINE t == Append(s, e)
<1>1. /\ t \in Seq(S) /\ Len(t) = Len(s) + 1 /\ t[Len(t)] = e /\ Len(s) \in Nat
      /\ \A k \in 1..Len(s) : t[k] = s[k]
  OBVIOUS
<1> HIDE DEF t
<1>2. Len(t) \in 1..Len(t) /\ Len(s) = Len(t) - 1 BY <1>1
<1>3. \A k \in 1..(Len(t) - 1) : s[k] = IF k < Len(t) THEN t[k] ELSE t[k + 1] BY <1>1
<1>4. Times(t, x) = Times(s, x) + (IF t[Len(t)] = x THEN 1 ELSE 0)
  BY <1>1, <1>2, <1>3, TimesWithout
<1> QED BY <1>1, <1>4 DEF t

\* The head taken away counts once less.
LEMMA TimesTail ==
  ASSUME NEW S, NEW s \in Seq(S), s # <<>>, NEW x
  PROVE  Times(s, x) = Times(Tail(s), x) + (IF Head(s) = x THEN 1 ELSE 0)
<1> DEFINE t == Tail(s)
<1>1. /\ t \in Seq(S) /\ Len(t) = Len(s) - 1 /\ Len(s) \in Nat \ {0} /\ Head(s) = s[1]
      /\ \A k \in 1..Len(t) : t[k] = s[k + 1]
  OBVIOUS
<1> HIDE DEF t
<1>2. PICK i \in 1..Len(s) : i = 1 BY <1>1
<1>3. \A k \in 1..(Len(s) - 1) : t[k] = IF k < i THEN s[k] ELSE s[k + 1] BY <1>1, <1>2
<1>4. t \in Seq(S) /\ Len(t) = Len(s) - 1 BY <1>1
<1>5. Times(s, x) = Times(t, x) + (IF s[i] = x THEN 1 ELSE 0)
  BY <1>3, <1>4, TimesWithout
<1> QED BY <1>1, <1>2, <1>5 DEF t

\* Where x stands in a queue of chunks, when a chunk joins it, leaves it, or grows.
LEMMA PlacesFinite ==
  ASSUME NEW S, NEW q \in Seq(Seq(S)), NEW x
  PROVE  IsFiniteSet(Places(q, x)) /\ Cardinality(Places(q, x)) \in Nat
<1> DEFINE f == [k \in DOMAIN q |-> {k} \X {j \in DOMAIN q[k] : q[k][j] = x}]
           T == {{k} \X {j \in DOMAIN q[k] : q[k][j] = x} : k \in DOMAIN q}
<1>1. DOMAIN q = 1..Len(q) /\ Len(q) \in Nat /\ \A k \in 1..Len(q) : q[k] \in Seq(S)
  BY LenProperties, ElementOfSeq
<1>2. IsFiniteSet(DOMAIN q) BY <1>1, FS_Interval
<1>3. f \in Surjection(DOMAIN q, T) BY DEF Surjection
<1>4. IsFiniteSet(T)
  <2> HIDE DEF f, T
  <2> QED BY <1>2, <1>3, FS_Surjection
<1>5. ASSUME NEW k \in DOMAIN q PROVE IsFiniteSet({k} \X {j \in DOMAIN q[k] : q[k][j] = x})
  <2> DEFINE c == q[k]
  <2>0. c \in Seq(S) BY <1>1
  <2> HIDE DEF c
  <2>a. IsFiniteSet({j \in DOMAIN c : c[j] = x}) BY <2>0, TimesNat
  <2>1. IsFiniteSet({j \in DOMAIN q[k] : q[k][j] = x}) BY <2>a DEF c
  <2>2. IsFiniteSet({k}) BY FS_Singleton
  <2> QED BY <2>1, <2>2, FS_Product
<1>6. \A A \in T : IsFiniteSet(A) BY <1>5
<1>7. IsFiniteSet(UNION T)
  <2> HIDE DEF T
  <2> QED BY <1>4, <1>6, FS_UNION
<1>8. IsFiniteSet(Places(q, x)) BY <1>7 DEF Places
<1> QED BY <1>8, FS_CardinalityType

\* The places of x in a queue of chunks.
LEMMA PlacesAre ==
  ASSUME NEW S, NEW q \in Seq(Seq(S)), NEW x, NEW p
  PROVE  p \in Places(q, x) <=>
           \E k \in 1..Len(q) : \E j \in 1..Len(q[k]) : q[k][j] = x /\ p = <<k, j>>
<1>1. DOMAIN q = 1..Len(q) /\ \A k \in 1..Len(q) : DOMAIN q[k] = 1..Len(q[k])
  BY LenProperties, ElementOfSeq
<1> QED BY <1>1 DEF Places

\* The places of x in one chunk.
LEMMA Column ==
  ASSUME NEW S, NEW c \in Seq(S), NEW n, NEW x
  PROVE  LET D == {n} \X {j \in DOMAIN c : c[j] = x}
         IN  IsFiniteSet(D) /\ Cardinality(D) = Times(c, x)
<1> DEFINE E == {j \in DOMAIN c : c[j] = x}
<1>1. IsFiniteSet(E) /\ Times(c, x) = Cardinality(E) /\ Cardinality(E) \in Nat
  BY TimesNat DEF Times
<1>2. IsFiniteSet({n}) /\ Cardinality({n}) = 1 BY FS_Singleton
<1> HIDE DEF E
<1>3. IsFiniteSet({n} \X E) /\ Cardinality({n} \X E) = Cardinality({n}) * Cardinality(E)
  BY <1>1, <1>2, FS_Product
<1>4. Cardinality({n} \X E) = Times(c, x) BY <1>1, <1>2, <1>3
<1> QED BY <1>3, <1>4 DEF E

\* A new chunk adds its places.
LEMMA PlacesAppend ==
  ASSUME NEW S, NEW q \in Seq(Seq(S)), NEW c \in Seq(S), NEW x
  PROVE  Cardinality(Places(Append(q, c), x)) = Cardinality(Places(q, x)) + Times(c, x)
<1> DEFINE t == Append(q, c)
           A == Places(q, x)
           D == {Len(t)} \X {j \in DOMAIN c : c[j] = x}
<1>1. /\ t \in Seq(Seq(S)) /\ Len(t) = Len(q) + 1 /\ t[Len(t)] = c /\ Len(q) \in Nat
      /\ \A k \in 1..Len(q) : t[k] = q[k]
  OBVIOUS
<1> HIDE DEF t
<1>2. DOMAIN c = 1..Len(c) OBVIOUS
<1>3. \A p : p \in Places(t, x) <=>
             \E k \in 1..Len(t) : \E j \in 1..Len(t[k]) : t[k][j] = x /\ p = <<k, j>>
  BY <1>1, PlacesAre
<1>4. \A p : p \in A <=> \E k \in 1..Len(q) : \E j \in 1..Len(q[k]) : q[k][j] = x /\ p = <<k, j>>
  BY PlacesAre
<1>5. \A p : p \in D <=> \E j \in 1..Len(c) : c[j] = x /\ p = <<Len(t), j>>
  BY <1>2
<1> HIDE DEF A, D
<1>6. ASSUME NEW p PROVE p \in Places(t, x) <=> p \in A \/ p \in D
  <2>1. \A k \in 1..Len(t) : k = Len(t) \/ k \in 1..Len(q) BY <1>1
  <2>2. \A k \in 1..Len(q) : k \in 1..Len(t) BY <1>1
  <2>3. Len(t) \in 1..Len(t) BY <1>1
  <2>4. ASSUME p \in Places(t, x) PROVE p \in A \/ p \in D
    <3>1. PICK k, j : k \in 1..Len(t) /\ j \in 1..Len(t[k]) /\ t[k][j] = x /\ p = <<k, j>>
      BY <1>3, <2>4
    <3>2. CASE k = Len(t) BY <3>1, <3>2, <1>1, <1>5
    <3>3. CASE k \in 1..Len(q)
      <4>1. t[k] = q[k] BY <3>3, <1>1
      <4> QED BY <4>1, <3>1, <3>3, <1>4
    <3> QED BY <3>1, <3>2, <3>3, <2>1
  <2>5. ASSUME p \in A PROVE p \in Places(t, x)
    <3>1. PICK k, j : k \in 1..Len(q) /\ j \in 1..Len(q[k]) /\ q[k][j] = x /\ p = <<k, j>>
      BY <1>4, <2>5
    <3>2. t[k] = q[k] BY <3>1, <1>1
    <3> QED BY <3>1, <3>2, <2>2, <1>3
  <2>6. ASSUME p \in D PROVE p \in Places(t, x)
    <3>1. PICK j \in 1..Len(c) : c[j] = x /\ p = <<Len(t), j>> BY <1>5, <2>6
    <3>2. t[Len(t)] = c BY <1>1
    <3> QED BY <3>1, <3>2, <2>3, <1>3
  <2> QED BY <2>4, <2>5, <2>6
<1>7. Places(t, x) = A \cup D BY <1>6
<1>8. A \cap D = {}
  <2> SUFFICES ASSUME NEW p, p \in A, p \in D PROVE FALSE OBVIOUS
  <2>1. PICK k, j : k \in 1..Len(q) /\ j \in 1..Len(q[k]) /\ p = <<k, j>> BY <1>4
  <2>2. PICK j2 \in 1..Len(c) : p = <<Len(t), j2>> BY <1>5
  <2>3. k = Len(t) BY <2>1, <2>2
  <2> QED BY <2>1, <2>3, <1>1
<1>9. IsFiniteSet(A) /\ Cardinality(A) \in Nat BY PlacesFinite DEF A
<1>10. IsFiniteSet(D) /\ Cardinality(D) = Times(c, x) BY Column DEF D
<1>11. Times(c, x) \in Nat BY TimesNat
<1>12. Cardinality(A \cup D) = Cardinality(A) + Cardinality(D) - Cardinality(A \cap D)
  BY <1>9, <1>10, FS_Union
<1>13. Cardinality(A \cap D) = 0 BY <1>8, FS_EmptySet
<1>14. Cardinality(Places(t, x)) = Cardinality(A) + Times(c, x)
  BY <1>7, <1>9, <1>10, <1>11, <1>12, <1>13
<1> QED BY <1>14 DEF t, A

\* The first chunk takes its places away.
LEMMA PlacesTail ==
  ASSUME NEW S, NEW q \in Seq(Seq(S)), q # <<>>, NEW x
  PROVE  Cardinality(Places(q, x)) = Cardinality(Places(Tail(q), x)) + Times(Head(q), x)
<1> DEFINE t == Tail(q)
           c == Head(q)
           A == Places(t, x)
           B == Places(q, x)
           D == {1} \X {j \in DOMAIN c : c[j] = x}
           f == [p \in A |-> <<p[1] + 1, p[2]>>]
<1>1. /\ t \in Seq(Seq(S)) /\ Len(t) = Len(q) - 1 /\ Len(q) \in Nat \ {0}
      /\ c = q[1] /\ c \in Seq(S)
      /\ \A k \in 1..Len(t) : t[k] = q[k + 1]
  OBVIOUS
<1> HIDE DEF t, c
<1>a. t \in Seq(Seq(S)) BY <1>1
<1>b. c \in Seq(S) BY <1>1
<1>2. DOMAIN c = 1..Len(c) BY <1>b
<1>3. \A p : p \in B <=> \E k \in 1..Len(q) : \E j \in 1..Len(q[k]) : q[k][j] = x /\ p = <<k, j>>
  BY PlacesAre
<1>4. \A p : p \in A <=> \E k \in 1..Len(t) : \E j \in 1..Len(t[k]) : t[k][j] = x /\ p = <<k, j>>
  <2> SUFFICES ASSUME NEW p
               PROVE  p \in Places(t, x) <=>
                        \E k \in 1..Len(t) : \E j \in 1..Len(t[k]) : t[k][j] = x /\ p = <<k, j>>
    OBVIOUS
  <2> QED BY <1>a, PlacesAre
<1>5. \A p : p \in D <=> \E j \in 1..Len(c) : c[j] = x /\ p = <<1, j>>
  BY <1>2
<1>6. IsFiniteSet(A) /\ IsFiniteSet(B) /\ Cardinality(A) \in Nat /\ Cardinality(B) \in Nat
  BY <1>a, PlacesFinite
<1>7. IsFiniteSet(D) /\ Cardinality(D) = Times(c, x) BY <1>b, Column
<1> HIDE DEF A, B, D
<1>8. D \subseteq B BY <1>1, <1>3, <1>5
<1>9. f \in Bijection(A, B \ D)
  <2>1. ASSUME NEW p \in A PROVE f[p] \in B \ D
    <3>1. PICK k, j : k \in 1..Len(t) /\ j \in 1..Len(t[k]) /\ t[k][j] = x /\ p = <<k, j>> BY <1>4
    <3>2. f[p] = <<k + 1, j>> /\ k + 1 \in 1..Len(q) /\ k + 1 # 1 /\ t[k] = q[k + 1]
      BY SMTT(20), <3>1, <1>1
    <3>3. f[p] \in B BY <3>1, <3>2, <1>3
    <3>4. f[p] \notin D BY <3>2, <1>5
    <3> QED BY <3>3, <3>4
  <2>2. ASSUME NEW p \in A, NEW r \in A, f[p] = f[r] PROVE p = r
    <3>1. PICK k, j : k \in 1..Len(t) /\ j \in 1..Len(t[k]) /\ p = <<k, j>> BY <1>4
    <3>2. PICK l, m : l \in 1..Len(t) /\ m \in 1..Len(t[l]) /\ r = <<l, m>> BY <1>4
    <3>3. k + 1 = l + 1 /\ j = m BY <3>1, <3>2, <2>2
    <3> QED BY <3>1, <3>2, <3>3
  <2>3. ASSUME NEW r \in B \ D PROVE \E p \in A : f[p] = r
    <3>1. PICK k, j : k \in 1..Len(q) /\ j \in 1..Len(q[k]) /\ q[k][j] = x /\ r = <<k, j>> BY <1>3
    <3>2. k # 1 BY <2>3, <3>1, <1>1, <1>5
    <3>3. k - 1 \in 1..Len(t) /\ (k - 1) + 1 = k BY <3>1, <3>2, <1>1
    <3>4. t[k - 1] = q[k] BY <3>3, <1>1
    <3>5. <<k - 1, j>> \in A BY <3>1, <3>3, <3>4, <1>4
    <3>6. f[<<k - 1, j>>] = r BY <3>1, <3>3, <3>5
    <3> QED BY <3>5, <3>6
  <2>4. f \in Injection(A, B \ D) BY <2>1, <2>2 DEF Injection, IsInjective
  <2>5. f \in Surjection(A, B \ D) BY <2>1, <2>3 DEF Surjection
  <2> QED BY <2>4, <2>5 DEF Bijection
<1>10. Cardinality(B \ D) = Cardinality(A)
  <2> HIDE DEF f
  <2> QED BY <1>6, <1>9, FS_Bijection DEF ExistsBijection
<1>11. Cardinality(B \ D) = Cardinality(B) - Cardinality(B \cap D) BY <1>6, FS_Difference
<1>12. B \cap D = D BY <1>8
<1>13. Times(c, x) \in Nat BY <1>b, TimesNat
<1>14. Cardinality(B) = Cardinality(A) + Times(c, x)
  <2>1. Cardinality(B \cap D) = Times(c, x) BY <1>7, <1>12
  <2>2. Cardinality(A) = Cardinality(B) - Times(c, x) BY <2>1, <1>10, <1>11
  <2> QED BY <2>2, <1>6, <1>13
<1> QED BY <1>14 DEF A, B, t, c

\* A chunk that grows adds the places of what is put behind it.
LEMMA PlacesGrow ==
  ASSUME NEW S, NEW q \in Seq(Seq(S)), q # <<>>, NEW c \in Seq(S), NEW x
  PROVE  LET t == ReplaceAt(q, Len(q), Last(q) \o c)
         IN  /\ t \in Seq(Seq(S))
             /\ Cardinality(Places(t, x)) = Cardinality(Places(q, x)) + Times(c, x)
<1> DEFINE n == Len(q)
           l == Last(q)
           m == Len(l)
           g == l \o c
           t == ReplaceAt(q, n, g)
           A == Places(q, x)
           E == {j \in DOMAIN c : c[j] = x}
           D == {<<n, m + j>> : j \in E}
           f == [j \in E |-> <<n, m + j>>]
<1>1. n \in Nat \ {0} /\ n \in 1..n /\ l \in Seq(S) /\ l = q[n] /\ m \in Nat
  BY DEF Last
<1>2. /\ g \in Seq(S) /\ Len(g) = m + Len(c) /\ Len(c) \in Nat
      /\ \A j \in 1..(m + Len(c)) : g[j] = IF j <= m THEN l[j] ELSE c[j - m]
  BY <1>1, ConcatProperties
<1> HIDE DEF g, l
<1>3. t \in Seq(Seq(S)) /\ Len(t) = n /\ \A k \in 1..n : t[k] = IF k = n THEN g ELSE q[k]
  BY <1>1, <1>2, ExceptSeq DEF ReplaceAt
<1> HIDE DEF t
<1>4. DOMAIN c = 1..Len(c) OBVIOUS
<1>5. \A p : p \in Places(t, x) <=>
             \E k \in 1..n : \E j \in 1..Len(t[k]) : t[k][j] = x /\ p = <<k, j>>
  BY <1>3, PlacesAre
<1>6. \A p : p \in A <=> \E k \in 1..n : \E j \in 1..Len(q[k]) : q[k][j] = x /\ p = <<k, j>>
  BY PlacesAre
<1>7. \A p : p \in D <=> \E j \in 1..Len(c) : c[j] = x /\ p = <<n, m + j>>
  BY <1>4
<1>8. IsFiniteSet(E) /\ Cardinality(E) = Times(c, x) BY TimesNat DEF Times
<1>9. f \in Bijection(E, D)
  <2>1. \A j \in E : j \in Int BY <1>2, <1>4
  <2>2. f \in Surjection(E, D) BY DEF Surjection
  <2>3. \A i, j \in E : f[i] = f[j] => i = j BY <2>1, <1>1
  <2>4. f \in Injection(E, D) BY <2>3 DEF Injection, IsInjective
  <2> QED BY <2>2, <2>4 DEF Bijection
<1> HIDE DEF D, E, f
<1>10. IsFiniteSet(D) /\ Cardinality(D) = Times(c, x)
  BY <1>8, <1>9, FS_Bijection DEF ExistsBijection
<1>11. IsFiniteSet(A) /\ Cardinality(A) \in Nat BY PlacesFinite
<1> HIDE DEF A
<1>12. ASSUME NEW p PROVE p \in Places(t, x) <=> p \in A \/ p \in D
  <2>1. ASSUME p \in Places(t, x) PROVE p \in A \/ p \in D
    <3>1. PICK k, j : k \in 1..n /\ j \in 1..Len(t[k]) /\ t[k][j] = x /\ p = <<k, j>> BY <1>5, <2>1
    <3>2. CASE k # n BY <3>1, <3>2, <1>3, <1>6
    <3>3. CASE k = n /\ j <= m
      <4>1. q[k] = l /\ j \in 1..m /\ l[j] = x BY <3>1, <3>3, <1>1, <1>2, <1>3
      <4> QED BY <4>1, <3>1, <1>6
    <3>4. CASE k = n /\ ~(j <= m)
      <4>1. j - m \in 1..Len(c) /\ c[j - m] = x /\ m + (j - m) = j
        BY <3>1, <3>4, <1>1, <1>2, <1>3
      <4> QED BY <4>1, <3>1, <3>4, <1>7
    <3> QED BY <3>2, <3>3, <3>4
  <2>2. ASSUME p \in A PROVE p \in Places(t, x)
    <3>1. PICK k, j : k \in 1..n /\ j \in 1..Len(q[k]) /\ q[k][j] = x /\ p = <<k, j>> BY <1>6, <2>2
    <3>2. CASE k # n BY <3>1, <3>2, <1>3, <1>5
    <3>3. CASE k = n
      <4>1. t[k] = g /\ q[k] = l BY <3>3, <1>1, <1>3
      <4>2. j \in 1..Len(g) /\ g[j] = x BY <4>1, <3>1, <1>1, <1>2
      <4> QED BY <4>1, <4>2, <3>1, <1>5
    <3> QED BY <3>2, <3>3
  <2>3. ASSUME p \in D PROVE p \in Places(t, x)
    <3>1. PICK j \in 1..Len(c) : c[j] = x /\ p = <<n, m + j>> BY <1>7, <2>3
    <3>2. m + j \in 1..Len(g) /\ ~(m + j <= m) /\ (m + j) - m = j BY <1>1, <1>2
    <3>3. g[m + j] = x BY <3>1, <3>2, <1>2
    <3>4. t[n] = g BY <1>1, <1>3
    <3> QED BY <3>1, <3>2, <3>3, <3>4, <1>1, <1>5
  <2> QED BY <2>1, <2>2, <2>3
<1>13. Places(t, x) = A \cup D BY <1>12
<1>14. A \cap D = {}
  <2> SUFFICES ASSUME NEW p, p \in A, p \in D PROVE FALSE OBVIOUS
  <2>1. PICK k, j : k \in 1..n /\ j \in 1..Len(q[k]) /\ p = <<k, j>> BY <1>6
  <2>2. PICK i \in 1..Len(c) : p = <<n, m + i>> BY <1>7
  <2>3. k = n /\ j = m + i BY <2>1, <2>2
  <2>4. j \in 1..m BY <2>1, <2>3, <1>1
  <2> QED BY <2>3, <2>4, <1>1
<1>15. Cardinality(A \cup D) = Cardinality(A) + Cardinality(D) - Cardinality(A \cap D)
  BY <1>10, <1>11, FS_Union
<1>16. Cardinality(A \cap D) = 0 BY <1>14, FS_EmptySet
<1>17. Times(c, x) \in Nat BY TimesNat
<1>18. Cardinality(Places(t, x)) = Cardinality(A) + Times(c, x)
  BY <1>10, <1>11, <1>13, <1>15, <1>16, <1>17
<1> QED BY <1>3, <1>18 DEF t, A, g, l

-----------------------------------------------------------------------------
(* What the remote learns from frames read in order.                       *)

\* A set of positions has a greatest element.
LEMMA Greatest ==
  ASSUME NEW n \in Nat, NEW T \in SUBSET (1..n), T # {}
  PROVE  \E x \in T : \A y \in T : y <= x
<1> DEFINE U == {n - x : x \in T}
<1>1. U \in SUBSET Nat /\ U # {}
  <2>1. \A x \in T : n - x \in Nat OBVIOUS
  <2> QED BY <2>1
<1>2. PICK u \in U : \A w \in U : u <= w BY <1>1, Least
<1>3. PICK x \in T : u = n - x BY <1>2
<1>4. \A y \in T : n - x <= n - y BY <1>2, <1>3
<1>5. \A y \in T : y <= x BY <1>4
<1> QED BY <1>5

\* Whoever speaks of a piece has a last word on it, and only one.
LEMMA LastWord ==
  ASSUME NEW F, NEW c \in Seq(F), NEW i
  PROVE  /\ ~(Tells(c, i) /\ Denies(c, i))
         /\ (\E k \in DOMAIN c : Grants(c[k], i) \/ Takes(c[k], i)) => Tells(c, i) \/ Denies(c, i)
         /\ Tells(c, i) => \E k \in DOMAIN c : Grants(c[k], i)
         /\ Denies(c, i) => \E k \in DOMAIN c : Takes(c[k], i)
<1>0. DOMAIN c = 1..Len(c) /\ Len(c) \in Nat BY LenProperties
<1>1. \A k : ~(Grants(c[k], i) /\ Takes(c[k], i)) BY DEF Grants, Takes
<1>2. ~(Tells(c, i) /\ Denies(c, i))
  <2> SUFFICES ASSUME Tells(c, i), Denies(c, i) PROVE FALSE OBVIOUS
  <2>1. PICK k \in DOMAIN c : Grants(c[k], i) /\ \A j \in DOMAIN c : j > k => ~Takes(c[j], i)
    BY DEF Tells
  <2>2. PICK l \in DOMAIN c : Takes(c[l], i) /\ \A j \in DOMAIN c : j > l => ~Grants(c[j], i)
    BY DEF Denies
  <2>3. k # l BY <2>1, <2>2, <1>1
  <2>4. ~(k > l) /\ ~(l > k) BY <2>1, <2>2
  <2> QED BY <2>3, <2>4, <1>0
<1>3. ASSUME \E k \in DOMAIN c : Grants(c[k], i) \/ Takes(c[k], i)
      PROVE  Tells(c, i) \/ Denies(c, i)
  <2> DEFINE T == {k \in 1..Len(c) : Grants(c[k], i) \/ Takes(c[k], i)}
  <2>1. T \in SUBSET (1..Len(c)) /\ T # {} BY <1>0, <1>3
  <2>2. PICK k \in T : \A j \in T : j <= k BY <2>1, <1>0, Greatest
  <2>3. \A j \in DOMAIN c : j > k => ~Grants(c[j], i) /\ ~Takes(c[j], i) BY <2>2, <1>0
  <2>4. k \in DOMAIN c /\ (Grants(c[k], i) \/ Takes(c[k], i)) BY <1>0
  <2> HIDE DEF T
  <2> QED BY <2>3, <2>4 DEF Tells, Denies
<1> QED BY <1>2, <1>3 DEF Tells, Denies

\* What one chunk teaches.
LEMMA LearnOne ==
  ASSUME NEW v, NEW c
  PROVE  Learn(v, <<c>>) = {i \in Pieces : Tells(c, i) \/ (i \in v /\ ~Denies(c, i))}
<1> DEFINE q == <<c>>
<1>1. DOMAIN q = {1} /\ q[1] = c OBVIOUS
<1> HIDE DEF q
<1>2. \A i : (\E k \in DOMAIN q : Tells(q[k], i) /\ \A j \in DOMAIN q : j > k => ~Denies(q[j], i))
               <=> Tells(c, i)
  <2>1. ~(1 > 1) OBVIOUS
  <2> QED BY <1>1, <2>1
<1>3. \A i : (\A k \in DOMAIN q : ~Denies(q[k], i)) <=> ~Denies(c, i) BY <1>1
<1>4. Learn(v, q) = {i \in Pieces : Tells(c, i) \/ (i \in v /\ ~Denies(c, i))}
  BY <1>2, <1>3 DEF Learn
<1> QED BY <1>4 DEF q

\* An empty queue teaches nothing.
LEMMA LearnNothing ==
  ASSUME NEW v \in SUBSET Pieces
  PROVE  Learn(v, <<>>) = v
<1> DEFINE q == <<>>
<1>1. DOMAIN q = {} OBVIOUS
<1> HIDE DEF q
<1>2. Learn(v, q) = v BY <1>1 DEF Learn
<1> QED BY <1>2 DEF q

\* What a remote learns are pieces.
LEMMA LearnIsPieces == ASSUME NEW v, NEW q PROVE Learn(v, q) \in SUBSET Pieces
BY DEF Learn

\* A remote that reads two queues in turn reads their concatenation.
LEMMA LearnConcat ==
  ASSUME NEW C, NEW p \in Seq(C), NEW q \in Seq(C), NEW v
  PROVE  Learn(v, p \o q) = Learn(Learn(v, p), q)
<1> DEFINE r == p \o q
           n == Len(p)
<1>1. /\ DOMAIN p = 1..n /\ n \in Nat /\ DOMAIN q = 1..Len(q) /\ Len(q) \in Nat
      /\ DOMAIN r = 1..(n + Len(q))
      /\ \A k \in 1..(n + Len(q)) : r[k] = IF k <= n THEN p[k] ELSE q[k - n]
  <2>1. r \in Seq(C) BY ConcatProperties
  <2> QED BY <2>1, LenProperties, ConcatProperties
<1>2. \A k \in 1..n : k \in DOMAIN r /\ r[k] = p[k] BY <1>1
<1>3. \A k \in 1..Len(q) : n + k \in DOMAIN r /\ r[n + k] = q[k] /\ n + k > n BY <1>1
<1>4. \A k \in DOMAIN r : k \in 1..n \/ \E j \in 1..Len(q) : k = n + j
  <2> SUFFICES ASSUME NEW k \in DOMAIN r, k \notin 1..n PROVE \E j \in 1..Len(q) : k = n + j
    OBVIOUS
  <2>1. k - n \in 1..Len(q) /\ k = n + (k - n) BY <1>1
  <2> QED BY <2>1
<1> HIDE DEF r, n
<1>5. ASSUME NEW i \in Pieces PROVE i \in Learn(v, r) <=> i \in Learn(Learn(v, p), q)
  <2> DEFINE NoP == \A k \in 1..n : ~Denies(p[k], i)
             NoQ == \A k \in 1..Len(q) : ~Denies(q[k], i)
             YesP == \E k \in 1..n : Tells(p[k], i) /\ \A j \in 1..n : j > k => ~Denies(p[j], i)
             YesQ == \E k \in 1..Len(q) : Tells(q[k], i)
                       /\ \A j \in 1..Len(q) : j > k => ~Denies(q[j], i)
             YesR == \E k \in DOMAIN r : Tells(r[k], i)
                       /\ \A j \in DOMAIN r : j > k => ~Denies(r[j], i)
  <2>1. i \in Learn(v, p) <=> YesP \/ (i \in v /\ NoP) BY <1>1 DEF Learn
  <2>2. i \in Learn(Learn(v, p), q) <=> YesQ \/ (i \in Learn(v, p) /\ NoQ)
    <3> DEFINE w == Learn(v, p)
    <3> HIDE DEF w
    <3>1. i \in Learn(w, q) <=> YesQ \/ (i \in w /\ NoQ) BY <1>1 DEF Learn
    <3> QED BY <3>1 DEF w
  <2>3. i \in Learn(v, r) <=> YesR \/ (i \in v /\ \A k \in DOMAIN r : ~Denies(r[k], i))
    BY DEF Learn
  <2>4. (\A k \in DOMAIN r : ~Denies(r[k], i)) <=> NoP /\ NoQ BY <1>2, <1>3, <1>4
  <2>5. ASSUME YesQ PROVE YesR
    <3>1. PICK k \in 1..Len(q) : Tells(q[k], i) /\ \A j \in 1..Len(q) : j > k => ~Denies(q[j], i)
      BY <2>5
    <3>2. n + k \in DOMAIN r /\ Tells(r[n + k], i) BY <3>1, <1>3
    <3>3. ASSUME NEW j \in DOMAIN r, j > n + k PROVE ~Denies(r[j], i)
      <4>1. PICK l \in 1..Len(q) : j = n + l BY <3>3, <1>1, <1>4
      <4>2. l > k BY <4>1, <3>3, <1>1
      <4> QED BY <4>1, <4>2, <3>1, <1>3
    <3> QED BY <3>2, <3>3
  <2>6. ASSUME YesP, NoQ PROVE YesR
    <3>1. PICK k \in 1..n : Tells(p[k], i) /\ \A j \in 1..n : j > k => ~Denies(p[j], i)
      BY <2>6
    <3>2. k \in DOMAIN r /\ Tells(r[k], i) BY <3>1, <1>2
    <3>3. ASSUME NEW j \in DOMAIN r, j > k PROVE ~Denies(r[j], i)
      BY <3>1, <3>3, <2>6, <1>2, <1>3, <1>4
    <3> QED BY <3>2, <3>3
  <2>7. ASSUME YesR PROVE YesQ \/ (YesP /\ NoQ)
    <3>1. PICK k \in DOMAIN r : Tells(r[k], i) /\ \A j \in DOMAIN r : j > k => ~Denies(r[j], i)
      BY <2>7
    <3>2. CASE k \in 1..n
      <4>1. Tells(p[k], i) BY <3>1, <3>2, <1>2
      <4>2. \A j \in 1..n : j > k => ~Denies(p[j], i) BY <3>1, <1>2
      <4>3. \A j \in 1..Len(q) : n + j > k BY <3>2, <1>1
      <4>4. NoQ BY <4>3, <3>1, <1>3
      <4> QED BY <3>2, <4>1, <4>2, <4>4
    <3>3. ASSUME NEW l \in 1..Len(q), k = n + l PROVE YesQ
      <4>1. Tells(q[l], i) BY <3>1, <3>3, <1>3
      <4>2. \A j \in 1..Len(q) : j > l => n + j > k BY <3>3, <1>1
      <4>3. \A j \in 1..Len(q) : j > l => ~Denies(q[j], i) BY <4>2, <3>1, <1>3
      <4> QED BY <4>1, <4>3
    <3> QED BY <3>2, <3>3, <1>4
  <2> HIDE DEF NoP, NoQ, YesP, YesQ, YesR
  <2> QED BY <2>1, <2>2, <2>3, <2>4, <2>5, <2>6, <2>7
<1>6. Learn(v, r) = Learn(Learn(v, p), q)
  <2>1. Learn(v, r) \in SUBSET Pieces /\ Learn(Learn(v, p), q) \in SUBSET Pieces
    BY DEF Learn
  <2> QED BY <2>1, <1>5
<1> QED BY <1>6 DEF r

\* One chunk may hold what two held.
LEMMA LearnMerge ==
  ASSUME NEW F, NEW c \in Seq(F), NEW d \in Seq(F), NEW v
  PROVE  Learn(v, <<c \o d>>) = Learn(Learn(v, <<c>>), <<d>>)
<1> DEFINE r == c \o d
           n == Len(c)
<1>1. /\ r \in Seq(F) /\ DOMAIN c = 1..n /\ n \in Nat /\ DOMAIN d = 1..Len(d) /\ Len(d) \in Nat
      /\ DOMAIN r = 1..(n + Len(d))
      /\ \A k \in 1..(n + Len(d)) : r[k] = IF k <= n THEN c[k] ELSE d[k - n]
  <2>1. r \in Seq(F) BY ConcatProperties
  <2> QED BY <2>1, LenProperties, ConcatProperties
<1>2. \A k \in 1..n : k \in DOMAIN r /\ r[k] = c[k] BY <1>1
<1>3. \A k \in 1..Len(d) : n + k \in DOMAIN r /\ r[n + k] = d[k] /\ n + k > n BY <1>1
<1>4. \A k \in DOMAIN r : k \in 1..n \/ \E j \in 1..Len(d) : k = n + j
  <2> SUFFICES ASSUME NEW k \in DOMAIN r, k \notin 1..n PROVE \E j \in 1..Len(d) : k = n + j
    OBVIOUS
  <2>1. k - n \in 1..Len(d) /\ k = n + (k - n) BY <1>1
  <2> QED BY <2>1
<1> HIDE DEF r, n
<1>5. ASSUME NEW i \in Pieces
      PROVE  i \in Learn(v, <<r>>) <=> i \in Learn(Learn(v, <<c>>), <<d>>)
  <2>1. i \in Learn(v, <<r>>) <=> Tells(r, i) \/ (i \in v /\ ~Denies(r, i)) BY LearnOne
  <2>2. i \in Learn(v, <<c>>) <=> Tells(c, i) \/ (i \in v /\ ~Denies(c, i)) BY LearnOne
  <2>3. i \in Learn(Learn(v, <<c>>), <<d>>)
          <=> Tells(d, i) \/ (i \in Learn(v, <<c>>) /\ ~Denies(d, i))
    BY LearnOne
  <2> DEFINE Silent == \A k \in DOMAIN d : ~Grants(d[k], i) /\ ~Takes(d[k], i)
  <2>4. CASE Silent
    <3>1. ~Tells(d, i) /\ ~Denies(d, i) BY <2>4 DEF Tells, Denies
    <3>2. ASSUME NEW j \in DOMAIN r, Grants(r[j], i) \/ Takes(r[j], i) PROVE j \in 1..n
      BY <3>2, <2>4, <1>1, <1>3, <1>4
    <3>3. Tells(r, i) <=> Tells(c, i)
      <4>1. ASSUME Tells(r, i) PROVE Tells(c, i)
        <5>1. PICK k \in DOMAIN r : Grants(r[k], i) /\ \A j \in DOMAIN r : j > k => ~Takes(r[j], i)
          BY <4>1 DEF Tells
        <5>2. k \in 1..n BY <5>1, <3>2
        <5> QED BY <5>1, <5>2, <1>1, <1>2 DEF Tells
      <4>2. ASSUME Tells(c, i) PROVE Tells(r, i)
        <5>1. PICK k \in 1..n : Grants(c[k], i) /\ \A j \in 1..n : j > k => ~Takes(c[j], i)
          BY <4>2, <1>1 DEF Tells
        <5> QED BY <5>1, <3>2, <1>2 DEF Tells
      <4> QED BY <4>1, <4>2
    <3>4. Denies(r, i) <=> Denies(c, i)
      <4>1. ASSUME Denies(r, i) PROVE Denies(c, i)
        <5>1. PICK k \in DOMAIN r : Takes(r[k], i) /\ \A j \in DOMAIN r : j > k => ~Grants(r[j], i)
          BY <4>1 DEF Denies
        <5>2. k \in 1..n BY <5>1, <3>2
        <5> QED BY <5>1, <5>2, <1>1, <1>2 DEF Denies
      <4>2. ASSUME Denies(c, i) PROVE Denies(r, i)
        <5>1. PICK k \in 1..n : Takes(c[k], i) /\ \A j \in 1..n : j > k => ~Grants(c[j], i)
          BY <4>2, <1>1 DEF Denies
        <5> QED BY <5>1, <3>2, <1>2 DEF Denies
      <4> QED BY <4>1, <4>2
    <3> QED BY <3>1, <3>3, <3>4, <2>1, <2>2, <2>3
  <2>5. CASE Tells(d, i)
    <3>1. PICK k \in 1..Len(d) : Grants(d[k], i) /\ \A j \in 1..Len(d) : j > k => ~Takes(d[j], i)
      BY <2>5, <1>1 DEF Tells
    <3>2. n + k \in DOMAIN r /\ Grants(r[n + k], i) BY <3>1, <1>3
    <3>3. ASSUME NEW j \in DOMAIN r, j > n + k PROVE ~Takes(r[j], i)
      <4>1. PICK l \in 1..Len(d) : j = n + l BY <3>3, <1>1, <1>4
      <4>2. l > k BY <4>1, <3>3, <1>1
      <4> QED BY <4>1, <4>2, <3>1, <1>3
    <3>4. Tells(r, i) BY <3>2, <3>3 DEF Tells
    <3> QED BY <3>4, <2>1, <2>3, <2>5
  <2>6. CASE Denies(d, i)
    <3>1. PICK k \in 1..Len(d) : Takes(d[k], i) /\ \A j \in 1..Len(d) : j > k => ~Grants(d[j], i)
      BY <2>6, <1>1 DEF Denies
    <3>2. n + k \in DOMAIN r /\ Takes(r[n + k], i) BY <3>1, <1>3
    <3>3. ASSUME NEW j \in DOMAIN r, j > n + k PROVE ~Grants(r[j], i)
      <4>1. PICK l \in 1..Len(d) : j = n + l BY <3>3, <1>1, <1>4
      <4>2. l > k BY <4>1, <3>3, <1>1
      <4> QED BY <4>1, <4>2, <3>1, <1>3
    <3>4. Denies(r, i) BY <3>2, <3>3 DEF Denies
    <3>5. ~Tells(r, i) /\ ~Tells(d, i) BY <3>4, <2>6, <1>1, LastWord
    <3> QED BY <3>4, <3>5, <2>1, <2>3, <2>6
  <2>7. Silent \/ Tells(d, i) \/ Denies(d, i) BY LastWord
  <2> QED BY <2>4, <2>5, <2>6, <2>7
<1>6. Learn(v, <<r>>) = Learn(Learn(v, <<c>>), <<d>>)
  <2>1. Learn(v, <<r>>) \in SUBSET Pieces /\ Learn(Learn(v, <<c>>), <<d>>) \in SUBSET Pieces
    BY DEF Learn
  <2> QED BY <2>1, <1>5
<1> QED BY <1>6 DEF r

-----------------------------------------------------------------------------
(* Types, and what of the state belongs together.                          *)

\* What of a session's state belongs together, whichever task ran last: the
\* writer starts when the hello is out, one frame is in hand at a time, and
\* the block being read counts against the queue's limit.
Together ==
    /\ writer = "start" <=> reader \in {"start", "hello", "late"}
    /\ writer = "start" => /\ cmd = <<>> /\ ctrl = <<>> /\ pieces = <<>>
                           /\ active = Idle /\ filling = NoBlock
    /\ reader = "hello" => hello # NoHello
    /\ reader # "start" => subscribed
    /\ filling # NoBlock => writer = "send" /\ active = Idle
    /\ writer = "writing" => active # Idle
    /\ PiecePending + (IF filling # NoBlock THEN 1 ELSE 0) <= PieceMax

UploadShape == TypeOK /\ Together

\* The frames, by kind.
LEMMA FramesAre ==
  /\ \A i \in Pieces : Have(i) \in Frames
  /\ \A S \in SUBSET Pieces : Possession(S) \in Frames
  /\ \A b \in Blocks : Reject(b) \in Frames
  /\ KeepAlive \in Frames
BY DEF Frames, Have, Possession, Reject, KeepAlive

\* The messages between the tasks, by kind.
LEMMA MsgsAre ==
  /\ \A f \in Frames : Ctrl(f) \in WriterMsg
  /\ \A b \in Blocks : Upload(b) \in WriterMsg /\ Cancel(b) \in WriterMsg
  /\ ClearPieces \in WriterMsg /\ ReaderDone \in WriterMsg
  /\ \A m \in WriterMsg :
        /\ m.kind \in {"ctrl", "upload", "cancel", "clear", "done"}
        /\ m.kind = "ctrl" => m.frame \in Frames /\ m = Ctrl(m.frame)
        /\ m.kind = "upload" => m.block \in Blocks /\ m = Upload(m.block)
        /\ m.kind = "cancel" => m.block \in Blocks /\ m = Cancel(m.block)
        /\ m.kind = "clear" <=> m = ClearPieces
BY DEF WriterMsg, Ctrl, Upload, Cancel, ClearPieces, ReaderDone

\* What the writer may have in hand, by kind.
LEMMA ActivesAre ==
  /\ Idle \in Active /\ Idle.kind = "none"
  /\ \A fs \in Seq(Frames) : [kind |-> "ctrl", frames |-> fs] \in Active
  /\ \A b \in Blocks, c \in BOOLEAN : [kind |-> "piece", block |-> b, cipher |-> c] \in Active
  /\ \A a \in Active :
        /\ a.kind \in {"ctrl", "piece", "none"}
        /\ a.kind = "ctrl" => a.frames \in Seq(Frames)
        /\ a.kind = "piece" => a.block \in Blocks /\ a.cipher \in BOOLEAN
        /\ a.kind = "none" <=> a = Idle
BY DEF Active, Idle

\* A queue of chunks that is never empty-handed.
Chunks == Seq(Frames) \ {<<>>}

\* A queue of chunks stays one when frames are put behind it.
LEMMA WithCtrlIs ==
  ASSUME NEW q \in Seq(Chunks), NEW fs \in Chunks
  PROVE  WithCtrl(q, fs) \in Seq(Chunks) \ {<<>>}
<1>1. CASE q # <<>> /\ Len(Last(q)) + Len(fs) <= ChunkMax
  <2>1. Last(q) \in Chunks /\ Len(q) \in 1..Len(q) BY <1>1 DEF Last
  <2>2. Last(q) \o fs \in Chunks
    <3>1. Last(q) \o fs \in Seq(Frames) /\ Len(Last(q) \o fs) = Len(Last(q)) + Len(fs)
      BY <2>1, ConcatProperties DEF Chunks
    <3>2. Len(fs) \in Nat \ {0} /\ Len(Last(q)) \in Nat BY <2>1 DEF Chunks
    <3> QED BY <3>1, <3>2 DEF Chunks
  <2> QED BY <1>1, <2>1, <2>2, ExceptSeq DEF WithCtrl, ReplaceAt
<1>2. CASE ~(q # <<>> /\ Len(Last(q)) + Len(fs) <= ChunkMax)
  BY <1>2 DEF WithCtrl
<1> QED BY <1>1, <1>2

\* The same for one frame of the reader,
LEMMA AddedCtrl ==
  ASSUME UploadShape, NEW f \in Frames
  PROVE  WithCtrl(ctrl, <<f>>) \in Seq(Chunks)
<1>1. <<f>> \in Chunks BY DEF Chunks
<1>2. ctrl \in Seq(Chunks) BY DEF UploadShape, TypeOK, Chunks, Together
<1> QED BY <1>1, <1>2, WithCtrlIs

\* for a reject,
LEMMA AddedReject ==
  ASSUME UploadShape, NEW b \in Blocks
  PROVE  WithReject(ctrl, b) \in Seq(Chunks)
<1>1. ctrl \in Seq(Chunks) BY DEF UploadShape, TypeOK, Chunks, Together
<1> QED BY <1>1, AddedCtrl, FramesAre DEF WithReject

\* and for the HAVEs taken from the hub.
LEMMA AddedHaves ==
  ASSUME UploadShape, haveRx # <<>>
  PROVE  /\ [k \in 1..Len(haveRx) |-> Have(haveRx[k])] \in Chunks
         /\ WithCtrl(ctrl, [k \in 1..Len(haveRx) |-> Have(haveRx[k])]) \in Seq(Chunks)
<1> DEFINE hs == [k \in 1..Len(haveRx) |-> Have(haveRx[k])]
<1>0. haveRx \in Seq(Pieces) /\ Len(haveRx) \in Nat \ {0} BY DEF UploadShape, TypeOK, Together
<1>1. \A k \in 1..Len(haveRx) : Have(haveRx[k]) \in Frames BY <1>0, FramesAre
<1>2. hs \in Seq(Frames) BY <1>0, <1>1
<1>3. Len(hs) = Len(haveRx) BY <1>0
<1>4. hs \in Chunks
  <2> HIDE DEF hs
  <2> QED BY <1>0, <1>2, <1>3 DEF Chunks
<1>5. ctrl \in Seq(Chunks) BY DEF UploadShape, TypeOK, Chunks, Together
<1> QED BY <1>4, <1>5, WithCtrlIs

\* RemoveFirst, as the queue of blocks sees it.
LEMMA Removed ==
  ASSUME NEW s \in Seq(Blocks), NEW b
  PROVE  /\ RemoveFirst(s, b) \in Seq(Blocks)
         /\ Len(RemoveFirst(s, b)) <= Len(s)
         /\ RemoveFirst(s, b) # s => Len(RemoveFirst(s, b)) = Len(s) - 1
<1>0. Len(s) \in Nat OBVIOUS
<1> QED BY <1>0, RemoveFirstIs

\* What a command leaves of the queue.
LEMMA ApplyMsgShape ==
  ASSUME UploadShape, UploadAssumption, filling = NoBlock, NEW m \in WriterMsg, ApplyMsg(m)
  PROVE  /\ ctrl' \in Seq(Chunks)
         /\ pieces' \in Seq(Blocks) /\ active' \in Active
         /\ active' = active \/ active' = Idle
         /\ Len(pieces') + (IF active'.kind = "piece" THEN 1 ELSE 0) <= PieceMax
         /\ pending' \in 0..PieceMax
         /\ withdrawn' \subseteq Blocks /\ gap' \in Nat
<1>0. /\ ctrl \in Seq(Chunks) /\ pieces \in Seq(Blocks) /\ active \in Active
      /\ PiecePending <= PieceMax /\ pending \in 0..PieceMax /\ withdrawn \subseteq Blocks
      /\ gap \in Nat /\ PieceMax \in Nat \ {0} /\ Len(pieces) \in Nat
  <2>1. /\ ctrl \in Seq(Chunks) /\ pieces \in Seq(Blocks) /\ active \in Active
        /\ pending \in 0..PieceMax /\ withdrawn \subseteq Blocks /\ gap \in Nat
    BY DEF UploadShape, TypeOK, Chunks, Together
  <2>2. PieceMax \in Nat \ {0} /\ Len(pieces) \in Nat BY <2>1 DEF UploadAssumption
  <2>3. PiecePending + (IF filling # NoBlock THEN 1 ELSE 0) <= PieceMax /\ PiecePending \in Nat
    BY <2>2 DEF UploadShape, PiecePending, Together
  <2>4. PiecePending <= PieceMax BY <2>2, <2>3
  <2> QED BY <2>1, <2>2, <2>4
<1>1. CASE m.kind = "ctrl"
  <2>1. WithCtrl(ctrl, <<m.frame>>) \in Seq(Chunks) BY <1>1, MsgsAre, AddedCtrl
  <2> QED BY <1>0, <1>1, <2>1 DEF ApplyMsg, PiecePending
<1>2. CASE m.kind = "upload"
  <2>1. m.block \in Blocks BY <1>2, MsgsAre
  <2>2. PushPiece(m.block) BY <1>2 DEF ApplyMsg
  <2>3. CASE Refuse(m.block)
    BY <1>0, <2>1, <2>3, AddedReject DEF Refuse, PiecePending
  <2>4. CASE Enqueue(m.block) /\ PiecePending < PieceMax
    BY <1>0, <2>1, <2>4 DEF Enqueue, PiecePending
  <2>5. PiecePending \in Nat BY <1>0 DEF PiecePending
  <2> QED BY <1>0, <2>2, <2>3, <2>4, <2>5 DEF PushPiece
<1>3. CASE m.kind = "cancel"
  <2>1. m.block \in Blocks BY <1>3, MsgsAre
  <2>2. CancelPiece(m.block) BY <1>3 DEF ApplyMsg
  <2> DEFINE left == RemoveFirst(pieces, m.block)
  <2>3. left \in Seq(Blocks) /\ Len(left) <= Len(pieces) BY <1>0, Removed
  <2> HIDE DEF left
  <2>4. /\ pieces' = left /\ (active' = active \/ active' = Idle)
        /\ withdrawn' \subseteq Blocks /\ gap' \in Nat /\ ctrl' = ctrl
        /\ pending' = pending \/ pending' = Count(left, active')
    BY <1>0, <2>1, <2>2 DEF CancelPiece, TakeBack, CountGap, left
  <2>5. Len(left) + (IF active'.kind = "piece" THEN 1 ELSE 0) \in 0..PieceMax
    BY <1>0, <2>3, <2>4, ActivesAre DEF PiecePending
  <2> QED BY <1>0, <2>3, <2>4, <2>5, ActivesAre DEF Count
<1>4. CASE m.kind = "clear"
  <2>1. ClearAll BY <1>4 DEF ApplyMsg
  <2>2. /\ pieces' = <<>> /\ (active' = active \/ active' = Idle)
        /\ withdrawn' \subseteq Blocks /\ gap' \in Nat /\ ctrl' = ctrl
        /\ pending' = Count(<<>>, active')
    BY <1>0, <2>1 DEF ClearAll, TakeBack, CountGap
  <2>3. Len(<<>>) = 0 /\ <<>> \in Seq(Blocks) OBVIOUS
  <2> QED BY <1>0, <2>2, <2>3, ActivesAre DEF Count, PiecePending
<1>5. CASE m.kind = "done"
  BY <1>0, <1>5 DEF ApplyMsg, PiecePending
<1> QED BY <1>1, <1>2, <1>3, <1>4, <1>5, MsgsAre

\* A frame on the wire: an answer more, and what the remote learns.
LEMMA OnWireType ==
  ASSUME NEW a, OnWire(a), sent \in [Blocks -> Nat], remoteView \subseteq Pieces,
         a.kind = "ctrl" => a.frames \in Seq(Frames),
         a.kind # "ctrl" => a.block \in Blocks
  PROVE  remoteView' \subseteq Pieces /\ sent' \in [Blocks -> Nat]
<1>1. CASE a.kind = "ctrl"
  <2>1. \A b \in Blocks : Rejections(a.frames, b) \in Nat BY <1>1, TimesNat DEF Rejections
  <2>2. \A b \in Blocks : sent[b] + Rejections(a.frames, b) \in Nat BY <2>1
  <2>3. sent' = [b \in Blocks |-> sent[b] + Rejections(a.frames, b)] BY <1>1 DEF OnWire
  <2>4. remoteView' \subseteq Pieces BY <1>1 DEF OnWire, Learn
  <2> QED BY <2>2, <2>3, <2>4
<1>2. CASE a.kind # "ctrl" BY <1>2 DEF OnWire
<1> QED BY <1>1, <1>2

\* The seven groups of facts the steps are proved for.
LEMMA ShapeStep ==
  ASSUME UploadShape, UploadAssumption, [Next]_vars
  PROVE  UploadShape'
<1>0. /\ ctrl \in Seq(Chunks) /\ pieces \in Seq(Blocks) /\ active \in Active
      /\ Chunks = Seq(Frames) \ {<<>>}
      /\ PieceMax \in Nat \ {0} /\ Len(pieces) \in Nat
      /\ NoBlock \notin Blocks /\ MaxMsgs \in Nat /\ MaxTrouble \in Nat /\ MaxIdle \in Nat
  BY DEF UploadShape, TypeOK, Chunks, UploadAssumption, Together
<1>1. ASSUME NEW i \in Pieces, MarkHave(i) PROVE UploadShape'
  BY ZenonT(60), <1>1, <1>0, FramesAre, MsgsAre, ActivesAre DEF UploadShape, TypeOK, Together, PiecePending, MarkHave, sessionVars, queueVars, torrentVars, history, bounds, ReaderUnchanged, WriterUnchanged, Listening
<1>2. ASSUME NEW i \in Pieces, Publish(i) PROVE UploadShape'
  <2>1. haveRx' \in Seq(Pieces) /\ i \in Pieces BY <1>2, <1>0 DEF Publish, UploadShape, TypeOK, Together
  <2>2. TypeOK'
    BY <2>1, <1>2, <1>0 DEF UploadShape, TypeOK, PiecePending, Publish, sessionVars, queueVars, torrentVars, history, bounds, ReaderUnchanged, WriterUnchanged, Listening, Together
  <2>3. Together'
    BY <2>1, <1>2, <1>0 DEF UploadShape, TypeOK, Together, PiecePending, Publish, sessionVars, queueVars, torrentVars, history, bounds, ReaderUnchanged, WriterUnchanged, Listening
  <2> QED BY <2>2, <2>3 DEF UploadShape
<1>3. ASSUME Subscribe PROVE UploadShape'
  BY <1>3, <1>0, FramesAre, MsgsAre, ActivesAre DEF UploadShape, TypeOK, Together, PiecePending, Subscribe, sessionVars, queueVars, torrentVars, history, bounds, ReaderUnchanged, WriterUnchanged, Listening
<1>4. ASSUME Snapshot PROVE UploadShape'
  <2>1. /\ hello' \in {<<S>> : S \in SUBSET Pieces} /\ hello' # NoHello BY <1>4 DEF Snapshot, UploadShape, TypeOK, NoHello, Together
  <2>2. TypeOK'
    BY <2>1, <1>4, <1>0, FramesAre, MsgsAre, ActivesAre DEF UploadShape, TypeOK, PiecePending, Snapshot, sessionVars, queueVars, torrentVars, history, bounds, ReaderUnchanged, WriterUnchanged, Listening, Together
  <2>3. Together'
    BY <2>1, <1>4, <1>0, FramesAre, MsgsAre, ActivesAre DEF UploadShape, TypeOK, Together, PiecePending, Snapshot, sessionVars, queueVars, torrentVars, history, bounds, ReaderUnchanged, WriterUnchanged, Listening
  <2> QED BY <2>2, <2>3 DEF UploadShape
<1>5. ASSUME WriteHello PROVE UploadShape'
  BY <1>5, <1>0, FramesAre, MsgsAre, ActivesAre DEF UploadShape, TypeOK, Together, PiecePending, WriteHello, sessionVars, queueVars, torrentVars, history, bounds, ReaderUnchanged, WriterUnchanged, Listening
<1>6. ASSUME WriteLateHaves PROVE UploadShape'
  <2>1. haveRx' \in Seq(Pieces) /\ ToSet(haveRx) \subseteq Pieces BY <1>6 DEF WriteLateHaves, UploadShape, TypeOK, ToSet, Together
  <2>2. writer = "start" BY <1>6 DEF WriteLateHaves, UploadShape, Together
  <2>3. TypeOK'
    BY <2>1, <2>2, <1>6, <1>0 DEF UploadShape, TypeOK, PiecePending, WriteLateHaves, sessionVars, queueVars, torrentVars, history, bounds, ReaderUnchanged, WriterUnchanged, Listening, Together
  <2>4. Together'
    BY <2>1, <2>2, <1>6, <1>0 DEF UploadShape, TypeOK, Together, PiecePending, WriteLateHaves, sessionVars, queueVars, torrentVars, history, bounds, ReaderUnchanged, WriterUnchanged, Listening
  <2> QED BY <2>3, <2>4 DEF UploadShape
<1>7. ASSUME NEW b \in Blocks, OnRequest(b) PROVE UploadShape'
  <2>1. cmd' \in Seq(WriterMsg)
    <3>1. cmd \in Seq(WriterMsg) BY DEF UploadShape, TypeOK, Together
    <3>2. Upload(b) \in WriterMsg /\ Ctrl(Reject(b)) \in WriterMsg BY MsgsAre, FramesAre
    <3> QED BY <3>1, <3>2, <1>7 DEF OnRequest
  <2>2. TypeOK'
    BY <2>1, <1>7, <1>0 DEF UploadShape, TypeOK, PiecePending, OnRequest, sessionVars, queueVars, torrentVars, history, bounds, ReaderUnchanged, WriterUnchanged, Listening, Together
  <2>3. Together'
    BY <2>1, <1>7, <1>0 DEF UploadShape, TypeOK, Together, PiecePending, OnRequest, sessionVars, queueVars, torrentVars, history, bounds, ReaderUnchanged, WriterUnchanged, Listening
  <2> QED BY <2>2, <2>3 DEF UploadShape
<1>8. ASSUME NEW b \in Blocks, OnCancel(b) PROVE UploadShape'
  <2>1. cmd' \in Seq(WriterMsg) BY <1>8, MsgsAre DEF OnCancel, UploadShape, TypeOK, Together
  <2>2. TypeOK'
    BY <2>1, <1>8, <1>0 DEF UploadShape, TypeOK, PiecePending, OnCancel, sessionVars, queueVars, torrentVars, history, bounds, ReaderUnchanged, WriterUnchanged, Listening, Together
  <2>3. Together'
    BY <2>1, <1>8, <1>0 DEF UploadShape, TypeOK, Together, PiecePending, OnCancel, sessionVars, queueVars, torrentVars, history, bounds, ReaderUnchanged, WriterUnchanged, Listening
  <2> QED BY <2>2, <2>3 DEF UploadShape
<1>9. ASSUME OnInterested PROVE UploadShape'
  BY <1>9, <1>0, FramesAre, MsgsAre, ActivesAre DEF UploadShape, TypeOK, Together, PiecePending, OnInterested, sessionVars, queueVars, torrentVars, history, bounds, ReaderUnchanged, WriterUnchanged, Listening
<1>10. ASSUME OnNotInterested PROVE UploadShape'
  <2>1. cmd' \in Seq(WriterMsg) BY <1>10, MsgsAre DEF OnNotInterested, UploadShape, TypeOK, Together
  <2>2. msgs' \in 0..MaxMsgs BY <1>10, <1>0 DEF OnNotInterested, Listening, UploadShape, TypeOK, Together
  <2>3. interested' = FALSE BY <1>10 DEF OnNotInterested
  <2>4. TypeOK'
    BY <2>1, <2>2, <2>3, <1>10, <1>0 DEF UploadShape, TypeOK, PiecePending, OnNotInterested, sessionVars, queueVars, torrentVars, history, bounds, ReaderUnchanged, WriterUnchanged, Listening, Together
  <2>5. Together'
    BY <2>1, <2>2, <2>3, <1>10, <1>0 DEF UploadShape, TypeOK, Together, PiecePending, OnNotInterested, sessionVars, queueVars, torrentVars, history, bounds, ReaderUnchanged, WriterUnchanged, Listening
  <2> QED BY <2>4, <2>5 DEF UploadShape
<1>11. ASSUME LeechComplete PROVE UploadShape'
  <2>1. cmd' \in Seq(WriterMsg)
    <3>1. cmd \in Seq(WriterMsg) /\ have \in SUBSET Pieces BY DEF UploadShape, TypeOK, Together
    <3>2. Ctrl(Possession(have)) \in WriterMsg /\ ReaderDone \in WriterMsg BY <3>1, MsgsAre, FramesAre
    <3> QED BY <3>1, <3>2, <1>11 DEF LeechComplete
  <2>2. TypeOK'
    BY <2>1, <1>11, <1>0 DEF UploadShape, TypeOK, PiecePending, LeechComplete, sessionVars, queueVars, torrentVars, history, bounds, ReaderUnchanged, WriterUnchanged, Listening, Together
  <2>3. Together'
    BY <2>1, <1>11, <1>0 DEF UploadShape, TypeOK, Together, PiecePending, LeechComplete, sessionVars, queueVars, torrentVars, history, bounds, ReaderUnchanged, WriterUnchanged, Listening
  <2> QED BY <2>2, <2>3 DEF UploadShape
<1>12. ASSUME Stop PROVE UploadShape'
  BY <1>12, <1>0, FramesAre, MsgsAre, ActivesAre DEF UploadShape, TypeOK, Together, PiecePending, Stop, sessionVars, queueVars, torrentVars, history, bounds, ReaderUnchanged, WriterUnchanged, Listening
<1>13. ASSUME NEW t \in BOOLEAN, ReaderEnds(t) PROVE UploadShape'
  <2>1. cmd' \in Seq(WriterMsg) BY <1>13, MsgsAre DEF ReaderEnds, UploadShape, TypeOK, Together
  <2>2. TypeOK'
    BY <2>1, <1>13, <1>0 DEF UploadShape, TypeOK, PiecePending, ReaderEnds, sessionVars, queueVars, torrentVars, history, bounds, ReaderUnchanged, WriterUnchanged, Listening, Together
  <2>3. Together'
    BY <2>1, <1>13, <1>0 DEF UploadShape, TypeOK, Together, PiecePending, ReaderEnds, sessionVars, queueVars, torrentVars, history, bounds, ReaderUnchanged, WriterUnchanged, Listening
  <2> QED BY <2>2, <2>3 DEF UploadShape
<1>14. ASSUME KeepAliveTimer PROVE UploadShape'
  <2>1. ctrl' \in Seq(Chunks) BY <1>0, <1>14, AddedCtrl, FramesAre DEF KeepAliveTimer
  <2>2. TypeOK'
    BY <2>1, <1>14, <1>0 DEF UploadShape, TypeOK, PiecePending, KeepAliveTimer, sessionVars, queueVars, torrentVars, history, bounds, ReaderUnchanged, WriterUnchanged, Listening, Together
  <2>3. Together'
    BY <2>1, <1>14, <1>0 DEF UploadShape, TypeOK, Together, PiecePending, KeepAliveTimer, sessionVars, queueVars, torrentVars, history, bounds, ReaderUnchanged, WriterUnchanged, Listening
  <2> QED BY <2>2, <2>3 DEF UploadShape
<1>15. ASSUME TakeMsg PROVE UploadShape'
  <2>1. cmd \in Seq(WriterMsg) /\ cmd # <<>> BY <1>15 DEF TakeMsg, UploadShape, TypeOK, Together
  <2>2. Head(cmd) \in WriterMsg /\ cmd' \in Seq(WriterMsg) BY <2>1, <1>15 DEF TakeMsg
  <2>3. filling = NoBlock /\ ApplyMsg(Head(cmd)) BY <1>15 DEF TakeMsg, UploadShape, Together
  <2>4. /\ ctrl' \in Seq(Chunks) /\ pieces' \in Seq(Blocks) /\ active' \in Active
        /\ active' = active \/ active' = Idle
        /\ Len(pieces') + (IF active'.kind = "piece" THEN 1 ELSE 0) <= PieceMax
        /\ pending' \in 0..PieceMax /\ withdrawn' \subseteq Blocks /\ gap' \in Nat
    BY <2>2, <2>3, ApplyMsgShape
  <2>5. TypeOK'
    BY <2>1, <2>2, <2>3, <2>4, <1>15, <1>0, FramesAre, MsgsAre, ActivesAre DEF UploadShape, TypeOK, PiecePending, TakeMsg, sessionVars, queueVars, torrentVars, history, bounds, ReaderUnchanged, WriterUnchanged, Listening, Together
  <2>6. Together'
    BY <2>1, <2>2, <2>3, <2>4, <1>15, <1>0, FramesAre, MsgsAre, ActivesAre DEF UploadShape, TypeOK, Together, PiecePending, TakeMsg, sessionVars, queueVars, torrentVars, history, bounds, ReaderUnchanged, WriterUnchanged, Listening
  <2> QED BY <2>5, <2>6 DEF UploadShape
<1>16. ASSUME TakeHaves PROVE UploadShape'
  <2>1. ctrl' \in Seq(Chunks) BY <1>0, <1>16, AddedHaves DEF TakeHaves
  <2>2. TypeOK'
    BY <2>1, <1>16, <1>0 DEF UploadShape, TypeOK, PiecePending, TakeHaves, sessionVars, queueVars, torrentVars, history, bounds, ReaderUnchanged, WriterUnchanged, Listening, Together
  <2>3. Together'
    BY <2>1, <1>16, <1>0 DEF UploadShape, TypeOK, Together, PiecePending, TakeHaves, sessionVars, queueVars, torrentVars, history, bounds, ReaderUnchanged, WriterUnchanged, Listening
  <2> QED BY <2>2, <2>3 DEF UploadShape
<1>17. ASSUME WakeForHave PROVE UploadShape'
  BY <1>17, <1>0, FramesAre, MsgsAre, ActivesAre DEF UploadShape, TypeOK, Together, PiecePending, WakeForHave, sessionVars, queueVars, torrentVars, history, bounds, ReaderUnchanged, WriterUnchanged, Listening
<1>18. ASSUME PickCtrl PROVE UploadShape'
  BY <1>18, <1>0, FramesAre, MsgsAre, ActivesAre DEF UploadShape, TypeOK, Together, PiecePending, PickCtrl, sessionVars, queueVars, torrentVars, history, bounds, ReaderUnchanged, WriterUnchanged, Listening
<1>19. ASSUME PickPiece PROVE UploadShape'
  BY <1>19, <1>0, FramesAre, MsgsAre, ActivesAre DEF UploadShape, TypeOK, Together, PiecePending, PickPiece, sessionVars, queueVars, torrentVars, history, bounds, ReaderUnchanged, WriterUnchanged, Listening
<1>20. ASSUME FillOk PROVE UploadShape'
  <2>1. filling \in Blocks /\ active = Idle /\ mode.rc4 \in BOOLEAN
    BY <1>20, <1>0 DEF FillOk, UploadShape, TypeOK, UploadAssumption, Together
  <2>2. [kind |-> "piece", block |-> filling, cipher |-> mode.rc4] \in Active BY <2>1, ActivesAre
  <2>3. TypeOK'
    BY <2>1, <2>2, <1>20, <1>0, FramesAre, MsgsAre, ActivesAre DEF UploadShape, TypeOK, PiecePending, FillOk, Go, RateLimited, sessionVars, queueVars, torrentVars, history, bounds, ReaderUnchanged, WriterUnchanged, Listening, Together
  <2>4. Together'
    BY <2>1, <2>2, <1>20, <1>0, FramesAre, MsgsAre, ActivesAre DEF UploadShape, TypeOK, Together, PiecePending, FillOk, Go, RateLimited, sessionVars, queueVars, torrentVars, history, bounds, ReaderUnchanged, WriterUnchanged, Listening
  <2> QED BY <2>3, <2>4 DEF UploadShape
<1>21. ASSUME FillFails PROVE UploadShape'
  <2>1. filling \in Blocks /\ active = Idle BY <1>21, <1>0 DEF FillFails, UploadShape, TypeOK, Together
  <2>2. ctrl' \in Seq(Chunks) BY <2>1, <1>21, AddedReject DEF FillFails
  <2>a. writer' \in {"send", "gather"} /\ filling' = NoBlock /\ trouble' \in 0..MaxTrouble
    BY <1>21, <1>0 DEF FillFails, UploadShape, TypeOK
  <2>b. pending' \in 0..PieceMax
    <3>1. PiecePending + (IF filling # NoBlock THEN 1 ELSE 0) <= PieceMax BY DEF UploadShape, Together
    <3>4. PiecePending \in Nat BY <1>0 DEF PiecePending
    <3>2. PiecePending \in 0..PieceMax BY <3>1, <3>4, <1>0
    <3>3. pending \in 0..PieceMax BY DEF UploadShape, TypeOK
    <3> QED BY <1>21, <3>2, <3>3 DEF FillFails
  <2>c. UNCHANGED <<mode, have, unpublished, haveRx, subscribed, hello, reader, interested, leeching, stop,
                    cmd, pieces, active, keepalive, remoteView, sent, withdrawn, gap, msgs, idle>>
    BY <1>21 DEF FillFails, WriterUnchanged, torrentVars, sessionVars, history
  <2>3. TypeOK' BY <2>2, <2>a, <2>b, <2>c, <1>0 DEF UploadShape, TypeOK
  <2>4. Together'
    BY <2>1, <2>2, <1>21, <1>0, FramesAre, MsgsAre, ActivesAre DEF UploadShape, TypeOK, Together, PiecePending, FillFails, sessionVars, queueVars, torrentVars, history, bounds, ReaderUnchanged, WriterUnchanged, Listening
  <2> QED BY <2>3, <2>4 DEF UploadShape
<1>22. ASSUME Resume PROVE UploadShape'
  <2>1. pending' \in 0..PieceMax /\ active' = active BY <1>22, <1>0 DEF Resume, Go, RateLimited, UploadShape, TypeOK, Together, PiecePending
  <2>2. TypeOK'
    BY <2>1, <1>22, <1>0, FramesAre, MsgsAre, ActivesAre DEF UploadShape, TypeOK, PiecePending, Resume, Go, RateLimited, sessionVars, queueVars, torrentVars, history, bounds, ReaderUnchanged, WriterUnchanged, Listening, Together
  <2>3. Together'
    BY <2>1, <1>22, <1>0, FramesAre, MsgsAre, ActivesAre DEF UploadShape, TypeOK, Together, PiecePending, Resume, Go, RateLimited, sessionVars, queueVars, torrentVars, history, bounds, ReaderUnchanged, WriterUnchanged, Listening
  <2> QED BY <2>2, <2>3 DEF UploadShape
<1>23. ASSUME WakeUp PROVE UploadShape'
  BY <1>23, <1>0, FramesAre, MsgsAre, ActivesAre DEF UploadShape, TypeOK, Together, PiecePending, WakeUp, sessionVars, queueVars, torrentVars, history, bounds, ReaderUnchanged, WriterUnchanged, Listening
<1>24. ASSUME Written PROVE UploadShape'
  <2>1. active.kind = "ctrl" \/ active.kind = "piece" BY <1>24, <1>0, ActivesAre DEF Written, UploadShape, Together
  <2>2. remoteView' \subseteq Pieces /\ sent' \in [Blocks -> Nat] BY <2>1, <1>24, <1>0, OnWireType, ActivesAre DEF Written, UploadShape, TypeOK, Together
  <2>3. active' \in Active /\ active' = Idle /\ Idle.kind = "none" /\ filling = NoBlock BY <1>24, <1>0, ActivesAre DEF Written, UploadShape, Together
  <2>4. TypeOK'
    BY <2>1, <2>2, <2>3, <1>24, <1>0 DEF UploadShape, TypeOK, PiecePending, Written, sessionVars, queueVars, torrentVars, history, bounds, ReaderUnchanged, WriterUnchanged, Listening, Together
  <2>5. Together'
    BY <2>1, <2>2, <2>3, <1>24, <1>0 DEF UploadShape, TypeOK, Together, PiecePending, Written, sessionVars, queueVars, torrentVars, history, bounds, ReaderUnchanged, WriterUnchanged, Listening
  <2> QED BY <2>4, <2>5 DEF UploadShape
<1>25. ASSUME SendEnds PROVE UploadShape'
  BY <1>25, <1>0, FramesAre, MsgsAre, ActivesAre DEF UploadShape, TypeOK, Together, PiecePending, SendEnds, sessionVars, queueVars, torrentVars, history, bounds, ReaderUnchanged, WriterUnchanged, Listening
<1>26. ASSUME WriteFails PROVE UploadShape'
  <2>1. cmd' \in Seq(WriterMsg) /\ ctrl' \in Seq(Chunks) /\ pieces' \in Seq(Blocks) /\ Len(pieces') = 0
    <3>1. <<>> \in Seq(WriterMsg) /\ <<>> \in Seq(Chunks) /\ <<>> \in Seq(Blocks) /\ Len(<<>>) = 0 OBVIOUS
    <3>2. cmd' = <<>> /\ ctrl' = <<>> /\ pieces' = <<>> BY <1>26 DEF WriteFails
    <3>3. cmd' \in Seq(WriterMsg) BY <3>2
    <3>4. ctrl' \in Seq(Chunks) BY <3>2
    <3>5. pieces' \in Seq(Blocks) /\ Len(pieces') = 0 BY <3>2
    <3> QED BY <3>3, <3>4, <3>5
  <2>2. filling = NoBlock /\ filling' = NoBlock /\ writer # "start" BY <1>26, <1>0 DEF WriteFails, UploadShape, Together
  <2>3. pending' \in 0..PieceMax
    <3>1. PiecePending <= PieceMax /\ PiecePending \in Nat BY <2>2, <1>0 DEF UploadShape, Together, PiecePending
    <3> QED BY <3>1, <1>26, <1>0 DEF WriteFails
  <2>4. trouble' \in 0..MaxTrouble /\ active' \in Active BY <1>26, <1>0, ActivesAre DEF WriteFails, UploadShape, TypeOK, Together
  <2>5. TypeOK'
    BY <2>1, <2>2, <2>3, <2>4, <1>26, <1>0 DEF UploadShape, TypeOK, PiecePending, WriteFails, sessionVars, queueVars, torrentVars, history, bounds, ReaderUnchanged, WriterUnchanged, Listening, Together
  <2>6. Together'
    BY <2>1, <2>2, <2>3, <2>4, <1>26, <1>0 DEF UploadShape, TypeOK, Together, PiecePending, WriteFails, sessionVars, queueVars, torrentVars, history, bounds, ReaderUnchanged, WriterUnchanged, Listening
  <2> QED BY <2>5, <2>6 DEF UploadShape
<1>27. ASSUME LeaveLoop PROVE UploadShape'
  BY <1>27, <1>0, FramesAre, MsgsAre, ActivesAre DEF UploadShape, TypeOK, Together, PiecePending, LeaveLoop, sessionVars, queueVars, torrentVars, history, bounds, ReaderUnchanged, WriterUnchanged, Listening
<1>28. ASSUME Flush PROVE UploadShape'
  <2>1. pieces' \in Seq(Blocks) /\ Len(pieces') = 0 /\ gap' \in Nat BY <1>28 DEF Flush, CountGap, UploadShape, TypeOK, Together
  <2>2. active' \in Active /\ active' \in {active, Idle} BY <1>28, <1>0, ActivesAre DEF Flush
  <2>3. TypeOK'
    BY <2>1, <2>2, <1>28, <1>0, FramesAre, MsgsAre, ActivesAre DEF UploadShape, TypeOK, PiecePending, Flush, sessionVars, queueVars, torrentVars, history, bounds, ReaderUnchanged, WriterUnchanged, Listening, Together
  <2>4. Together'
    BY <2>1, <2>2, <1>28, <1>0, FramesAre, MsgsAre, ActivesAre DEF UploadShape, TypeOK, Together, PiecePending, Flush, sessionVars, queueVars, torrentVars, history, bounds, ReaderUnchanged, WriterUnchanged, Listening
  <2> QED BY <2>3, <2>4 DEF UploadShape
<1>29. ASSUME FlushWrite PROVE UploadShape'
  <2>1. CASE active # Idle
    <3>1. active.kind = "ctrl" \/ active.kind = "piece" BY <2>1, <1>0, ActivesAre
    <3>2. OnWire(active) /\ active' = Idle /\ ctrl' = ctrl BY <2>1, <1>29 DEF FlushWrite
    <3>3. remoteView' \subseteq Pieces /\ sent' \in [Blocks -> Nat]
      BY <3>1, <3>2, <1>0, OnWireType, ActivesAre DEF UploadShape, TypeOK, Together
    <3> QED BY <3>2, <3>3, <1>0, <1>29, ActivesAre DEF FlushWrite, UploadShape, TypeOK, Together, PiecePending, sessionVars, queueVars, torrentVars, history, bounds, ReaderUnchanged, WriterUnchanged, Listening
  <2>2. CASE active = Idle
    <3> DEFINE fs == Head(ctrl)
               a == [kind |-> "ctrl", frames |-> fs]
    <3>1. fs \in Seq(Frames) /\ Tail(ctrl) \in Seq(Chunks) BY <2>2, <1>29, <1>0 DEF FlushWrite
    <3>2. OnWire(a) /\ active' = active /\ ctrl' = Tail(ctrl) BY <2>2, <1>29 DEF FlushWrite
    <3>3. a.kind = "ctrl" /\ a.frames = fs OBVIOUS
    <3> HIDE DEF a, fs
    <3>4. remoteView' \subseteq Pieces /\ sent' \in [Blocks -> Nat]
      BY <3>1, <3>2, <3>3, OnWireType DEF UploadShape, TypeOK, Together
    <3> QED BY <3>1, <3>2, <3>4, <1>0, <1>29 DEF FlushWrite, UploadShape, TypeOK, Together, PiecePending, sessionVars, queueVars, torrentVars, history, bounds, ReaderUnchanged, WriterUnchanged, Listening
  <2>3. TypeOK'
    BY <2>1, <2>2, <1>29, <1>0 DEF UploadShape, TypeOK, PiecePending, FlushWrite, sessionVars, queueVars, torrentVars, history, bounds, ReaderUnchanged, WriterUnchanged, Listening, Together
  <2>4. Together'
    BY <2>1, <2>2, <1>29, <1>0 DEF UploadShape, TypeOK, Together, PiecePending, FlushWrite, sessionVars, queueVars, torrentVars, history, bounds, ReaderUnchanged, WriterUnchanged, Listening
  <2> QED BY <2>3, <2>4 DEF UploadShape
<1>30. ASSUME FlushEnds PROVE UploadShape'
  BY <1>30, <1>0, FramesAre, MsgsAre, ActivesAre DEF UploadShape, TypeOK, Together, PiecePending, FlushEnds, sessionVars, queueVars, torrentVars, history, bounds, ReaderUnchanged, WriterUnchanged, Listening
<1>31. CASE UNCHANGED vars BY ZenonT(60), <1>31, <1>0 DEF UploadShape, TypeOK, Together, PiecePending, vars
<1> QED BY <1>1, <1>2, <1>3, <1>4, <1>5, <1>6, <1>7, <1>8, <1>9, <1>10, <1>11, <1>12, <1>13, <1>14, <1>15, <1>16, <1>17, <1>18, <1>19, <1>20, <1>21, <1>22, <1>23, <1>24, <1>25, <1>26, <1>27, <1>28, <1>29, <1>30, <1>31 DEF Next, HelloNext, WriterNext

\* The initial state satisfies UploadShape.
LEMMA ShapeInit == Init /\ UploadAssumption => UploadShape
<1> SUFFICES ASSUME Init, UploadAssumption PROVE UploadShape OBVIOUS
<1>1. /\ <<>> \in Seq(Pieces) /\ <<>> \in Seq(WriterMsg) /\ <<>> \in Seq(Seq(Frames) \ {<<>>})
      /\ <<>> \in Seq(Blocks) /\ Len(<<>>) = 0
  OBVIOUS
<1>2. PieceMax \in Nat \ {0} /\ MaxMsgs \in Nat /\ MaxTrouble \in Nat /\ MaxIdle \in Nat
  BY DEF UploadAssumption
<1>3. TypeOK
  <2>1. /\ cmd \in Seq(WriterMsg) /\ ctrl \in Seq(Seq(Frames) \ {<<>>})
        /\ pieces \in Seq(Blocks) /\ Len(pieces) <= PieceMax /\ haveRx \in Seq(Pieces)
    BY <1>1, <1>2 DEF Init
  <2>2. active \in Active /\ filling \in Blocks \cup {NoBlock} BY ActivesAre DEF Init
  <2>3. pending \in 0..PieceMax /\ msgs \in 0..MaxMsgs /\ trouble \in 0..MaxTrouble /\ idle \in 0..MaxIdle
    BY <1>2 DEF Init
  <2>4. /\ mode \in Modes /\ have \subseteq Pieces /\ unpublished \subseteq have
        /\ subscribed \in BOOLEAN /\ hello \in {NoHello} \cup {<<S>> : S \in SUBSET Pieces}
        /\ reader \in {"start", "hello", "late", "on", "done"}
        /\ interested \in BOOLEAN /\ leeching \in BOOLEAN /\ stop \in BOOLEAN
        /\ writer \in {"start", "gather", "send", "writing", "sleep", "idle", "flush", "last", "done"}
    BY DEF Init
  <2>5. /\ keepalive \in BOOLEAN /\ remoteView \subseteq Pieces /\ sent \in [Blocks -> Nat]
        /\ withdrawn \subseteq Blocks /\ gap \in Nat
    BY DEF Init
  <2> QED BY <2>1, <2>2, <2>3, <2>4, <2>5 DEF TypeOK
<1>4. PiecePending = 0 /\ filling = NoBlock BY <1>1, ActivesAre DEF Init, PiecePending
<1>5. Together BY <1>2, <1>4 DEF Init, Together
<1> QED BY <1>3, <1>5 DEF UploadShape

\* UploadShape always holds.
LEMMA ShapeAlways == Spec => []UploadShape
<1>1. Init => UploadShape BY ShapeInit, UploadAssumption
<1>2. UploadShape /\ [Next]_vars => UploadShape' BY ShapeStep, UploadAssumption
<1> QED BY <1>1, <1>2, PTL DEF Spec

\* Every variable of a session keeps its type: the queue of PIECEs never
\* exceeds piece_max, with the active one and the one being read included
\* (OutQueue::try_push_piece), and no chunk of control frames is empty.
THEOREM UploadTypeCorrect == Spec => []TypeOK
BY ShapeAlways, PTL DEF UploadShape

-----------------------------------------------------------------------------
(* What was encrypted is written; what a waiting writer has published.     *)

\* No step drops a PIECE that RC4 has run over: cancel_piece and clear_pieces
\* ask can_abort first, a PIECE that waits for tokens stays active, and the
\* final flush writes it.
THEOREM CipherNeverOutOfStep == Spec => []CipherInStep
<1>1. Init => CipherInStep BY DEF Init, CipherInStep
<1>2. ASSUME UploadShape, CipherInStep, [Next]_vars PROVE CipherInStep'
  <2>1. ASSUME NEW B, NEW left, TakeBack(B, left) PROVE gap' = gap
    BY <2>1 DEF TakeBack, CountGap, Encrypted
  <2>2. ASSUME NEW m \in WriterMsg, ApplyMsg(m) PROVE gap' = gap
    <3>1. CASE m.kind = "upload" BY <2>2, <3>1 DEF ApplyMsg, PushPiece, Refuse, Enqueue
    <3>2. CASE m.kind = "cancel" BY <2>1, <2>2, <3>2 DEF ApplyMsg, CancelPiece
    <3>3. CASE m.kind = "clear" BY <2>1, <2>2, <3>3 DEF ApplyMsg, ClearAll
    <3>4. CASE m.kind \in {"ctrl", "done"} BY <2>2, <3>4 DEF ApplyMsg
    <3> QED BY <3>1, <3>2, <3>3, <3>4, MsgsAre
  <2>3. ASSUME TakeMsg PROVE gap' = gap
    <3>1. Head(cmd) \in WriterMsg BY <1>2, <2>3 DEF TakeMsg, UploadShape, TypeOK
    <3> QED BY <2>2, <2>3, <3>1 DEF TakeMsg
  <2>4. Flush => gap' = gap BY DEF Flush, CountGap, Encrypted
  <2>5. Next => gap' = gap
    BY <2>3, <2>4 DEF Next, HelloNext, WriterNext, MarkHave, Publish, Subscribe, Snapshot,
       WriteHello, WriteLateHaves, OnRequest, OnCancel, OnInterested, OnNotInterested,
       LeechComplete, Stop, ReaderEnds, KeepAliveTimer, TakeHaves, WakeForHave, PickCtrl,
       PickPiece, FillOk, FillFails, Resume, WakeUp, Written, SendEnds, WriteFails, LeaveLoop,
       FlushWrite, FlushEnds, ReaderUnchanged, history
  <2> QED BY <1>2, <2>5 DEF CipherInStep, vars
<1> QED BY <1>1, <1>2, ShapeAlways, PTL DEF Spec

\* The count is true from the moment the writer gathers: commands keep it so,
\* and every way out of send_quantum publishes it again.
PendingInv == writer \in {"start", "gather", "idle", "sleep"} => pending = PiecePending

\* Every step keeps PendingInv.
LEMMA PendingStep ==
  ASSUME UploadShape, PendingInv, [Next]_vars
  PROVE  PendingInv'
<1>0. pieces \in Seq(Blocks) /\ active \in Active /\ Len(pieces) \in Nat /\ Idle.kind = "none"
  BY ActivesAre DEF UploadShape, TypeOK
<1>1. ASSUME NEW i \in Pieces, MarkHave(i) PROVE PendingInv'
  BY <1>1, <1>0 DEF PendingInv, PiecePending, MarkHave, sessionVars, queueVars, torrentVars, history, bounds, ReaderUnchanged, WriterUnchanged
<1>2. ASSUME NEW i \in Pieces, Publish(i) PROVE PendingInv'
  BY <1>2, <1>0 DEF PendingInv, PiecePending, Publish, sessionVars, queueVars, torrentVars, history, bounds, ReaderUnchanged, WriterUnchanged
<1>3. ASSUME Subscribe PROVE PendingInv'
  BY <1>3, <1>0 DEF PendingInv, PiecePending, Subscribe, sessionVars, queueVars, torrentVars, history, bounds, ReaderUnchanged, WriterUnchanged
<1>4. ASSUME Snapshot PROVE PendingInv'
  BY <1>4, <1>0 DEF PendingInv, PiecePending, Snapshot, sessionVars, queueVars, torrentVars, history, bounds, ReaderUnchanged, WriterUnchanged
<1>5. ASSUME WriteHello PROVE PendingInv'
  BY <1>5, <1>0 DEF PendingInv, PiecePending, WriteHello, sessionVars, queueVars, torrentVars, history, bounds, ReaderUnchanged, WriterUnchanged
<1>6. ASSUME WriteLateHaves PROVE PendingInv'
  <2>1. writer = "start" BY <1>6 DEF WriteLateHaves, UploadShape, Together
  <2> QED BY <1>6, <2>1 DEF PendingInv, PiecePending, WriteLateHaves, queueVars
<1>7. ASSUME NEW b \in Blocks, OnRequest(b) PROVE PendingInv'
  BY <1>7, <1>0 DEF PendingInv, PiecePending, OnRequest, sessionVars, queueVars, torrentVars, history, bounds, ReaderUnchanged, WriterUnchanged
<1>8. ASSUME NEW b \in Blocks, OnCancel(b) PROVE PendingInv'
  BY <1>8, <1>0 DEF PendingInv, PiecePending, OnCancel, sessionVars, queueVars, torrentVars, history, bounds, ReaderUnchanged, WriterUnchanged
<1>9. ASSUME OnInterested PROVE PendingInv'
  BY <1>9, <1>0 DEF PendingInv, PiecePending, OnInterested, sessionVars, queueVars, torrentVars, history, bounds, ReaderUnchanged, WriterUnchanged
<1>10. ASSUME OnNotInterested PROVE PendingInv'
  BY <1>10, <1>0 DEF PendingInv, PiecePending, OnNotInterested, sessionVars, queueVars, torrentVars, history, bounds, ReaderUnchanged, WriterUnchanged
<1>11. ASSUME LeechComplete PROVE PendingInv'
  BY <1>11, <1>0 DEF PendingInv, PiecePending, LeechComplete, sessionVars, queueVars, torrentVars, history, bounds, ReaderUnchanged, WriterUnchanged
<1>12. ASSUME Stop PROVE PendingInv'
  BY <1>12, <1>0 DEF PendingInv, PiecePending, Stop, sessionVars, queueVars, torrentVars, history, bounds, ReaderUnchanged, WriterUnchanged
<1>13. ASSUME NEW t \in BOOLEAN, ReaderEnds(t) PROVE PendingInv'
  BY <1>13, <1>0 DEF PendingInv, PiecePending, ReaderEnds, sessionVars, queueVars, torrentVars, history, bounds, ReaderUnchanged, WriterUnchanged
<1>14. ASSUME KeepAliveTimer PROVE PendingInv'
  BY <1>14, <1>0 DEF PendingInv, PiecePending, KeepAliveTimer, sessionVars, queueVars, torrentVars, history, bounds, ReaderUnchanged, WriterUnchanged
<1>15. ASSUME TakeMsg PROVE PendingInv'
  <2>1. pending = PiecePending /\ ApplyMsg(Head(cmd)) BY <1>15 DEF TakeMsg, PendingInv
  <2>2. pending' = PiecePending'
    <3> DEFINE m == Head(cmd)
    <3>1. m \in WriterMsg BY <1>15 DEF TakeMsg, UploadShape, TypeOK
    <3> HIDE DEF m
    <3>2. CASE m.kind = "upload"
      <4>1. m.block \in Blocks /\ PushPiece(m.block) BY <2>1, <3>1, <3>2, MsgsAre DEF ApplyMsg, m
      <4>2. CASE Refuse(m.block) BY <4>2 DEF Refuse, PiecePending
      <4>3. CASE Enqueue(m.block) BY <4>1, <4>3, <1>0 DEF Enqueue, PiecePending
      <4> QED BY <4>1, <4>2, <4>3 DEF PushPiece
    <3>3. CASE m.kind = "cancel"
      BY <2>1, <3>3 DEF ApplyMsg, CancelPiece, TakeBack, Count, PiecePending, m
    <3>4. CASE m.kind = "clear"
      BY <2>1, <3>4 DEF ApplyMsg, ClearAll, TakeBack, Count, PiecePending, m
    <3>5. CASE m.kind \in {"ctrl", "done"}
      BY <2>1, <3>5 DEF ApplyMsg, PiecePending, m
    <3> QED BY <3>1, <3>2, <3>3, <3>4, <3>5, MsgsAre
  <2> QED BY <2>2 DEF PendingInv
<1>16. ASSUME TakeHaves PROVE PendingInv'
  BY <1>16, <1>0 DEF PendingInv, PiecePending, TakeHaves, sessionVars, queueVars, torrentVars, history, bounds, ReaderUnchanged, WriterUnchanged
<1>17. ASSUME WakeForHave PROVE PendingInv'
  BY <1>17, <1>0 DEF PendingInv, PiecePending, WakeForHave, sessionVars, queueVars, torrentVars, history, bounds, ReaderUnchanged, WriterUnchanged
<1>18. ASSUME PickCtrl PROVE PendingInv'
  BY <1>18 DEF PendingInv, PickCtrl
<1>19. ASSUME PickPiece PROVE PendingInv'
  BY <1>19, <1>0 DEF PendingInv, PiecePending, PickPiece, sessionVars, queueVars, torrentVars, history, bounds, ReaderUnchanged, WriterUnchanged
<1>20. ASSUME FillOk PROVE PendingInv'
  <2>1. pending' = PiecePending' \/ writer' = "writing"
    BY <1>20, <1>0 DEF FillOk, Go, RateLimited, PiecePending
  <2> QED BY <2>1 DEF PendingInv
<1>21. ASSUME FillFails PROVE PendingInv'
  BY <1>21, <1>0 DEF PendingInv, PiecePending, FillFails, sessionVars, queueVars, torrentVars, history, bounds, ReaderUnchanged, WriterUnchanged
<1>22. ASSUME Resume PROVE PendingInv'
  <2>1. pending' = PiecePending' \/ writer' = "writing"
    BY <1>22, <1>0 DEF Resume, Go, RateLimited, PiecePending
  <2> QED BY <2>1 DEF PendingInv
<1>23. ASSUME WakeUp PROVE PendingInv'
  BY <1>23, <1>0 DEF PendingInv, PiecePending, WakeUp, sessionVars, queueVars, torrentVars, history, bounds, ReaderUnchanged, WriterUnchanged
<1>24. ASSUME Written PROVE PendingInv'
  BY <1>24 DEF PendingInv, Written
<1>25. ASSUME SendEnds PROVE PendingInv'
  <2>1. pieces = <<>> /\ active = Idle BY <1>25 DEF SendEnds, has_work
  <2> QED BY <1>25, <1>0, <2>1 DEF PendingInv, PiecePending, SendEnds
<1>26. ASSUME WriteFails PROVE PendingInv'
  BY <1>26 DEF PendingInv, WriteFails
<1>27. ASSUME LeaveLoop PROVE PendingInv'
  BY <1>27, <1>0 DEF PendingInv, PiecePending, LeaveLoop, sessionVars, queueVars, torrentVars, history, bounds, ReaderUnchanged, WriterUnchanged
<1>28. ASSUME Flush PROVE PendingInv'
  BY <1>28 DEF PendingInv, Flush
<1>29. ASSUME FlushWrite PROVE PendingInv'
  BY <1>29 DEF PendingInv, FlushWrite
<1>30. ASSUME FlushEnds PROVE PendingInv'
  BY <1>30, <1>0 DEF PendingInv, PiecePending, FlushEnds, sessionVars, queueVars, torrentVars, history, bounds, ReaderUnchanged, WriterUnchanged
<1>31. CASE UNCHANGED vars BY <1>31 DEF PendingInv, PiecePending, vars
<1> QED BY <1>1, <1>2, <1>3, <1>4, <1>5, <1>6, <1>7, <1>8, <1>9, <1>10, <1>11, <1>12, <1>13, <1>14, <1>15, <1>16, <1>17, <1>18, <1>19, <1>20, <1>21, <1>22, <1>23, <1>24, <1>25, <1>26, <1>27, <1>28, <1>29, <1>30, <1>31 DEF Next, HelloNext, WriterNext

\* While the writer sleeps or idles, the count the reader's idle timer looks
\* at (cfg.upload_pending) is the number of blocks the session still owes.
THEOREM IdleTimerSeesTheQueue == Spec => []PendingWhileWaiting
<1>1. Init => PendingInv
  <2>1. Len(<<>>) = 0 OBVIOUS
  <2> QED BY <2>1, ActivesAre DEF Init, PendingInv, PiecePending
<1>2. UploadShape /\ PendingInv /\ [Next]_vars => PendingInv' BY PendingStep
<1>3. PendingInv => PendingWhileWaiting BY DEF PendingInv, PendingWhileWaiting
<1> QED BY <1>1, <1>2, <1>3, ShapeAlways, PTL DEF Spec

-----------------------------------------------------------------------------
(* A block taken back is gone.                                             *)

\* A block is in the queue once, or being read, or the active PIECE: so the
\* one entry cancel_piece removes is the only one.
NoDoubles ==
    /\ \A j, k \in DOMAIN pieces : pieces[j] = pieces[k] => j = k
    /\ \A k \in DOMAIN pieces : filling # pieces[k]
    /\ active.kind = "piece" => \A k \in DOMAIN pieces : pieces[k] # active.block

CancelInv == NoDoubles /\ CancelledIsGone

\* Whoever only shortens the queue, the block being read or the frame in hand
\* disturbs nothing.
LEMMA CancelLess ==
  ASSUME UploadShape, CancelInv, withdrawn' = withdrawn,
         pieces' = pieces \/ pieces' = <<>>,
         active' = active \/ active'.kind # "piece",
         filling' = filling \/ filling' = NoBlock, UploadAssumption
  PROVE  CancelInv'
<1>1. NoBlock \notin Blocks /\ withdrawn \subseteq Blocks /\ pieces \in Seq(Blocks)
      /\ DOMAIN pieces = 1..Len(pieces)
  BY DEF UploadAssumption, UploadShape, TypeOK
<1>2. \A k \in DOMAIN pieces : pieces[k] \in Blocks BY <1>1, ElementOfSeq
<1>3. \A k \in DOMAIN pieces' : k \in DOMAIN pieces /\ pieces'[k] = pieces[k]
  <2>1. CASE pieces' = pieces BY <2>1
  <2>2. CASE pieces' = <<>>
    <3>1. DOMAIN pieces' = {} BY <2>2
    <3> QED BY <3>1
  <2> QED BY <2>1, <2>2
<1>4. NoDoubles' BY <1>1, <1>2, <1>3 DEF CancelInv, NoDoubles
<1>5. ToSet(pieces') \subseteq ToSet(pieces) BY <1>3 DEF ToSet
<1>6. CancelledIsGone' BY <1>1, <1>5 DEF CancelInv, CancelledIsGone, Holds
<1> QED BY <1>4, <1>6 DEF CancelInv

\* Blocks taken back are in no place of the queue afterwards.
LEMMA TakeBackCancels ==
  ASSUME UploadShape, CancelInv, UploadAssumption, filling' = filling, filling = NoBlock,
         NEW B \in SUBSET Blocks, NEW left, TakeBack(B, left),
         left \in Seq(Blocks),
         \E f \in [DOMAIN left -> DOMAIN pieces] :
            /\ \A k \in DOMAIN left : left[k] = pieces[f[k]]
            /\ \A j, k \in DOMAIN left : f[j] = f[k] => j = k,
         ToSet(left) \cap B = {}
  PROVE  CancelInv'
<1>1. NoBlock \notin Blocks /\ withdrawn \subseteq Blocks
  BY DEF UploadAssumption, UploadShape, TypeOK
<1>2. PICK f \in [DOMAIN left -> DOMAIN pieces] :
            /\ \A k \in DOMAIN left : left[k] = pieces[f[k]]
            /\ \A j, k \in DOMAIN left : f[j] = f[k] => j = k
  OBVIOUS
<1>3. /\ pieces' = left /\ (active' = active \/ active' = Idle)
      /\ withdrawn' = withdrawn \cup {b \in B : ~(active'.kind = "piece" /\ active'.block = b)}
  BY DEF TakeBack
<1>4. Idle.kind # "piece" BY ActivesAre
<1>5. active'.kind = "piece" => active.kind = "piece" /\ active'.block = active.block
  BY <1>3, <1>4
<1>6. NoDoubles'
  <2>1. \A j, k \in DOMAIN left : left[j] = left[k] => j = k BY <1>2 DEF CancelInv, NoDoubles
  <2>2. \A k \in DOMAIN left : filling # left[k] BY <1>2 DEF CancelInv, NoDoubles
  <2>3. active.kind = "piece" => \A k \in DOMAIN left : left[k] # active.block
    BY <1>2 DEF CancelInv, NoDoubles
  <2>4. pieces' = left /\ filling' = filling BY <1>3
  <2>5. (\A j, k \in DOMAIN pieces : pieces[j] = pieces[k] => j = k)' BY <2>1, <2>4
  <2>6. (\A k \in DOMAIN pieces : filling # pieces[k])' BY <2>2, <2>4
  <2>7. (active.kind = "piece" => \A k \in DOMAIN pieces : pieces[k] # active.block)'
    BY <2>3, <2>4, <1>5
  <2> QED BY <2>5, <2>6, <2>7 DEF NoDoubles
<1>7. ToSet(left) \subseteq ToSet(pieces) BY <1>2 DEF ToSet
<1>8. CancelledIsGone'
  <2> SUFFICES ASSUME NEW b \in withdrawn' PROVE ~Holds(b)' /\ filling' # b
    BY DEF CancelledIsGone
  <2>1. b \in Blocks BY <1>1, <1>3
  <2>2. b \notin ToSet(left) BY <1>3, <1>7 DEF CancelInv, CancelledIsGone, Holds
  <2>3. ~(active'.kind = "piece" /\ active'.block = b)
    BY <1>3, <1>5 DEF CancelInv, CancelledIsGone, Holds
  <2>4. ToSet(pieces)' = ToSet(left) BY <1>3
  <2>5. ~Holds(b)' BY <2>2, <2>3, <2>4 DEF Holds
  <2>6. filling' # b BY <1>1, <2>1
  <2> QED BY <2>5, <2>6
<1> QED BY <1>6, <1>8 DEF CancelInv

\* Every step keeps CancelInv.
LEMMA CancelStep ==
  ASSUME UploadShape, CancelInv, UploadAssumption, [Next]_vars
  PROVE  CancelInv'
<1>0. /\ pieces \in Seq(Blocks) /\ DOMAIN pieces = 1..Len(pieces) /\ Len(pieces) \in Nat
      /\ Idle.kind = "none" /\ NoBlock \notin Blocks /\ withdrawn \subseteq Blocks
      /\ active \in Active
  BY ActivesAre, LenProperties DEF UploadAssumption, UploadShape, TypeOK
<1>1. ASSUME NEW i \in Pieces, MarkHave(i) PROVE CancelInv'
  BY <1>1, <1>0, CancelLess DEF MarkHave, sessionVars, queueVars, torrentVars, history, bounds, ReaderUnchanged, WriterUnchanged
<1>2. ASSUME NEW i \in Pieces, Publish(i) PROVE CancelInv'
  BY <1>2, <1>0, CancelLess DEF Publish, sessionVars, queueVars, torrentVars, history, bounds, ReaderUnchanged, WriterUnchanged
<1>3. ASSUME Subscribe PROVE CancelInv'
  BY <1>3, <1>0, CancelLess DEF Subscribe, sessionVars, queueVars, torrentVars, history, bounds, ReaderUnchanged, WriterUnchanged
<1>4. ASSUME Snapshot PROVE CancelInv'
  BY <1>4, <1>0, CancelLess DEF Snapshot, sessionVars, queueVars, torrentVars, history, bounds, ReaderUnchanged, WriterUnchanged
<1>5. ASSUME WriteHello PROVE CancelInv'
  BY <1>5, <1>0, CancelLess DEF WriteHello, sessionVars, queueVars, torrentVars, history, bounds, ReaderUnchanged, WriterUnchanged
<1>6. ASSUME WriteLateHaves PROVE CancelInv'
  BY <1>6, <1>0, CancelLess DEF WriteLateHaves, sessionVars, queueVars, torrentVars, history, bounds, ReaderUnchanged, WriterUnchanged
<1>7. ASSUME NEW b \in Blocks, OnRequest(b) PROVE CancelInv'
  BY <1>7, <1>0, CancelLess DEF OnRequest, sessionVars, queueVars, torrentVars, history, bounds, ReaderUnchanged, WriterUnchanged
<1>8. ASSUME NEW b \in Blocks, OnCancel(b) PROVE CancelInv'
  BY <1>8, <1>0, CancelLess DEF OnCancel, sessionVars, queueVars, torrentVars, history, bounds, ReaderUnchanged, WriterUnchanged
<1>9. ASSUME OnInterested PROVE CancelInv'
  BY <1>9, <1>0, CancelLess DEF OnInterested, sessionVars, queueVars, torrentVars, history, bounds, ReaderUnchanged, WriterUnchanged
<1>10. ASSUME OnNotInterested PROVE CancelInv'
  BY <1>10, <1>0, CancelLess DEF OnNotInterested, sessionVars, queueVars, torrentVars, history, bounds, ReaderUnchanged, WriterUnchanged
<1>11. ASSUME LeechComplete PROVE CancelInv'
  BY <1>11, <1>0, CancelLess DEF LeechComplete, sessionVars, queueVars, torrentVars, history, bounds, ReaderUnchanged, WriterUnchanged
<1>12. ASSUME Stop PROVE CancelInv'
  BY <1>12, <1>0, CancelLess DEF Stop, sessionVars, queueVars, torrentVars, history, bounds, ReaderUnchanged, WriterUnchanged
<1>13. ASSUME NEW t \in BOOLEAN, ReaderEnds(t) PROVE CancelInv'
  BY <1>13, <1>0, CancelLess DEF ReaderEnds, sessionVars, queueVars, torrentVars, history, bounds, ReaderUnchanged, WriterUnchanged
<1>14. ASSUME KeepAliveTimer PROVE CancelInv'
  BY <1>14, <1>0, CancelLess DEF KeepAliveTimer, sessionVars, queueVars, torrentVars, history, bounds, ReaderUnchanged, WriterUnchanged
<1>15. ASSUME TakeMsg PROVE CancelInv'
  <2>1. filling = NoBlock /\ filling' = filling /\ ApplyMsg(Head(cmd))
    BY <1>15 DEF TakeMsg, UploadShape, Together
  <2> DEFINE m == Head(cmd)
  <2>2. m \in WriterMsg BY <1>15 DEF TakeMsg, UploadShape, TypeOK
  <2> HIDE DEF m
  <2>3. CASE m.kind = "upload"
    <3>1. m.block \in Blocks /\ PushPiece(m.block) BY <2>1, <2>2, <2>3, MsgsAre DEF ApplyMsg, m
    <3>2. CASE Refuse(m.block) BY <3>2, <2>1, CancelLess DEF Refuse
    <3>3. CASE Enqueue(m.block) /\ ~Holds(m.block)
      <4> DEFINE b == m.block
                 t == Append(pieces, b)
      <4>1. /\ t \in Seq(Blocks) /\ DOMAIN t = 1..(Len(pieces) + 1) /\ t[Len(pieces) + 1] = b
            /\ \A k \in 1..Len(pieces) : t[k] = pieces[k]
        BY <3>1, <1>0
      <4>2. pieces' = t /\ active' = active /\ withdrawn' = withdrawn \ {b}
        BY <3>3 DEF Enqueue
      <4>3. b \in Blocks /\ ~Holds(b) BY <3>1, <3>3
      <4> HIDE DEF t, b
      <4>4. \A k \in 1..Len(pieces) : pieces[k] # b BY <4>3, <1>0 DEF Holds, ToSet
      <4>5. \A k \in DOMAIN t : k \in 1..Len(pieces) \/ k = Len(pieces) + 1 BY <4>1, <1>0
      <4>6. NoDoubles'
        <5>1. \A j, k \in DOMAIN t : t[j] = t[k] => j = k
          BY <4>1, <4>4, <4>5 DEF CancelInv, NoDoubles
        <5>2. \A k \in DOMAIN t : filling # t[k] BY <4>1, <4>3, <4>5, <2>1, <1>0 DEF CancelInv, NoDoubles
        <5>3. active.kind = "piece" => \A k \in DOMAIN t : t[k] # active.block
          BY <4>1, <4>3, <4>5, <1>0 DEF CancelInv, NoDoubles, Holds
        <5>4. (\A j, k \in DOMAIN pieces : pieces[j] = pieces[k] => j = k)' BY <5>1, <4>2
        <5>5. (\A k \in DOMAIN pieces : filling # pieces[k])' BY <5>2, <4>2, <2>1
        <5>6. (active.kind = "piece" => \A k \in DOMAIN pieces : pieces[k] # active.block)' BY <5>3, <4>2
        <5> QED BY <5>4, <5>5, <5>6 DEF NoDoubles
      <4>7. ToSet(t) \subseteq ToSet(pieces) \cup {b}
        <5>1. \A k \in DOMAIN t : t[k] \in ToSet(pieces) \cup {b}
          BY <4>1, <4>5, <1>0 DEF ToSet
        <5> QED BY <5>1 DEF ToSet
      <4>8. CancelledIsGone'
        BY <4>2, <4>7, <2>1 DEF CancelInv, CancelledIsGone, Holds
      <4> QED BY <4>6, <4>8 DEF CancelInv
    <3> QED BY <3>1, <3>2, <3>3 DEF PushPiece
  <2>4. CASE m.kind = "cancel"
    <3> DEFINE b == m.block
               t == RemoveFirst(pieces, b)
    <3>1. b \in Blocks /\ TakeBack({b}, t)
      BY <2>1, <2>2, <2>4, MsgsAre DEF ApplyMsg, CancelPiece, m
    <3> HIDE DEF b, t
    <3>2. \/ t = pieces /\ \A k \in DOMAIN pieces : pieces[k] # b
          \/ \E i \in DOMAIN pieces :
                /\ pieces[i] = b /\ t \in Seq(Blocks) /\ Len(t) = Len(pieces) - 1
                /\ \A k \in 1..(Len(pieces) - 1) : t[k] = IF k < i THEN pieces[k] ELSE pieces[k + 1]
      <4>1. pieces \in Seq(Blocks) BY <1>0
      <4> QED BY <4>1, RemoveFirstIs DEF t
    <3>3. CASE t = pieces /\ \A k \in DOMAIN pieces : pieces[k] # b
      <4> DEFINE f == [k \in DOMAIN t |-> k]
      <4>1. f \in [DOMAIN t -> DOMAIN pieces] BY <3>3
      <4>2. /\ \A k \in DOMAIN t : t[k] = pieces[f[k]]
            /\ \A j, k \in DOMAIN t : f[j] = f[k] => j = k
        BY <3>3
      <4>3. ToSet(t) \cap {b} = {} BY <3>3 DEF ToSet
      <4> HIDE DEF f
      <4>4. {b} \in SUBSET Blocks /\ t \in Seq(Blocks) BY <3>1, <3>3, <1>0
      <4> QED BY <2>1, <3>1, <4>1, <4>2, <4>3, <4>4, TakeBackCancels
    <3>4. ASSUME NEW i \in DOMAIN pieces,
                 pieces[i] = b, t \in Seq(Blocks), Len(t) = Len(pieces) - 1,
                 \A k \in 1..(Len(pieces) - 1) : t[k] = IF k < i THEN pieces[k] ELSE pieces[k + 1]
          PROVE  CancelInv'
      <4> DEFINE f == [k \in DOMAIN t |-> IF k < i THEN k ELSE k + 1]
      <4>1. DOMAIN t = 1..(Len(pieces) - 1) BY <3>4, LenProperties
      <4>2. f \in [DOMAIN t -> DOMAIN pieces] BY <4>1, <1>0
      <4>3. \A k \in DOMAIN t : t[k] = pieces[f[k]] BY <3>4, <4>1, <1>0
      <4>4. \A j, k \in DOMAIN t : f[j] = f[k] => j = k BY <4>1, <1>0
      <4>5. \A k \in DOMAIN t : f[k] # i BY <4>1, <1>0
      <4> HIDE DEF f
      <4>6. \A k \in DOMAIN t : t[k] # b BY <4>2, <4>3, <4>5, <3>4 DEF CancelInv, NoDoubles
      <4>7. ToSet(t) \cap {b} = {} BY <4>6 DEF ToSet
      <4>8. {b} \in SUBSET Blocks BY <3>1
      <4> QED BY <2>1, <3>1, <3>4, <4>2, <4>3, <4>4, <4>7, <4>8, TakeBackCancels
    <3> QED BY <3>2, <3>3, <3>4
  <2>5. CASE m.kind = "clear"
    <3>1. TakeBack(Blocks, <<>>) BY <2>1, <2>5 DEF ApplyMsg, ClearAll, m
    <3> DEFINE t == <<>>
               f == [k \in DOMAIN t |-> k]
    <3>2. DOMAIN t = {} /\ t \in Seq(Blocks) OBVIOUS
    <3> HIDE DEF t
    <3>3. f \in [DOMAIN t -> DOMAIN pieces] BY <3>2
    <3>4. /\ \A k \in DOMAIN t : t[k] = pieces[f[k]]
          /\ \A j, k \in DOMAIN t : f[j] = f[k] => j = k
          /\ ToSet(t) \cap Blocks = {}
      BY <3>2 DEF ToSet
    <3>5. TakeBack(Blocks, t) BY <3>1 DEF t
    <3> HIDE DEF f
    <3> QED BY <2>1, <3>2, <3>3, <3>4, <3>5, TakeBackCancels
  <2>6. CASE m.kind \in {"ctrl", "done"}
    BY <2>1, <2>6, CancelLess DEF ApplyMsg, m
  <2> QED BY <2>2, <2>3, <2>4, <2>5, <2>6, MsgsAre
<1>16. ASSUME TakeHaves PROVE CancelInv'
  BY <1>16, <1>0, CancelLess DEF TakeHaves, sessionVars, queueVars, torrentVars, history, bounds, ReaderUnchanged, WriterUnchanged
<1>17. ASSUME WakeForHave PROVE CancelInv'
  BY <1>17, <1>0, CancelLess DEF WakeForHave, sessionVars, queueVars, torrentVars, history, bounds, ReaderUnchanged, WriterUnchanged
<1>18. ASSUME PickCtrl PROVE CancelInv'
  BY <1>18, <1>0, CancelLess DEF PickCtrl, sessionVars, queueVars, torrentVars, history, bounds, ReaderUnchanged, WriterUnchanged
<1>19. ASSUME PickPiece PROVE CancelInv'
  <2> DEFINE t == Tail(pieces)
  <2>1. /\ filling' = pieces[1] /\ Len(pieces) # 0 /\ active.kind = "none" /\ filling = NoBlock
        /\ active' = active /\ withdrawn' = withdrawn
    BY <1>19, <1>0 DEF PickPiece, history
  <2>2. pieces' = t /\ t \in Seq(Blocks) /\ DOMAIN t = 1..(Len(pieces) - 1)
        /\ \A k \in 1..(Len(pieces) - 1) : t[k] = pieces[k + 1]
    BY <1>19, <1>0 DEF PickPiece
  <2> HIDE DEF t
  <2>3. \A k \in DOMAIN t : k + 1 \in DOMAIN pieces /\ k + 1 # 1 BY <2>2, <1>0
  <2>4. 1 \in DOMAIN pieces BY <2>1, <1>0
  <2>5. NoDoubles'
    <3>1. \A j, k \in DOMAIN t : t[j] = t[k] => j = k
      <4>1. \A j, k \in DOMAIN t : t[j] = t[k] => j + 1 = k + 1
        BY <2>2, <2>3 DEF CancelInv, NoDoubles
      <4> QED BY <4>1, <2>2, <1>0
    <3>2. \A k \in DOMAIN t : pieces[1] # t[k] BY <2>2, <2>3, <2>4 DEF CancelInv, NoDoubles
    <3> QED BY <3>1, <3>2, <2>1, <2>2 DEF NoDoubles
  <2>6. ToSet(t) \subseteq ToSet(pieces) /\ pieces[1] \in ToSet(pieces)
    BY <2>2, <2>3, <2>4 DEF ToSet
  <2>7. CancelledIsGone' BY <2>1, <2>2, <2>6 DEF CancelInv, CancelledIsGone, Holds
  <2> QED BY <2>5, <2>7 DEF CancelInv
<1>20. ASSUME FillOk PROVE CancelInv'
  <2>1. /\ filling \in Blocks /\ filling' = NoBlock /\ pieces' = pieces /\ withdrawn' = withdrawn
        /\ active'.kind = "piece" /\ active'.block = filling
    BY <1>20 DEF FillOk, Go, RateLimited, history, UploadShape, TypeOK
  <2>2. \A k \in DOMAIN pieces : pieces[k] \in Blocks BY <1>0, ElementOfSeq
  <2>3. NoDoubles' BY <2>1, <2>2, <1>0 DEF CancelInv, NoDoubles
  <2>4. CancelledIsGone' BY <2>1, <1>0 DEF CancelInv, CancelledIsGone, Holds
  <2> QED BY <2>3, <2>4 DEF CancelInv
<1>21. ASSUME FillFails PROVE CancelInv'
  BY <1>21, <1>0, CancelLess DEF FillFails, sessionVars, queueVars, torrentVars, history, bounds, ReaderUnchanged, WriterUnchanged
<1>22. ASSUME Resume PROVE CancelInv'
  <2>1. active' = active /\ pieces' = pieces /\ withdrawn' = withdrawn /\ filling' = filling
    BY <1>22 DEF Resume, Go, RateLimited, history
  <2> QED BY <2>1, CancelLess
<1>23. ASSUME WakeUp PROVE CancelInv'
  BY <1>23, <1>0, CancelLess DEF WakeUp, sessionVars, queueVars, torrentVars, history, bounds, ReaderUnchanged, WriterUnchanged
<1>24. ASSUME Written PROVE CancelInv'
  BY <1>24, <1>0, CancelLess DEF Written, sessionVars, queueVars, torrentVars, history, bounds, ReaderUnchanged, WriterUnchanged
<1>25. ASSUME SendEnds PROVE CancelInv'
  BY <1>25, <1>0, CancelLess DEF SendEnds, sessionVars, queueVars, torrentVars, history, bounds, ReaderUnchanged, WriterUnchanged
<1>26. ASSUME WriteFails PROVE CancelInv'
  BY <1>26, <1>0, CancelLess DEF WriteFails, sessionVars, queueVars, torrentVars, history, bounds, ReaderUnchanged, WriterUnchanged
<1>27. ASSUME LeaveLoop PROVE CancelInv'
  BY <1>27, <1>0, CancelLess DEF LeaveLoop, sessionVars, queueVars, torrentVars, history, bounds, ReaderUnchanged, WriterUnchanged
<1>28. ASSUME Flush PROVE CancelInv'
  BY <1>28, <1>0, CancelLess DEF Flush, sessionVars, queueVars, torrentVars, history, bounds, ReaderUnchanged, WriterUnchanged
<1>29. ASSUME FlushWrite PROVE CancelInv'
  BY <1>29, <1>0, CancelLess DEF FlushWrite, sessionVars, queueVars, torrentVars, history, bounds, ReaderUnchanged, WriterUnchanged
<1>30. ASSUME FlushEnds PROVE CancelInv'
  BY <1>30, <1>0, CancelLess DEF FlushEnds, sessionVars, queueVars, torrentVars, history, bounds, ReaderUnchanged, WriterUnchanged
<1>31. CASE UNCHANGED vars BY <1>31, CancelLess DEF vars, history, queueVars
<1> QED BY <1>1, <1>2, <1>3, <1>4, <1>5, <1>6, <1>7, <1>8, <1>9, <1>10, <1>11, <1>12, <1>13, <1>14, <1>15, <1>16, <1>17, <1>18, <1>19, <1>20, <1>21, <1>22, <1>23, <1>24, <1>25, <1>26, <1>27, <1>28, <1>29, <1>30, <1>31 DEF Next, HelloNext, WriterNext

\* A block the writer has seen taken back is not queued, read or sent, unless
\* it was asked for again or RC4 had run over it (OutQueue::cancel_piece,
\* clear_pieces): try_push_piece refuses doubles, so one removal is enough.
THEOREM CancelledStaysGone == Spec => []CancelledIsGone
<1>1. Init => CancelInv
  <2> SUFFICES ASSUME Init PROVE CancelInv OBVIOUS
  <2>1. pieces = <<>> /\ active = Idle /\ withdrawn = {} BY DEF Init
  <2>2. DOMAIN pieces = {} BY <2>1
  <2> QED BY <2>1, <2>2, ActivesAre DEF CancelInv, NoDoubles, CancelledIsGone
<1>2. UploadShape /\ CancelInv /\ [Next]_vars => CancelInv' BY CancelStep, UploadAssumption
<1>3. CancelInv => CancelledIsGone BY DEF CancelInv
<1> QED BY <1>1, <1>2, <1>3, ShapeAlways, PTL DEF Spec

-----------------------------------------------------------------------------
(* Every published piece reaches the remote.                               *)

Words(m) == IF m.kind = "ctrl" THEN <<m.frame>> ELSE <<>>

\* The frames in the channel, message by message.
LEMMA SaidIs ==
  ASSUME NEW q \in Seq(WriterMsg)
  PROVE  /\ Said(q) \in Seq(Seq(Frames)) /\ Len(Said(q)) = Len(q)
         /\ \A k \in 1..Len(q) : Said(q)[k] = Words(q[k])
<1>0. DOMAIN q = 1..Len(q) /\ Len(q) \in Nat /\ \A k \in 1..Len(q) : q[k] \in WriterMsg
  BY LenProperties, ElementOfSeq
<1>1. \A m \in WriterMsg : Words(m) \in Seq(Frames) BY MsgsAre DEF Words
<1>2. Said(q) = [k \in 1..Len(q) |-> Words(q[k])] BY <1>0 DEF Said, Words
<1>3. \A k \in 1..Len(q) : Words(q[k]) \in Seq(Frames) BY <1>0, <1>1
<1> QED BY <1>0, <1>2, <1>3

\* A message that is sent is said last.
LEMMA SaidAppend ==
  ASSUME NEW q \in Seq(WriterMsg), NEW m \in WriterMsg
  PROVE  /\ Said(Append(q, m)) = Said(q) \o <<Words(m)>> /\ Words(m) \in Seq(Frames)
         /\ Said(q) \in Seq(Seq(Frames))
<1> DEFINE t == Append(q, m)
           w == Words(m)
<1>1. /\ t \in Seq(WriterMsg) /\ Len(t) = Len(q) + 1 /\ Len(q) \in Nat /\ t[Len(q) + 1] = m
      /\ \A k \in 1..Len(q) : t[k] = q[k]
  BY AppendProperties
<1>2. w \in Seq(Frames) BY MsgsAre DEF Words
<1> HIDE DEF t
<1>4. /\ Said(t) \in Seq(Seq(Frames)) /\ Len(Said(t)) = Len(t)
      /\ \A k \in 1..Len(t) : Said(t)[k] = Words(t[k])
  BY <1>1, SaidIs
<1>5. /\ Said(q) \in Seq(Seq(Frames)) /\ Len(Said(q)) = Len(q)
      /\ \A k \in 1..Len(q) : Said(q)[k] = Words(q[k])
  BY SaidIs
<1>6. Said(t)[Len(t)] = w BY <1>1, <1>4
<1>7. \A k \in 1..Len(q) : Said(t)[k] = Said(q)[k] BY <1>1, <1>4, <1>5
<1> HIDE DEF w
<1>8. Said(t) = Said(q) \o <<w>> BY <1>1, <1>2, <1>4, <1>5, <1>6, <1>7, SnocIs
<1> QED BY <1>2, <1>5, <1>8 DEF t, w

\* A message that is taken was said first.
LEMMA SaidTail ==
  ASSUME NEW q \in Seq(WriterMsg), q # <<>>
  PROVE  /\ Said(q) = <<Words(Head(q))>> \o Said(Tail(q)) /\ Head(q) \in WriterMsg
         /\ Tail(q) \in Seq(WriterMsg) /\ Words(Head(q)) \in Seq(Frames)
         /\ Said(Tail(q)) \in Seq(Seq(Frames))
<1> DEFINE t == Tail(q)
           m == Head(q)
           w == Words(m)
<1>1. /\ t \in Seq(WriterMsg) /\ Len(t) = Len(q) - 1 /\ Len(q) \in Nat \ {0} /\ q[1] = m
      /\ m \in WriterMsg /\ \A k \in 1..Len(t) : t[k] = q[k + 1]
  BY HeadTailProperties, EmptySeq
<1> HIDE DEF t, m
<1>2. w \in Seq(Frames) BY <1>1, MsgsAre DEF Words
<1>4. /\ Said(t) \in Seq(Seq(Frames)) /\ Len(Said(t)) = Len(t)
      /\ \A k \in 1..Len(t) : Said(t)[k] = Words(t[k])
  BY <1>1, SaidIs
<1>5. /\ Said(q) \in Seq(Seq(Frames)) /\ Len(Said(q)) = Len(q)
      /\ \A k \in 1..Len(q) : Said(q)[k] = Words(q[k])
  BY SaidIs
<1>6. Said(q)[1] = w BY <1>1, <1>5
<1>7. ASSUME NEW k \in 1..Len(t) PROVE Said(q)[k + 1] = Said(t)[k]
  <2>1. k + 1 \in 1..Len(q) BY <1>1
  <2> QED BY <2>1, <1>1, <1>4, <1>5
<1> HIDE DEF w
<1>9. Len(Said(q)) = Len(Said(t)) + 1 BY <1>1, <1>4, <1>5
<1>8. Said(q) = <<w>> \o Said(t)
  <2> DEFINE x == Said(q)
             y == Said(t)
  <2>1. x \in Seq(Seq(Frames)) /\ y \in Seq(Seq(Frames)) /\ Len(x) = Len(y) + 1 /\ x[1] = w
    BY <1>4, <1>5, <1>6, <1>9
  <2>2. \A k \in 1..Len(y) : x[k + 1] = y[k] BY <1>4, <1>7
  <2> HIDE DEF x, y
  <2>3. x = <<w>> \o y BY <1>2, <2>1, <2>2, ConsIs
  <2> QED BY <2>3 DEF x, y
<1> QED BY <1>1, <1>2, <1>4, <1>8 DEF t, m, w

\* A chunk that speaks of no piece.
LEMMA LearnSilence ==
  ASSUME NEW v \in SUBSET Pieces, NEW c,
         \A k \in DOMAIN c : \A i : ~Grants(c[k], i) /\ ~Takes(c[k], i)
  PROVE  Learn(v, <<c>>) = v
<1>1. \A i : ~Tells(c, i) /\ ~Denies(c, i) BY DEF Tells, Denies
<1>2. Learn(v, <<c>>) = {i \in Pieces : Tells(c, i) \/ (i \in v /\ ~Denies(c, i))} BY LearnOne
<1> QED BY <1>1, <1>2

\* push_ctrl_owned may coalesce: the remote learns the same.
LEMMA LearnCtrl ==
  ASSUME NEW q \in Seq(Chunks), NEW fs \in Chunks, NEW v
  PROVE  Learn(v, WithCtrl(q, fs)) = Learn(Learn(v, q), <<fs>>)
<1>0. q \in Seq(Seq(Frames)) /\ fs \in Seq(Frames) /\ <<fs>> \in Seq(Seq(Frames))
  <2>1. Chunks \subseteq Seq(Frames) BY DEF Chunks
  <2>2. q \in Seq(Seq(Frames)) BY <2>1, SeqMonotonic
  <2>3. fs \in Seq(Frames) BY <2>1
  <2> QED BY <2>2, <2>3
<1>1. CASE q # <<>> /\ Len(Last(q)) + Len(fs) <= ChunkMax
  <2> DEFINE n == Len(q)
             l == Last(q)
             p == SubSeq(q, 1, n - 1)
             t == ReplaceAt(q, n, l \o fs)
  <2>1. n \in Nat \ {0} /\ n \in 1..n /\ l = q[n] /\ l \in Seq(Frames) BY <1>0, <1>1 DEF Last
  <2>2. p \in Seq(Seq(Frames)) /\ Len(p) = n - 1 /\ \A k \in 1..(n - 1) : p[k] = q[k]
    <3> DEFINE h == n - 1
    <3>1. h \in Nat /\ h <= n /\ 1 \in Nat BY <2>1
    <3>2. \A k \in 1..h : q[k] \in Seq(Frames) BY <1>0, <3>1
    <3> HIDE DEF h, n
    <3>3. /\ SubSeq(q, 1, h) \in Seq(Seq(Frames))
          /\ Len(SubSeq(q, 1, h)) = (IF 1 <= h THEN h - 1 + 1 ELSE 0)
          /\ \A k \in 1..(h - 1 + 1) : SubSeq(q, 1, h)[k] = q[1 + k - 1]
      BY <3>1, <3>2, SubSeqProperties
    <3>4. Len(SubSeq(q, 1, h)) = h /\ \A k \in 1..h : SubSeq(q, 1, h)[k] = q[k] BY <3>1, <3>3
    <3> QED BY <3>3, <3>4 DEF h
  <2>3. l \o fs \in Seq(Frames) BY <1>0, <2>1, ConcatProperties
  <2>4. t \in Seq(Seq(Frames)) /\ Len(t) = n /\ \A k \in 1..n : t[k] = IF k = n THEN l \o fs ELSE q[k]
    BY <1>0, <2>1, <2>3, ExceptSeq DEF ReplaceAt
  <2> HIDE DEF l, p, t, n
  <2>5. ASSUME NEW c \in Seq(Frames), NEW s \in Seq(Seq(Frames)), Len(s) = n, s[n] = c,
               \A k \in 1..(n - 1) : s[k] = q[k]
        PROVE  s = p \o <<c>>
    <3>1. Len(p) = n - 1 BY <2>2
    <3>2. Len(s) = Len(p) + 1 /\ s[Len(s)] = c BY <2>1, <2>5, <3>1
    <3>3. \A k \in 1..Len(p) : s[k] = p[k] BY <2>2, <2>5, <3>1
    <3>4. p \in Seq(Seq(Frames)) BY <2>2
    <3> QED BY <2>5, <3>2, <3>3, <3>4, SnocIs
  <2>6. t = p \o <<l \o fs>>
    <3> DEFINE g == l \o fs
    <3>1. g \in Seq(Frames) /\ t \in Seq(Seq(Frames)) /\ Len(t) = n BY <2>3, <2>4
    <3>2. t[n] = g /\ \A k \in 1..(n - 1) : t[k] = q[k] BY <2>1, <2>4
    <3> HIDE DEF g
    <3> QED BY <2>5, <3>1, <3>2 DEF g
  <2>7. q = p \o <<l>> BY <1>0, <2>1, <2>5 DEF n
  <2>8. <<l>> \in Seq(Seq(Frames)) /\ <<l \o fs>> \in Seq(Seq(Frames)) BY <2>1, <2>3
  <2>9. Learn(v, t) = Learn(Learn(v, p), <<l \o fs>>) BY <2>2, <2>6, <2>8, LearnConcat
  <2>10. Learn(v, q) = Learn(Learn(v, p), <<l>>) BY <2>2, <2>7, <2>8, LearnConcat
  <2>11. Learn(Learn(v, p), <<l \o fs>>) = Learn(Learn(Learn(v, p), <<l>>), <<fs>>)
    BY <1>0, <2>1, LearnMerge
  <2>12. WithCtrl(q, fs) = t BY <1>1 DEF WithCtrl, t, l, n
  <2> QED BY <2>9, <2>10, <2>11, <2>12
<1>2. CASE ~(q # <<>> /\ Len(Last(q)) + Len(fs) <= ChunkMax)
  <2>1. WithCtrl(q, fs) = Append(q, fs) BY <1>2 DEF WithCtrl
  <2>2. Append(q, fs) = q \o <<fs>> BY <1>0, AppendIsConcat
  <2>3. Learn(v, q \o <<fs>>) = Learn(Learn(v, q), <<fs>>) BY <1>0, LearnConcat
  <2> QED BY <2>1, <2>2, <2>3
<1> QED BY <1>1, <1>2

\* What the remote has learnt when it has read the frame in hand, the control
\* queue and the commands not taken yet.
After(v, a, c, m) ==
    Learn(Learn(Learn(v, IF a.kind = "ctrl" THEN <<a.frames>> ELSE <<>>), c), Said(m))

\* What the remote will have learned are pieces.
LEMMA AfterIsPieces == ASSUME NEW v, NEW a, NEW c, NEW m PROVE After(v, a, c, m) \in SUBSET Pieces
BY LearnIsPieces DEF After

\* A queue of chunks is a queue of sequences of frames.
LEMMA ChunksAre == ASSUME NEW c \in Seq(Chunks) PROVE c \in Seq(Seq(Frames))
<1>1. Chunks \subseteq Seq(Frames) BY DEF Chunks
<1> QED BY <1>1, SeqMonotonic

\* The remote reads hand, control queue and channel in that order.
LEMMA AfterIs ==
  ASSUME NEW v, NEW a \in Active, NEW c \in Seq(Chunks), NEW m \in Seq(WriterMsg)
  PROVE  Learn(v, (IF a.kind = "ctrl" THEN <<a.frames>> ELSE <<>>) \o c \o Said(m)) = After(v, a, c, m)
<1> DEFINE h == IF a.kind = "ctrl" THEN <<a.frames>> ELSE <<>>
           d == Said(m)
<1>1. h \in Seq(Seq(Frames)) BY ActivesAre
<1>2. c \in Seq(Seq(Frames)) /\ d \in Seq(Seq(Frames)) BY ChunksAre, SaidIs
<1> HIDE DEF h, d
<1>3. h \o c \in Seq(Seq(Frames)) BY <1>1, <1>2, ConcatProperties
<1>4. Learn(v, h \o c) = Learn(Learn(v, h), c) BY <1>1, <1>2, LearnConcat
<1>5. Learn(v, (h \o c) \o d) = Learn(Learn(v, h \o c), d) BY <1>2, <1>3, LearnConcat
<1> QED BY <1>4, <1>5 DEF After, h, d

\* A message that is sent is read last.
LEMMA AfterMsg ==
  ASSUME NEW v, NEW a, NEW c, NEW m \in Seq(WriterMsg), NEW x \in WriterMsg
  PROVE  After(v, a, c, Append(m, x)) = Learn(After(v, a, c, m), <<Words(x)>>)
<1> DEFINE u == Learn(Learn(v, IF a.kind = "ctrl" THEN <<a.frames>> ELSE <<>>), c)
           d == Said(m)
           w == <<Words(x)>>
<1>1. Said(Append(m, x)) = d \o w /\ d \in Seq(Seq(Frames)) /\ w \in Seq(Seq(Frames))
  BY SaidAppend
<1> HIDE DEF u, d, w
<1>2. Learn(u, d \o w) = Learn(Learn(u, d), w) BY <1>1, LearnConcat
<1> QED BY <1>1, <1>2 DEF After, u, d, w

\* A chunk no message of which speaks of a piece.
Silent(fs) == \A k \in DOMAIN fs : \A i : ~Grants(fs[k], i) /\ ~Takes(fs[k], i)

\* Rejects and keep-alives tell nothing about pieces.
LEMMA SilentFrames ==
  /\ \A b : Silent(<<Reject(b)>>)
  /\ Silent(<<KeepAlive>>) /\ Silent(<<>>)
<1>1. ASSUME NEW f, \A i : ~Grants(f, i) /\ ~Takes(f, i) PROVE Silent(<<f>>)
  <2> DEFINE c == <<f>>
  <2>1. \A k \in DOMAIN c : c[k] = f OBVIOUS
  <2> HIDE DEF c
  <2>2. Silent(c) BY <1>1, <2>1 DEF Silent
  <2> QED BY <2>2 DEF c
<1>2. \A b : \A i : ~Grants(Reject(b), i) /\ ~Takes(Reject(b), i) BY DEF Reject, Grants, Takes
<1>3. \A i : ~Grants(KeepAlive, i) /\ ~Takes(KeepAlive, i) BY DEF KeepAlive, Grants, Takes
<1>4. Silent(<<>>)
  <2> DEFINE c == <<>>
  <2>1. DOMAIN c = {} OBVIOUS
  <2> HIDE DEF c
  <2>2. Silent(c) BY <2>1 DEF Silent
  <2> QED BY <2>2 DEF c
<1> QED BY <1>1, <1>2, <1>3, <1>4

\* A silent message changes nothing the remote learns,
LEMMA SilentMsg ==
  ASSUME NEW v, NEW a, NEW c, NEW m \in Seq(WriterMsg), NEW x \in WriterMsg, Silent(Words(x))
  PROVE  After(v, a, c, Append(m, x)) = After(v, a, c, m)
<1> DEFINE u == After(v, a, c, m)
           w == Words(x)
<1>1. u \in SUBSET Pieces /\ After(v, a, c, Append(m, x)) = Learn(u, <<w>>)
  BY AfterMsg, AfterIsPieces
<1>2. \A k \in DOMAIN w : \A i : ~Grants(w[k], i) /\ ~Takes(w[k], i) BY DEF Silent
<1> HIDE DEF u, w
<1>3. Learn(u, <<w>>) = u BY <1>1, <1>2, LearnSilence
<1> QED BY <1>1, <1>3 DEF u

\* and neither do silent frames in the control queue.
LEMMA SilentCtrl ==
  ASSUME NEW v, NEW a, NEW c \in Seq(Chunks), NEW m, NEW fs \in Chunks, Silent(fs)
  PROVE  After(v, a, WithCtrl(c, fs), m) = After(v, a, c, m)
<1> DEFINE u == Learn(v, IF a.kind = "ctrl" THEN <<a.frames>> ELSE <<>>)
<1>1. Learn(u, WithCtrl(c, fs)) = Learn(Learn(u, c), <<fs>>) BY LearnCtrl
<1>2. Learn(Learn(u, c), <<fs>>) = Learn(u, c) BY LearnIsPieces, LearnSilence DEF Silent
<1> QED BY <1>1, <1>2 DEF After

\* A command becomes a chunk, or says nothing.
LEMMA AfterTake ==
  ASSUME NEW v, NEW a, NEW c \in Seq(Chunks), NEW m \in Seq(WriterMsg), m # <<>>
  PROVE  /\ Head(m).kind = "ctrl" =>
               After(v, a, WithCtrl(c, <<Head(m).frame>>), Tail(m)) = After(v, a, c, m)
         /\ Head(m).kind # "ctrl" => After(v, a, c, Tail(m)) = After(v, a, c, m)
<1> DEFINE u == Learn(v, IF a.kind = "ctrl" THEN <<a.frames>> ELSE <<>>)
           x == Head(m)
           d == Said(Tail(m))
           w == Words(x)
<1>1. /\ Said(m) = <<w>> \o d /\ d \in Seq(Seq(Frames)) /\ w \in Seq(Frames) /\ x \in WriterMsg
  BY SaidTail
<1> HIDE DEF w, x, d, u
<1>2. <<w>> \in Seq(Seq(Frames)) BY <1>1
<1>3. Learn(Learn(u, c), <<w>> \o d) = Learn(Learn(Learn(u, c), <<w>>), d) BY <1>1, <1>2, LearnConcat
<1>4. CASE x.kind = "ctrl"
  <2>1. w = <<x.frame>> /\ x.frame \in Frames BY <1>1, <1>4, MsgsAre DEF Words, w
  <2>2. <<x.frame>> \in Chunks BY <2>1 DEF Chunks
  <2>3. Learn(u, WithCtrl(c, <<x.frame>>)) = Learn(Learn(u, c), <<w>>) BY <2>1, <2>2, LearnCtrl
  <2> QED BY <1>1, <1>3, <1>4, <2>3 DEF After, u, x, d
<1>5. CASE x.kind # "ctrl"
  <2>1. Silent(w) BY <1>5, SilentFrames DEF Words, w
  <2>2. Learn(Learn(u, c), <<w>>) = Learn(u, c) BY <2>1, LearnIsPieces, LearnSilence DEF Silent
  <2> QED BY <1>1, <1>3, <1>5, <2>2 DEF After, u, x, d
<1> QED BY <1>4, <1>5 DEF x

\* A chunk taken in hand is heard first.
LEMMA AfterPick ==
  ASSUME NEW v \in SUBSET Pieces, NEW a, a.kind # "ctrl", NEW c \in Seq(Chunks), c # <<>>, NEW m
  PROVE  After(v, [kind |-> "ctrl", frames |-> Head(c)], Tail(c), m) = After(v, a, c, m)
<1> DEFINE x == Head(c)
           t == Tail(c)
           w == <<x>>
<1>1. /\ c \in Seq(Seq(Frames)) /\ x \in Seq(Frames) /\ t \in Seq(Seq(Frames)) /\ x = c[1]
      /\ Len(c) = Len(t) + 1 /\ \A k \in 1..Len(t) : c[k + 1] = t[k]
  <2>1. c \in Seq(Seq(Frames)) BY ChunksAre
  <2>2. x \in Seq(Frames) /\ t \in Seq(Seq(Frames)) /\ Len(t) = Len(c) - 1
        /\ \A k \in 1..Len(t) : t[k] = c[k + 1]
    BY <2>1, HeadTailProperties
  <2>3. Len(c) \in Nat BY <2>1
  <2> QED BY <2>1, <2>2, <2>3
<1> HIDE DEF x, t
<1>2. c = w \o t BY <1>1, ConsIs
<1>3. w \in Seq(Seq(Frames)) BY <1>1
<1> HIDE DEF w
<1>4. Learn(v, c) = Learn(Learn(v, w), t) BY <1>1, <1>2, <1>3, LearnConcat
<1>5. Learn(v, <<>>) = v BY LearnNothing
<1> DEFINE b == [kind |-> "ctrl", frames |-> x]
<1>6. b.kind = "ctrl" /\ b.frames = x OBVIOUS
<1> HIDE DEF b
<1>7. After(v, b, t, m) = Learn(Learn(Learn(v, w), t), Said(m)) BY <1>6 DEF After, w
<1>8. After(v, a, c, m) = Learn(Learn(v, c), Said(m)) BY <1>5 DEF After
<1> QED BY <1>4, <1>7, <1>8 DEF b, x, t

\* What is written has been heard.
LEMMA AfterWritten ==
  ASSUME NEW v, NEW a, a.kind = "ctrl", NEW b, b.kind # "ctrl", NEW c, NEW m
  PROVE  After(Learn(v, <<a.frames>>), b, c, m) = After(v, a, c, m)
BY LearnIsPieces, LearnNothing DEF After

\* A PIECE in hand tells nothing.
LEMMA AfterOther ==
  ASSUME NEW v, NEW a, NEW b, a.kind # "ctrl", b.kind # "ctrl", NEW c, NEW m
  PROVE  After(v, a, c, m) = After(v, b, c, m)
BY DEF After

\* What the remote will have heard once all that is on its way has arrived.
Heard == After(remoteView, active, ctrl, cmd)

\* While the hello is being written a piece is in it, or in the receiver that
\* subscribe_have opened before the snapshot was taken.
HeardInv ==
    /\ reader = "hello" => have \ unpublished \subseteq hello[1] \cup ToSet(haveRx)
    /\ reader = "late" => have \ unpublished \subseteq remoteView \cup ToSet(haveRx)
    /\ Open => have \ unpublished \subseteq Heard \cup ToSet(haveRx)

\* The types HeardStep needs.
LEMMA HeardTypes ==
  ASSUME UploadShape
  PROVE  /\ ctrl \in Seq(Chunks) /\ active \in Active /\ cmd \in Seq(WriterMsg)
         /\ haveRx \in Seq(Pieces) /\ remoteView \in SUBSET Pieces
         /\ have \in SUBSET Pieces /\ unpublished \in SUBSET have
         /\ Idle.kind = "none" /\ active.kind \in {"ctrl", "piece", "none"}
         /\ writer # "start" => reader \in {"on", "done"}
BY ActivesAre DEF UploadShape, TypeOK, Together, Chunks

\* A step after the hello: what was on its way is still on its way.
LEMMA HeardOn ==
  ASSUME UploadShape, HeardInv, writer' # "start", UploadShape',
         have' \ unpublished' \subseteq have \ unpublished,
         Open' => Open /\ Heard \cup ToSet(haveRx) \subseteq Heard' \cup ToSet(haveRx')
  PROVE  HeardInv'
<1>1. reader' \in {"on", "done"} BY DEF UploadShape, TypeOK, Together
<1> QED BY <1>1 DEF HeardInv

\* A step that puts nothing on its way and takes nothing off it.
LEMMA HeardKept ==
  ASSUME UploadShape, HeardInv, Open' => Open,
         have' \ unpublished' \subseteq have \ unpublished, hello' = hello, reader' = reader \/ reader' \in {"start", "on", "done"},
         haveRx' = haveRx, remoteView' = remoteView,
         Open' => ctrl' = ctrl /\ cmd' = cmd /\ (active' = active \/ (active.kind # "ctrl" /\ active'.kind # "ctrl"))
  PROVE  HeardInv'
<1>1. Open' => Heard' = Heard BY AfterOther DEF Heard
<1> QED BY <1>1 DEF HeardInv

\* A reader's command that says nothing of any piece.
LEMMA HeardSilence ==
  ASSUME UploadShape, UploadShape', HeardInv, writer' = writer, reader = "on",
         UNCHANGED <<have, unpublished, haveRx, remoteView, active, ctrl, stop>>,
         reader' \in {"on", "done"}, NEW x \in WriterMsg, Silent(Words(x)),
         cmd' = cmd \/ cmd' = Append(cmd, x)
  PROVE  HeardInv'
<1>1. cmd \in Seq(WriterMsg) BY HeardTypes
<1>2. Heard' = Heard
  <2>1. After(remoteView, active, ctrl, Append(cmd, x)) = After(remoteView, active, ctrl, cmd)
    BY <1>1, SilentMsg
  <2>2. Heard' = After(remoteView, active, ctrl, cmd') BY DEF Heard
  <2>3. Heard = After(remoteView, active, ctrl, cmd) BY DEF Heard
  <2> QED BY <2>1, <2>2, <2>3
<1>3. writer' # "start" /\ (Open' => Open) BY DEF UploadShape, Together, Open
<1> QED BY <1>2, <1>3, HeardOn

\* Every step keeps HeardInv.
LEMMA HeardStep ==
  ASSUME UploadShape, UploadShape', UploadAssumption, HeardInv, [Next]_vars
  PROVE  HeardInv'
<1>0. /\ ctrl \in Seq(Chunks) /\ active \in Active /\ cmd \in Seq(WriterMsg)
      /\ haveRx \in Seq(Pieces) /\ remoteView \in SUBSET Pieces
      /\ have \in SUBSET Pieces /\ unpublished \in SUBSET have
      /\ Idle.kind = "none" /\ active.kind \in {"ctrl", "piece", "none"}
      /\ writer # "start" => reader \in {"on", "done"}
  BY HeardTypes
<1>a. \A x \in WriterMsg : x.kind # "ctrl" => Silent(Words(x)) BY SilentFrames DEF Words
<1>b. \A b \in Blocks : /\ Silent(Words(Ctrl(Reject(b)))) /\ Ctrl(Reject(b)) \in WriterMsg
                        /\ Silent(Words(Upload(b))) /\ Upload(b) \in WriterMsg
                        /\ Silent(Words(Cancel(b))) /\ Cancel(b) \in WriterMsg
  BY SilentFrames, MsgsAre, FramesAre DEF Words, Ctrl, Upload, Cancel
<1>c. /\ ClearPieces \in WriterMsg /\ ReaderDone \in WriterMsg
      /\ Silent(Words(ClearPieces)) /\ Silent(Words(ReaderDone))
  BY <1>a, MsgsAre DEF ClearPieces, ReaderDone
<1>d. \A b \in Blocks : WithReject(ctrl, b) = ctrl \/ WithReject(ctrl, b) = WithCtrl(ctrl, <<Reject(b)>>)
  BY DEF WithReject
<1>e. \A b \in Blocks : \A v, a, m : After(v, a, WithReject(ctrl, b), m) = After(v, a, ctrl, m)
  <2> SUFFICES ASSUME NEW b \in Blocks, NEW v, NEW a, NEW m
               PROVE  After(v, a, WithReject(ctrl, b), m) = After(v, a, ctrl, m)
    OBVIOUS
  <2> DEFINE fs == <<Reject(b)>>
  <2>1. fs \in Chunks /\ Silent(fs) BY FramesAre, SilentFrames DEF Chunks
  <2> HIDE DEF fs
  <2>2. After(v, a, WithCtrl(ctrl, fs), m) = After(v, a, ctrl, m) BY <1>0, <2>1, SilentCtrl
  <2> QED BY <2>2, <1>d DEF fs
<1>1. ASSUME NEW i \in Pieces, MarkHave(i) PROVE HeardInv'
  BY <1>1, <1>0, HeardKept DEF MarkHave, Open, sessionVars, queueVars, torrentVars, history, bounds, ReaderUnchanged, WriterUnchanged
<1>2. ASSUME NEW i \in Pieces, Publish(i) PROVE HeardInv'
  <2>1. /\ UNCHANGED <<have, hello, reader, stop, writer, active, ctrl, cmd, remoteView>>
        /\ unpublished' = unpublished \ {i}
        /\ haveRx' = IF subscribed THEN Append(haveRx, i) ELSE haveRx
    BY <1>2 DEF Publish, sessionVars, queueVars, history
  <2>2. Heard' = Heard /\ Open' = Open BY <2>1 DEF Heard, Open
  <2>3. have' \ unpublished' \subseteq (have \ unpublished) \cup {i} BY <2>1
  <2>4. reader # "start" => ToSet(haveRx') = ToSet(haveRx) \cup {i}
    <3>1. reader # "start" => haveRx' = Append(haveRx, i)
      BY <2>1 DEF UploadShape, Together
    <3>2. ToSet(Append(haveRx, i)) = ToSet(haveRx) \cup {i}
      <4> DEFINE t == Append(haveRx, i)
      <4>1. Len(t) = Len(haveRx) + 1 /\ Len(haveRx) \in Nat /\ DOMAIN t = 1..Len(t) /\ DOMAIN haveRx = 1..Len(haveRx)
            /\ t[Len(haveRx) + 1] = i /\ \A k \in 1..Len(haveRx) : t[k] = haveRx[k]
        BY <1>0
      <4> HIDE DEF t
      <4>2. \A k \in 1..Len(t) : k \in 1..Len(haveRx) \/ k = Len(haveRx) + 1 BY <4>1
      <4>3. \A k \in 1..Len(haveRx) : k \in 1..Len(t) BY <4>1
      <4>4. Len(haveRx) + 1 \in 1..Len(t) BY <4>1
      <4>5. ToSet(t) \subseteq ToSet(haveRx) \cup {i} BY <4>1, <4>2 DEF ToSet
      <4>6. ToSet(haveRx) \cup {i} \subseteq ToSet(t) BY <4>1, <4>3, <4>4 DEF ToSet
      <4> QED BY <4>5, <4>6 DEF t
    <3> QED BY <3>1, <3>2
  <2>5. Open => reader # "start" BY DEF Open
  <2> QED BY <2>1, <2>2, <2>3, <2>4, <2>5 DEF HeardInv
<1>3. ASSUME Subscribe PROVE HeardInv'
  BY <1>3, <1>0, HeardKept DEF Subscribe, Open, sessionVars, queueVars, torrentVars, history, bounds, ReaderUnchanged, WriterUnchanged
<1>4. ASSUME Snapshot PROVE HeardInv'
  <2>1. reader' = "hello" /\ hello' = <<have>> /\ have' = have BY <1>4 DEF Snapshot, torrentVars
  <2>2. hello'[1] = have BY <2>1
  <2>3. ~Open' BY <2>1 DEF Open
  <2> QED BY <2>1, <2>2, <2>3 DEF HeardInv
<1>5. ASSUME WriteHello PROVE HeardInv'
  <2>1. reader = "hello" /\ reader' = "late" /\ remoteView' = hello[1]
        /\ UNCHANGED <<have, unpublished, haveRx>>
    BY <1>5 DEF WriteHello, torrentVars
  <2>2. ~Open' BY <2>1 DEF Open
  <2> QED BY <2>1, <2>2 DEF HeardInv
<1>6. ASSUME WriteLateHaves PROVE HeardInv'
  <2>1. /\ reader = "late" /\ reader' = "on" /\ remoteView' = remoteView \cup ToSet(haveRx)
        /\ UNCHANGED <<have, unpublished, active, ctrl, cmd>>
    BY <1>6 DEF WriteLateHaves, torrentVars, queueVars
  <2>2. active = Idle /\ ctrl = <<>> /\ cmd = <<>> BY <2>1 DEF UploadShape, Together
  <2>3. Heard' = remoteView'
    <3>1. Said(<<>>) = <<>> BY DEF Said
    <3>2. remoteView' \in SUBSET Pieces BY DEF UploadShape, TypeOK
    <3>3. Learn(remoteView', <<>>) = remoteView' BY <3>2, LearnNothing
    <3>4. Heard' = After(remoteView', Idle, <<>>, <<>>) BY <2>1, <2>2 DEF Heard
    <3> QED BY <1>0, <3>1, <3>3, <3>4 DEF After
  <2> QED BY <2>1, <2>3 DEF HeardInv
<1>7. ASSUME NEW b \in Blocks, OnRequest(b) PROVE HeardInv'
  <2>1. /\ UNCHANGED <<have, unpublished, haveRx, remoteView, active, ctrl, stop, writer, reader>>
        /\ reader = "on"
        /\ cmd' = cmd \/ cmd' = Append(cmd, Upload(b)) \/ cmd' = Append(cmd, Ctrl(Reject(b)))
    BY <1>7 DEF OnRequest, Listening, ReaderUnchanged, queueVars, torrentVars, history
  <2>2. CASE cmd' = Append(cmd, Ctrl(Reject(b))) BY <2>1, <2>2, <1>b, HeardSilence
  <2>3. CASE cmd' = cmd \/ cmd' = Append(cmd, Upload(b)) BY <2>1, <2>3, <1>b, HeardSilence
  <2> QED BY <2>1, <2>2, <2>3
<1>8. ASSUME NEW b \in Blocks, OnCancel(b) PROVE HeardInv'
  BY <1>8, <1>0, <1>b, <1>c, HeardSilence DEF OnCancel, Listening, ReaderUnchanged, queueVars, torrentVars, history
<1>9. ASSUME OnInterested PROVE HeardInv'
  BY <1>9, <1>0, <1>b, <1>c, HeardSilence DEF OnInterested, Listening, ReaderUnchanged, queueVars, torrentVars, history
<1>10. ASSUME OnNotInterested PROVE HeardInv'
  BY <1>10, <1>0, <1>b, <1>c, HeardSilence DEF OnNotInterested, Listening, ReaderUnchanged, queueVars, torrentVars, history
<1>11. ASSUME LeechComplete PROVE HeardInv'
  <2>1. /\ UNCHANGED <<have, unpublished, haveRx, remoteView, active, ctrl, stop, writer>>
        /\ reader = "on" /\ reader' \in {"on", "done"}
    BY <1>11 DEF LeechComplete, queueVars, torrentVars, history
  <2>2. CASE ~mode.upload
    <3>1. cmd' = Append(cmd, ReaderDone) BY <1>11, <2>2 DEF LeechComplete
    <3> QED BY <2>1, <3>1, <1>c, HeardSilence
  <2>3. CASE mode.upload
    <3> DEFINE f == Possession(have)
               x == Ctrl(f)
    <3>1. cmd' = Append(cmd, x) /\ reader' = "on" BY <1>11, <2>1, <2>3 DEF LeechComplete
    <3>2. /\ f \in Frames /\ x \in WriterMsg /\ Words(x) = <<f>>
          /\ \A i \in have : Grants(f, i)
      BY <1>0, FramesAre, MsgsAre DEF Words, Ctrl, Grants, Possession
    <3> HIDE DEF f, x
    <3>3. Heard' = Learn(Heard, <<<<f>>>>) BY <1>0, <2>1, <3>1, <3>2, AfterMsg DEF Heard
    <3>4. have \subseteq Learn(Heard, <<<<f>>>>)
      <4> DEFINE c == <<f>>
      <4>1. DOMAIN c = {1} /\ c[1] = f /\ ~(1 > 1) OBVIOUS
      <4> HIDE DEF c
      <4>2. \A i \in have : Tells(c, i) BY <3>2, <4>1 DEF Tells
      <4>3. Learn(Heard, <<c>>) = {i \in Pieces : Tells(c, i) \/ (i \in Heard /\ ~Denies(c, i))}
        BY LearnOne
      <4> QED BY <1>0, <4>2, <4>3 DEF c
    <3>5. have \subseteq Heard' BY <3>3, <3>4
    <3> QED BY <2>1, <3>1, <3>5 DEF HeardInv
  <2> QED BY <2>2, <2>3
<1>12. ASSUME Stop PROVE HeardInv'
  BY <1>12, <1>0, HeardKept DEF Stop, Open, sessionVars, queueVars, torrentVars, history, bounds, ReaderUnchanged, WriterUnchanged
<1>13. ASSUME NEW t \in BOOLEAN, ReaderEnds(t) PROVE HeardInv'
  <2>1. /\ UNCHANGED <<have, unpublished, haveRx, remoteView, active, ctrl, stop, writer>>
        /\ reader = "on" /\ reader' = "done" /\ cmd' = Append(cmd, ReaderDone)
    BY <1>13 DEF ReaderEnds, queueVars, torrentVars, history
  <2> QED BY <2>1, <1>c, HeardSilence
<1>14. ASSUME KeepAliveTimer PROVE HeardInv'
  <2>1. /\ writer = "idle" /\ writer' = "gather" /\ (ctrl' = ctrl \/ ctrl' = WithCtrl(ctrl, <<KeepAlive>>))
        /\ UNCHANGED <<have, unpublished, haveRx, remoteView, active, cmd, stop, reader>>
    BY <1>14 DEF KeepAliveTimer, WriterUnchanged, sessionVars, torrentVars, history
  <2> DEFINE fs == <<KeepAlive>>
  <2>2. fs \in Chunks /\ Silent(fs) BY FramesAre, SilentFrames DEF Chunks
  <2>5. ctrl' = ctrl \/ ctrl' = WithCtrl(ctrl, fs) BY <2>1
  <2> HIDE DEF fs
  <2>6. After(remoteView, active, WithCtrl(ctrl, fs), cmd) = Heard BY <1>0, <2>2, SilentCtrl DEF Heard
  <2>7. Heard' = After(remoteView, active, ctrl', cmd) BY <2>1 DEF Heard
  <2>8. After(remoteView, active, ctrl, cmd) = Heard BY DEF Heard
  <2>3. Heard' = Heard BY <2>5, <2>6, <2>7, <2>8
  <2>4. writer' # "start" /\ (Open' => Open) BY <2>1 DEF Open
  <2> QED BY <2>1, <2>3, <2>4, HeardOn
<1>15. ASSUME TakeMsg PROVE HeardInv'
  <2> DEFINE m == Head(cmd)
  <2>1. /\ writer \in {"gather", "idle"} /\ writer' = "gather" /\ cmd # <<>> /\ cmd' = Tail(cmd)
        /\ UNCHANGED <<have, unpublished, haveRx, remoteView, stop, reader>>
        /\ ApplyMsg(m) /\ m \in WriterMsg /\ Tail(cmd) \in Seq(WriterMsg)
    BY <1>15, <1>0 DEF TakeMsg, WriterUnchanged, sessionVars, torrentVars
  <2>2. /\ m.kind = "ctrl" => After(remoteView, active, WithCtrl(ctrl, <<m.frame>>), Tail(cmd)) = Heard
        /\ m.kind # "ctrl" => After(remoteView, active, ctrl, Tail(cmd)) = Heard
    BY <1>0, <2>1, AfterTake DEF Heard
  <2> HIDE DEF m
  <2>3. Heard' = After(remoteView, active', ctrl', Tail(cmd)) BY <2>1 DEF Heard
  <2>a. writer' # "start" /\ (Open' => Open) BY <2>1 DEF Open
  <2>4. ASSUME m.kind = "ctrl" PROVE Heard' = Heard
    <3>1. ctrl' = WithCtrl(ctrl, <<m.frame>>) /\ active' = active BY <2>1, <2>4 DEF ApplyMsg
    <3> QED BY <2>2, <2>3, <2>4, <3>1
  <2>5. ASSUME m.kind # "ctrl" PROVE Heard' = Heard
    <3>1. ctrl' = ctrl \/ (m.kind = "upload" /\ m.block \in Blocks /\ ctrl' = WithReject(ctrl, m.block))
      BY <2>1, <2>5, MsgsAre DEF ApplyMsg, PushPiece, Refuse, Enqueue, CancelPiece, ClearAll, TakeBack
    <3>2. active' = active \/ (active.kind = "piece" /\ active' = Idle)
      BY <2>1, <2>5, MsgsAre DEF ApplyMsg, PushPiece, Refuse, Enqueue, CancelPiece, ClearAll, TakeBack
    <3>3. After(remoteView, active', ctrl', Tail(cmd)) = After(remoteView, active', ctrl, Tail(cmd))
      BY <1>e, <3>1
    <3>4. After(remoteView, active', ctrl, Tail(cmd)) = After(remoteView, active, ctrl, Tail(cmd))
      BY <1>0, <3>2, AfterOther
    <3> QED BY <2>2, <2>3, <2>5, <3>3, <3>4
  <2>6. Heard' = Heard BY <2>4, <2>5
  <2> QED BY <2>1, <2>6, <2>a, HeardOn
<1>16. ASSUME TakeHaves PROVE HeardInv'
  <2> DEFINE hs == [k \in 1..Len(haveRx) |-> Have(haveRx[k])]
  <2>1. /\ writer = "gather" /\ writer' # "start" /\ cmd = <<>> /\ cmd' = cmd /\ haveRx' = <<>>
        /\ ctrl' = IF haveRx = <<>> THEN ctrl ELSE WithCtrl(ctrl, hs)
        /\ UNCHANGED <<have, unpublished, remoteView, active, stop, reader>>
    BY <1>16 DEF TakeHaves, WriterUnchanged, sessionVars, torrentVars, history
  <2>2. Open' => Open BY <2>1 DEF Open
  <2>3. CASE haveRx = <<>>
    <3>1. Heard' = Heard BY <2>1, <2>3 DEF Heard
    <3> QED BY <2>1, <2>2, <2>3, <3>1, HeardOn
  <2>4. CASE haveRx # <<>>
    <3>1. hs \in Chunks BY <2>4, AddedHaves
    <3>2. DOMAIN hs = DOMAIN haveRx /\ \A k \in DOMAIN haveRx : hs[k] = Have(haveRx[k]) BY <1>0
    <3>3. \A k \in DOMAIN hs : Grants(hs[k], haveRx[k]) /\ \A i : ~Takes(hs[k], i)
      BY <3>2 DEF Have, Grants, Takes
    <3> HIDE DEF hs
    <3> DEFINE u == Learn(Learn(remoteView, IF active.kind = "ctrl" THEN <<active.frames>> ELSE <<>>), ctrl)
    <3>4. Said(<<>>) = <<>> BY DEF Said
    <3>5. u \in SUBSET Pieces /\ Learn(u, <<>>) = u BY LearnIsPieces, LearnNothing
    <3>6. Heard = u BY <2>1, <3>4, <3>5 DEF Heard, After
    <3>7. Heard' = Learn(u, <<hs>>)
      <4>1. Heard' = After(remoteView, active, WithCtrl(ctrl, hs), <<>>) BY <2>1, <2>4 DEF Heard
      <4>2. Learn(Learn(u, <<hs>>), <<>>) = Learn(u, <<hs>>) BY LearnIsPieces, LearnNothing
      <4>3. Learn(Learn(remoteView, IF active.kind = "ctrl" THEN <<active.frames>> ELSE <<>>), WithCtrl(ctrl, hs))
              = Learn(u, <<hs>>)
        BY <1>0, <3>1, LearnCtrl
      <4> QED BY <3>4, <4>1, <4>2, <4>3 DEF After
    <3> HIDE DEF u
    <3>8. Learn(u, <<hs>>) = {i \in Pieces : Tells(hs, i) \/ (i \in u /\ ~Denies(hs, i))} BY LearnOne
    <3>9. \A i : ~Denies(hs, i) BY <3>3 DEF Denies
    <3>10. \A i \in ToSet(haveRx) : Tells(hs, i) /\ i \in Pieces
      <4> SUFFICES ASSUME NEW k \in DOMAIN haveRx PROVE Tells(hs, haveRx[k]) /\ haveRx[k] \in Pieces
        BY DEF ToSet
      <4> QED BY <1>0, <3>2, <3>3, ElementOfSeq DEF Tells
    <3>11. Heard \cup ToSet(haveRx) \subseteq Heard' BY <3>5, <3>6, <3>7, <3>8, <3>9, <3>10
    <3> QED BY <2>1, <2>2, <3>11, HeardOn
  <2> QED BY <2>3, <2>4
<1>17. ASSUME WakeForHave PROVE HeardInv'
  BY <1>17, <1>0, HeardKept DEF WakeForHave, Open, sessionVars, queueVars, torrentVars, history, bounds, ReaderUnchanged, WriterUnchanged
<1>18. ASSUME PickCtrl PROVE HeardInv'
  <2>1. /\ writer = "send" /\ writer' = "writing" /\ active = Idle /\ ctrl # <<>>
        /\ active' = [kind |-> "ctrl", frames |-> Head(ctrl)] /\ ctrl' = Tail(ctrl)
        /\ UNCHANGED <<have, unpublished, haveRx, remoteView, cmd, stop, reader>>
    BY <1>18 DEF PickCtrl, WriterUnchanged, sessionVars, torrentVars, history
  <2>2. Heard' = Heard BY <1>0, <2>1, AfterPick DEF Heard
  <2>3. writer' # "start" /\ (Open' => Open) BY <2>1 DEF Open
  <2> QED BY <2>1, <2>2, <2>3, HeardOn
<1>19. ASSUME PickPiece PROVE HeardInv'
  BY <1>19, <1>0, HeardKept DEF PickPiece, Open, sessionVars, queueVars, torrentVars, history, bounds, ReaderUnchanged, WriterUnchanged
<1>20. ASSUME FillOk PROVE HeardInv'
  <2>1. active = Idle BY <1>20 DEF FillOk, UploadShape, Together
  <2>2. active'.kind = "piece" BY <1>20 DEF FillOk, Go, RateLimited
  <2> QED BY <1>20, <1>0, <2>1, <2>2, HeardKept DEF FillOk, Open, WriterUnchanged, sessionVars, torrentVars, history
<1>21. ASSUME FillFails PROVE HeardInv'
  <2>1. /\ writer = "send" /\ writer' \in {"send", "gather"} /\ filling \in Blocks /\ ctrl' = WithReject(ctrl, filling)
        /\ UNCHANGED <<have, unpublished, haveRx, remoteView, active, cmd, stop, reader>>
    BY <1>21 DEF FillFails, WriterUnchanged, sessionVars, torrentVars, history, UploadShape, TypeOK
  <2>2. Heard' = Heard BY <1>e, <2>1 DEF Heard
  <2>3. writer' # "start" /\ (Open' => Open) BY <2>1 DEF Open
  <2> QED BY <2>1, <2>2, <2>3, HeardOn
<1>22. ASSUME Resume PROVE HeardInv'
  <2>1. active' = active /\ writer' \in {"writing", "sleep"} BY <1>22 DEF Resume, Go, RateLimited
  <2> QED BY <1>22, <1>0, <2>1, HeardKept DEF Resume, Open, WriterUnchanged, sessionVars, torrentVars, history
<1>23. ASSUME WakeUp PROVE HeardInv'
  BY <1>23, <1>0, HeardKept DEF WakeUp, Open, sessionVars, queueVars, torrentVars, history, bounds, ReaderUnchanged, WriterUnchanged
<1>24. ASSUME Written PROVE HeardInv'
  <2>1. /\ writer = "writing" /\ writer' = "send" /\ active' = Idle /\ active # Idle /\ OnWire(active)
        /\ UNCHANGED <<have, unpublished, haveRx, cmd, ctrl, stop, reader>>
    BY <1>24 DEF Written, WriterUnchanged, sessionVars, torrentVars, UploadShape, Together
  <2>2. Heard' = Heard
    <3>1. CASE active.kind = "ctrl"
      <4>1. remoteView' = Learn(remoteView, <<active.frames>>) BY <2>1, <3>1 DEF OnWire
      <4> QED BY <1>0, <2>1, <3>1, <4>1, AfterWritten DEF Heard
    <3>2. CASE active.kind # "ctrl"
      <4>1. remoteView' = remoteView BY <2>1, <3>2 DEF OnWire
      <4> QED BY <1>0, <2>1, <3>2, <4>1, AfterOther DEF Heard
    <3> QED BY <3>1, <3>2
  <2>3. writer' # "start" /\ (Open' => Open) BY <2>1 DEF Open
  <2> QED BY <2>1, <2>2, <2>3, HeardOn
<1>25. ASSUME SendEnds PROVE HeardInv'
  BY <1>25, <1>0, HeardKept DEF SendEnds, Open, WriterUnchanged, sessionVars, torrentVars, history
<1>26. ASSUME WriteFails PROVE HeardInv'
  <2>1. ~Open' /\ writer' # "start" BY <1>26 DEF WriteFails, Open
  <2>2. UNCHANGED <<have, unpublished>> BY <1>26 DEF WriteFails, WriterUnchanged, torrentVars
  <2> QED BY <2>1, <2>2, HeardOn
<1>27. ASSUME LeaveLoop PROVE HeardInv'
  <2>1. ~Open' /\ writer' # "start" BY <1>27 DEF LeaveLoop, Open
  <2>2. UNCHANGED <<have, unpublished>> BY <1>27 DEF LeaveLoop, WriterUnchanged, torrentVars
  <2> QED BY <2>1, <2>2, HeardOn
<1>28. ASSUME Flush PROVE HeardInv'
  <2>1. ~Open' /\ writer' # "start" BY <1>28 DEF Flush, Open
  <2>2. UNCHANGED <<have, unpublished>> BY <1>28 DEF Flush, WriterUnchanged, torrentVars
  <2> QED BY <2>1, <2>2, HeardOn
<1>29. ASSUME FlushWrite PROVE HeardInv'
  <2>1. ~Open' /\ writer' # "start" BY <1>29 DEF FlushWrite, Open
  <2>2. UNCHANGED <<have, unpublished>> BY <1>29 DEF FlushWrite, WriterUnchanged, torrentVars
  <2> QED BY <2>1, <2>2, HeardOn
<1>30. ASSUME FlushEnds PROVE HeardInv'
  <2>1. ~Open' /\ writer' # "start" BY <1>30 DEF FlushEnds, Open
  <2>2. UNCHANGED <<have, unpublished>> BY <1>30 DEF FlushEnds, WriterUnchanged, torrentVars
  <2> QED BY <2>1, <2>2, HeardOn
<1>31. CASE UNCHANGED vars BY <1>31, <1>0, HeardKept DEF vars, Open
<1> QED BY <1>1, <1>2, <1>3, <1>4, <1>5, <1>6, <1>7, <1>8, <1>9, <1>10, <1>11, <1>12, <1>13, <1>14, <1>15, <1>16, <1>17, <1>18, <1>19, <1>20, <1>21, <1>22, <1>23, <1>24, <1>25, <1>26, <1>27, <1>28, <1>29, <1>30, <1>31 DEF Next, HelloNext, WriterNext

\* Whichever thread marks a piece, whenever it does, the remote of an open
\* session will have heard of it when it has read what is queued for it:
\* subscribe_have comes before the snapshot of the bitfield, HAVEs are queued
\* after the commands, and no frame is lost on the way from the reader to the
\* wire, though chunks are coalesced and possession is sent again.
THEOREM EveryPieceIsHeard == Spec => []RemoteLearns
<1>1. Init => HeardInv
  <2> SUFFICES ASSUME Init PROVE HeardInv OBVIOUS
  <2>1. reader = "start" BY DEF Init
  <2> QED BY <2>1 DEF HeardInv, Open
<1>2. UploadShape /\ UploadShape' /\ HeardInv /\ [Next]_vars => HeardInv'
  BY HeardStep, UploadAssumption
<1>3. UploadShape /\ HeardInv => RemoteLearns
  <2> SUFFICES ASSUME UploadShape, HeardInv PROVE RemoteLearns OBVIOUS
  <2>1. WillKnow = Heard \cup ToSet(haveRx)
    BY HeardTypes, AfterIs DEF WillKnow, InHand, Heard
  <2> QED BY <2>1 DEF HeardInv, RemoteLearns
<1> QED BY <1>1, <1>2, <1>3, ShapeAlways, PTL DEF Spec

-----------------------------------------------------------------------------
(* The session implements RequestLedger, step by step: what each queue     *)
(* contributes to the number of answers owed for a block.                  *)

One(P) == IF P THEN 1 ELSE 0

\* Requests among the commands, those already refused included.
Asks(m, b) == Times(m, Upload(b)) + Times(m, Ctrl(Reject(b)))
AsksOne(x, b) == One(x = Upload(b)) + One(x = Ctrl(Reject(b)))

\* Refusals among the chunks, and in the chunk in hand.
Refusals(c, b) == Cardinality(Places(c, Reject(b)))
HandRefusals(a, b) == IF a.kind = "ctrl" THEN Times(a.frames, Reject(b)) ELSE 0

Blocked(p, f, a, b) == Times(p, b) + One(f = b) + One(a.kind = "piece" /\ a.block = b)

Due(m, p, f, a, c, b) == Asks(m, b) + Blocked(p, f, a, b) + (Refusals(c, b) + HandRefusals(a, b))

RevokedBy(m) == {b \in Blocks : Cancel(b) \in ToSet(m) \/ ClearPieces \in ToSet(m)}

\* What is sent is in the channel.
LEMMA ToSetAppend ==
  ASSUME NEW S, NEW s \in Seq(S), NEW x \in S
  PROVE  ToSet(Append(s, x)) = ToSet(s) \cup {x}
<1> DEFINE t == Append(s, x)
<1>1. Len(t) = Len(s) + 1 /\ Len(s) \in Nat /\ DOMAIN t = 1..Len(t) /\ DOMAIN s = 1..Len(s)
      /\ t[Len(s) + 1] = x /\ \A k \in 1..Len(s) : t[k] = s[k]
  OBVIOUS
<1> HIDE DEF t
<1>2. \A k \in 1..Len(t) : k \in 1..Len(s) \/ k = Len(s) + 1 BY <1>1
<1>3. \A k \in 1..Len(s) : k \in 1..Len(t) BY <1>1
<1>4. Len(s) + 1 \in 1..Len(t) BY <1>1
<1>5. ToSet(t) \subseteq ToSet(s) \cup {x} BY <1>1, <1>2 DEF ToSet
<1>6. ToSet(s) \cup {x} \subseteq ToSet(t) BY <1>1, <1>3, <1>4 DEF ToSet
<1> QED BY <1>5, <1>6 DEF t

\* What is taken was in the channel.
LEMMA ToSetTail ==
  ASSUME NEW S, NEW s \in Seq(S), s # <<>>
  PROVE  ToSet(s) = ToSet(Tail(s)) \cup {Head(s)}
<1> DEFINE t == Tail(s)
           x == Head(s)
<1>1. Len(t) = Len(s) - 1 /\ Len(s) \in Nat \ {0} /\ DOMAIN t = 1..Len(t) /\ DOMAIN s = 1..Len(s)
      /\ s[1] = x /\ \A k \in 1..Len(t) : t[k] = s[k + 1]
  OBVIOUS
<1> HIDE DEF t, x
<1>2. ASSUME NEW k \in 1..Len(s) PROVE s[k] \in ToSet(t) \cup {x}
  <2>1. CASE k = 1 BY <2>1, <1>1
  <2>2. CASE k # 1
    <3>1. k - 1 \in 1..Len(t) /\ (k - 1) + 1 = k BY <2>2, <1>1
    <3>2. s[k] = t[k - 1] BY <3>1, <1>1
    <3> QED BY <3>1, <3>2, <1>1 DEF ToSet
  <2> QED BY <2>1, <2>2
<1>3. \A k \in 1..Len(t) : k + 1 \in 1..Len(s) BY <1>1
<1>4. 1 \in 1..Len(s) BY <1>1
<1>5. ToSet(s) \subseteq ToSet(t) \cup {x} BY <1>1, <1>2 DEF ToSet
<1>6. ToSet(t) \cup {x} \subseteq ToSet(s) BY <1>1, <1>3, <1>4 DEF ToSet
<1> QED BY <1>5, <1>6 DEF t, x

\* One counts a fact.
LEMMA OneIs == ASSUME NEW P PROVE One(P) \in {0, 1} /\ (~P => One(P) = 0) /\ (P => One(P) = 1)
BY DEF One

\* What is owed for a block is a number, place by place.
LEMMA DueNat ==
  ASSUME NEW m \in Seq(WriterMsg), NEW p \in Seq(Blocks), NEW f, NEW a \in Active,
         NEW c \in Seq(Chunks), NEW b
  PROVE  /\ Asks(m, b) \in Nat /\ Times(p, b) \in Nat /\ Blocked(p, f, a, b) \in Nat
         /\ Refusals(c, b) \in Nat /\ HandRefusals(a, b) \in Nat
         /\ Due(m, p, f, a, c, b) \in Nat
<1>1. Times(m, Upload(b)) \in Nat /\ Times(m, Ctrl(Reject(b))) \in Nat /\ Times(p, b) \in Nat
  BY TimesNat
<1>2. Refusals(c, b) \in Nat BY ChunksAre, PlacesFinite DEF Refusals
<1>3. HandRefusals(a, b) \in Nat BY ActivesAre, TimesNat DEF HandRefusals
<1>4. Asks(m, b) \in Nat BY <1>1 DEF Asks
<1>5. Blocked(p, f, a, b) \in Nat BY <1>1 DEF Blocked, One
<1> QED BY <1>1, <1>2, <1>3, <1>4, <1>5 DEF Due

\* A message that is sent asks once more, or not.
LEMMA AsksAppend ==
  ASSUME NEW m \in Seq(WriterMsg), NEW x \in WriterMsg, NEW b
  PROVE  Asks(Append(m, x), b) = Asks(m, b) + AsksOne(x, b)
<1>1. Times(m, Upload(b)) \in Nat /\ Times(m, Ctrl(Reject(b))) \in Nat BY TimesNat
<1>2. Times(Append(m, x), Upload(b)) = Times(m, Upload(b)) + (IF x = Upload(b) THEN 1 ELSE 0)
  BY TimesAppend
<1>3. Times(Append(m, x), Ctrl(Reject(b)))
        = Times(m, Ctrl(Reject(b))) + (IF x = Ctrl(Reject(b)) THEN 1 ELSE 0)
  BY TimesAppend
<1> QED BY <1>1, <1>2, <1>3 DEF Asks, AsksOne, One

\* A message that is taken asks once less, or not.
LEMMA AsksTail ==
  ASSUME NEW m \in Seq(WriterMsg), m # <<>>, NEW b
  PROVE  Asks(m, b) = Asks(Tail(m), b) + AsksOne(Head(m), b)
<1>0. Tail(m) \in Seq(WriterMsg) BY HeadTailProperties
<1>1. Times(Tail(m), Upload(b)) \in Nat /\ Times(Tail(m), Ctrl(Reject(b))) \in Nat
  BY <1>0, TimesNat
<1>2. Times(m, Upload(b)) = Times(Tail(m), Upload(b)) + (IF Head(m) = Upload(b) THEN 1 ELSE 0)
  BY TimesTail
<1>3. Times(m, Ctrl(Reject(b)))
        = Times(Tail(m), Ctrl(Reject(b))) + (IF Head(m) = Ctrl(Reject(b)) THEN 1 ELSE 0)
  BY TimesTail
<1> QED BY <1>1, <1>2, <1>3 DEF Asks, AsksOne, One

\* Frames put behind the control queue add their rejects.
LEMMA RefusalsWith ==
  ASSUME NEW c \in Seq(Chunks), NEW fs \in Chunks, NEW b
  PROVE  Refusals(WithCtrl(c, fs), b) = Refusals(c, b) + Times(fs, Reject(b))
<1>1. c \in Seq(Seq(Frames)) /\ fs \in Seq(Frames) BY ChunksAre DEF Chunks
<1>2. CASE c # <<>> /\ Len(Last(c)) + Len(fs) <= ChunkMax
  <2> DEFINE t == ReplaceAt(c, Len(c), Last(c) \o fs)
  <2>1. Cardinality(Places(t, Reject(b))) = Cardinality(Places(c, Reject(b))) + Times(fs, Reject(b))
    BY <1>1, <1>2, PlacesGrow
  <2>2. WithCtrl(c, fs) = t BY <1>2 DEF WithCtrl
  <2> QED BY <2>1, <2>2 DEF Refusals
<1>3. CASE ~(c # <<>> /\ Len(Last(c)) + Len(fs) <= ChunkMax)
  <2>1. WithCtrl(c, fs) = Append(c, fs) BY <1>3 DEF WithCtrl
  <2> QED BY <1>1, <2>1, PlacesAppend DEF Refusals
<1> QED BY <1>2, <1>3

\* A chunk taken in hand takes its rejects with it.
LEMMA RefusalsTail ==
  ASSUME NEW c \in Seq(Chunks), c # <<>>, NEW b
  PROVE  /\ Refusals(c, b) = Refusals(Tail(c), b) + Times(Head(c), Reject(b))
         /\ Tail(c) \in Seq(Chunks) /\ Head(c) \in Seq(Frames)
<1>1. c \in Seq(Seq(Frames)) BY ChunksAre
<1>2. Tail(c) \in Seq(Chunks) /\ Head(c) \in Chunks BY HeadTailProperties
<1> QED BY <1>1, <1>2, PlacesTail DEF Refusals, Chunks

\* One frame counts once.
LEMMA RefusalOne ==
  ASSUME NEW f \in Frames, NEW b
  PROVE  Times(<<f>>, Reject(b)) = One(f = Reject(b))
<1> DEFINE e == <<>>
<1>1. e \in Seq(Frames) /\ DOMAIN e = {} OBVIOUS
<1>2. Append(e, f) = <<f>> OBVIOUS
<1> HIDE DEF e
<1>3. Times(e, Reject(b)) = 0 BY <1>1, TimesNat
<1>4. Times(Append(e, f), Reject(b)) = Times(e, Reject(b)) + (IF f = Reject(b) THEN 1 ELSE 0)
  BY <1>1, TimesAppend
<1> QED BY <1>2, <1>3, <1>4 DEF One

\* No message is two messages.
LEMMA MsgsDiffer ==
  ASSUME NEW b, NEW d, NEW f
  PROVE  /\ Upload(b) = Upload(d) => b = d
         /\ Cancel(b) = Cancel(d) => b = d
         /\ Reject(b) = Reject(d) => b = d
         /\ Ctrl(f) = Ctrl(Reject(b)) => f = Reject(b)
         /\ Upload(b) # Cancel(d) /\ Upload(b) # Ctrl(f) /\ Upload(b) # ClearPieces
         /\ Upload(b) # ReaderDone /\ Cancel(b) # Ctrl(f) /\ Cancel(b) # ClearPieces
         /\ Cancel(b) # ReaderDone /\ Ctrl(f) # ClearPieces /\ Ctrl(f) # ReaderDone
         /\ ClearPieces # ReaderDone
         /\ KeepAlive # Reject(b)
         /\ \A i : Have(i) # Reject(b)
         /\ \A S : Possession(S) # Reject(b)
<1>1. Upload(b) = Upload(d) => b = d BY DEF Upload
<1>2. Cancel(b) = Cancel(d) => b = d BY DEF Cancel
<1>3. Reject(b) = Reject(d) => b = d BY DEF Reject
<1>4. Ctrl(f) = Ctrl(Reject(b)) => f = Reject(b)
  <2>1. \A g : Ctrl(g).frame = g BY DEF Ctrl
  <2> QED BY <2>1
<1>5. \A x : /\ Upload(x).kind = "upload" /\ Cancel(x).kind = "cancel" /\ Ctrl(x).kind = "ctrl"
             /\ Reject(x).kind = "reject" /\ Have(x).kind = "have" /\ Possession(x).kind = "possession"
  BY DEF Upload, Cancel, Ctrl, Reject, Have, Possession
<1>6. ClearPieces.kind = "clear" /\ ReaderDone.kind = "done" /\ KeepAlive.kind = "keepalive"
  BY DEF ClearPieces, ReaderDone, KeepAlive
<1>7. KeepAlive # Reject(b) BY <1>5, <1>6
<1>8. \A i : Have(i) # Reject(b) BY <1>5
<1>9. \A S : Possession(S) # Reject(b) BY <1>5
<1>10. /\ Upload(b) # Cancel(d) /\ Upload(b) # Ctrl(f) /\ Upload(b) # ClearPieces
       /\ Upload(b) # ReaderDone /\ Cancel(b) # Ctrl(f) /\ Cancel(b) # ClearPieces
       /\ Cancel(b) # ReaderDone /\ Ctrl(f) # ClearPieces /\ Ctrl(f) # ReaderDone
       /\ ClearPieces # ReaderDone
  BY <1>5, <1>6
<1> QED BY <1>1, <1>2, <1>3, <1>4, <1>7, <1>8, <1>9, <1>10

-----------------------------------------------------------------------------
(* The refinement.                                                         *)

LedgerStep == [Ledger!LedgerNext]_(Ledger!ledgerVars)

\* The answers owed for b while the session is not ending.
Debt(b) == Due(cmd, pieces, filling, active, ctrl, b)

\* The mapping to the ledger, written out.
LEMMA DebtIs ==
  /\ \A b : Owed(b) = IF Ended THEN 0 ELSE Debt(b)
  /\ Revoked = IF Ended THEN {} ELSE RevokedBy(cmd)
BY DEF Owed, InQueue, Rejected, Rejections, Debt, Due, Asks, Blocked, Refusals, HandRefusals,
       One, Revoked, RevokedBy

\* The same after a step.
LEMMA DebtIsNext ==
  /\ \A b : Owed(b)' = IF Ended' THEN 0 ELSE Debt(b)'
  /\ Revoked' = IF Ended' THEN {} ELSE RevokedBy(cmd')
BY DEF Owed, InQueue, Rejected, Rejections, Debt, Due, Asks, Blocked, Refusals, HandRefusals,
       One, Revoked, RevokedBy

\* A step that changes no debt is a stutter of the ledger.
LEMMA LedgerSame ==
  ASSUME mode' = mode, Ended' = Ended,
         ~Ended => /\ sent' = sent /\ RevokedBy(cmd') = RevokedBy(cmd)
                   /\ \A b \in Blocks : Debt(b)' = Debt(b)
  PROVE  LedgerStep
<1>1. \A b \in Blocks : Owed(b)' = Owed(b) BY DebtIs, DebtIsNext
<1>2. Revoked' = Revoked BY DebtIs, DebtIsNext
<1>3. [b \in Blocks |-> Owed(b)]' = [b \in Blocks |-> Owed(b)] BY <1>1
<1>4. (IF Ended THEN [b \in Blocks |-> 0] ELSE sent)' = (IF Ended THEN [b \in Blocks |-> 0] ELSE sent)
  BY DEF Ended
<1> QED BY <1>2, <1>3, <1>4 DEF LedgerStep, Ledger!ledgerVars

\* A new debt is a request of the ledger.
LEMMA LedgerAsks ==
  ASSUME mode' = mode, ~Ended, ~Ended', NEW d \in Blocks, sent' = sent,
         RevokedBy(cmd') = RevokedBy(cmd),
         \A b \in Blocks : Debt(b) \in Nat /\ Debt(b)' = Debt(b) + One(b = d)
  PROVE  LedgerStep
<1>1. \A b \in Blocks : Owed(b)' = Owed(b) + One(b = d) BY DebtIs, DebtIsNext
<1>2. Revoked' = Revoked BY DebtIs, DebtIsNext
<1>3. [b \in Blocks |-> Owed(b)]' = [[b \in Blocks |-> Owed(b)] EXCEPT ![d] = @ + 1]
  <2>1. ASSUME NEW b \in Blocks PROVE Owed(b)' = IF b = d THEN Owed(b) + 1 ELSE Owed(b)
    <3>1. CASE b = d
      <4>1. One(b = d) = 1 BY <3>1 DEF One
      <4> QED BY <1>1, <3>1, <4>1
    <3>2. CASE b # d
      <4>1. One(b = d) = 0 BY <3>2 DEF One
      <4>2. Owed(b)' = Owed(b) + 0 /\ Owed(b) \in Int BY <1>1, <4>1, DebtIs
      <4> QED BY <3>2, <4>2
    <3> QED BY <3>1, <3>2
  <2> QED BY <2>1
<1>4. (IF Ended THEN [b \in Blocks |-> 0] ELSE sent)' = (IF Ended THEN [b \in Blocks |-> 0] ELSE sent)
  BY DEF Ended
<1>c. Ended' = Ended BY DEF Ended
<1>a. Ledger!Ask(d) BY <1>2, <1>3, <1>4, <1>c DEF Ledger!Ask
<1>b. Ledger!LedgerNext BY <1>a DEF Ledger!LedgerNext
<1> QED BY <1>b DEF LedgerStep

\* A cancel or choke on its way is a revocation.
LEMMA LedgerRevokes ==
  ASSUME mode' = mode, ~Ended, ~Ended', NEW B \in SUBSET Blocks, sent' = sent,
         RevokedBy(cmd') = RevokedBy(cmd) \cup B,
         \A b \in Blocks : Debt(b)' = Debt(b)
  PROVE  LedgerStep
<1>1. \A b \in Blocks : Owed(b)' = Owed(b) BY DebtIs, DebtIsNext
<1>2. Revoked' = Revoked \cup B BY DebtIs, DebtIsNext
<1>3. [b \in Blocks |-> Owed(b)]' = [b \in Blocks |-> Owed(b)] BY <1>1
<1>4. (IF Ended THEN [b \in Blocks |-> 0] ELSE sent)' = (IF Ended THEN [b \in Blocks |-> 0] ELSE sent)
  BY DEF Ended
<1>c. Ended' = Ended BY DEF Ended
<1>a. Ledger!Revoke(B) BY <1>2, <1>3, <1>4, <1>c DEF Ledger!Revoke
<1>b. Ledger!LedgerNext BY <1>a DEF Ledger!LedgerNext
<1> QED BY <1>b DEF LedgerStep

\* Debts that become answers are answers of the ledger.
LEMMA LedgerAnswers ==
  ASSUME mode' = mode, ~Ended, ~Ended', RevokedBy(cmd') = RevokedBy(cmd),
         sent \in [Blocks -> Nat], sent' \in [Blocks -> Nat],
         \A b \in Blocks : /\ Debt(b) \in Nat /\ Debt(b)' \in Nat
                           /\ sent'[b] >= sent[b]
                           /\ Debt(b)' = Debt(b) - (sent'[b] - sent[b])
  PROVE  LedgerStep
<1>1. \A b \in Blocks : Owed(b) = Debt(b) /\ Owed(b)' = Debt(b)' BY DebtIs, DebtIsNext
<1>2. Revoked' = Revoked BY DebtIs, DebtIsNext
<1> DEFINE o == [b \in Blocks |-> Owed(b)]
<1>3. \A b \in Blocks : o'[b] = Debt(b)' /\ o[b] = Debt(b) BY <1>1
<1>4. (IF Ended THEN [b \in Blocks |-> 0] ELSE sent)' = sent' BY DEF Ended
<1>5. \A b \in Blocks : o'[b] >= 0 BY <1>3
<1>6. \A b \in Blocks : /\ (IF Ended THEN [b_1 \in Blocks |-> 0] ELSE sent)'[b]
                             >= (IF Ended THEN [b_1 \in Blocks |-> 0] ELSE sent)[b]
                        /\ o'[b] = o[b] - ((IF Ended THEN [b_1 \in Blocks |-> 0] ELSE sent)'[b]
                                            - (IF Ended THEN [b_1 \in Blocks |-> 0] ELSE sent)[b])
                        /\ o'[b] >= 0
  BY <1>3, <1>4, <1>5
<1>c. Ended' = Ended BY DEF Ended
<1>a. Ledger!Answer BY <1>2, <1>6, <1>c DEF Ledger!Answer
<1>b. Ledger!LedgerNext BY <1>a DEF Ledger!LedgerNext
<1> QED BY <1>b DEF LedgerStep

\* Debts taken back were revoked, or the ledger may forget them.
LEMMA LedgerForgets ==
  ASSUME mode' = mode, ~Ended, ~Ended', sent' = sent, RevokedBy(cmd') \subseteq RevokedBy(cmd),
         \A b \in Blocks : /\ Debt(b) \in Nat /\ Debt(b)' \in Nat
                           /\ Debt(b)' <= Debt(b)
                           /\ Debt(b)' < Debt(b) => (b \in RevokedBy(cmd) \/ ~mode.fast)
  PROVE  LedgerStep
<1>1. \A b \in Blocks : Owed(b) = Debt(b) /\ Owed(b)' = Debt(b)' BY DebtIs, DebtIsNext
<1>2. Revoked' \subseteq Revoked /\ Revoked = RevokedBy(cmd) BY DebtIs, DebtIsNext
<1> DEFINE o == [b \in Blocks |-> Owed(b)]
<1>3. \A b \in Blocks : o'[b] = Debt(b)' /\ o[b] = Debt(b) BY <1>1
<1>4. \A b \in Blocks : /\ o'[b] <= o[b]
                        /\ o'[b] < o[b] => (b \in Revoked \/ ~mode.fast)
  BY <1>2, <1>3
<1>5. (IF Ended THEN [b \in Blocks |-> 0] ELSE sent)' = (IF Ended THEN [b \in Blocks |-> 0] ELSE sent)
  BY DEF Ended
<1>c. Ended' = Ended BY DEF Ended
<1>a. Ledger!Forget BY <1>2, <1>4, <1>5, <1>c DEF Ledger!Forget
<1>b. Ledger!LedgerNext BY <1>a DEF Ledger!LedgerNext
<1> QED BY <1>b DEF LedgerStep

\* The end of the session closes the ledger.
LEMMA LedgerCloses ==
  ASSUME mode' = mode, ~Ended, Ended'
  PROVE  LedgerStep
<1>1. \A b \in Blocks : Owed(b)' = 0 BY DebtIsNext
<1>2. Revoked' = {} BY DebtIsNext
<1>3. [b \in Blocks |-> Owed(b)]' = [b \in Blocks |-> 0] BY <1>1
<1>4. (IF Ended THEN [b \in Blocks |-> 0] ELSE sent)' = [b \in Blocks |-> 0] BY DEF Ended
<1> QED BY <1>2, <1>3, <1>4 DEF LedgerStep, Ledger!ledgerVars, Ledger!LedgerNext, Ledger!Close

\* A step that leaves the queues alone is a stutter.
LEMMA QueuesSame ==
  ASSUME mode' = mode, ~Ended, ~Ended', UNCHANGED <<cmd, pieces, filling, active, ctrl, sent>>
  PROVE  LedgerStep
<1>1. Ended' = Ended BY DEF Ended
<1> QED BY <1>1, LedgerSame DEF Debt

\* A message that is sent adds its debt and its revocation.
LEMMA CmdGrows ==
  ASSUME UploadShape, NEW x \in WriterMsg, cmd' = Append(cmd, x),
         UNCHANGED <<pieces, filling, active, ctrl>>
  PROVE  /\ \A b \in Blocks : Debt(b)' = Debt(b) + AsksOne(x, b) /\ Debt(b) \in Nat
         /\ RevokedBy(cmd') = RevokedBy(cmd) \cup {b \in Blocks : x = Cancel(b) \/ x = ClearPieces}
<1>1. /\ ctrl \in Seq(Chunks) /\ active \in Active /\ cmd \in Seq(WriterMsg) /\ pieces \in Seq(Blocks)
  BY HeardTypes DEF UploadShape, TypeOK
<1>2. ASSUME NEW b \in Blocks PROVE Debt(b)' = Debt(b) + AsksOne(x, b) /\ Debt(b) \in Nat
  <2>1. Asks(cmd', b) = Asks(cmd, b) + AsksOne(x, b) /\ Asks(cmd, b) \in Nat
    BY <1>1, AsksAppend, DueNat
  <2>2. /\ Blocked(pieces, filling, active, b) \in Nat /\ Refusals(ctrl, b) \in Nat
        /\ HandRefusals(active, b) \in Nat
    BY <1>1, DueNat
  <2>5. AsksOne(x, b) \in Nat BY DEF AsksOne, One
  <2>3. Debt(b)' = Asks(cmd', b) + Blocked(pieces, filling, active, b) + (Refusals(ctrl, b) + HandRefusals(active, b))
    BY DEF Debt, Due
  <2>4. Debt(b) = Asks(cmd, b) + Blocked(pieces, filling, active, b) + (Refusals(ctrl, b) + HandRefusals(active, b))
    BY DEF Debt, Due
  <2> QED BY <2>1, <2>2, <2>3, <2>4, <2>5
<1>3. ToSet(cmd') = ToSet(cmd) \cup {x} BY <1>1, ToSetAppend
<1> QED BY <1>2, <1>3 DEF RevokedBy

\* A message that is taken takes them with it.
LEMMA CmdShrinks ==
  ASSUME UploadShape, cmd # <<>>, cmd' = Tail(cmd)
  PROVE  /\ \A b \in Blocks : /\ Asks(cmd, b) = Asks(cmd', b) + AsksOne(Head(cmd), b)
                              /\ Asks(cmd', b) \in Nat /\ AsksOne(Head(cmd), b) \in Nat
         /\ RevokedBy(cmd) = RevokedBy(cmd')
              \cup {b \in Blocks : Head(cmd) = Cancel(b) \/ Head(cmd) = ClearPieces}
         /\ Head(cmd) \in WriterMsg
<1>1. cmd \in Seq(WriterMsg) /\ cmd' \in Seq(WriterMsg) /\ Head(cmd) \in WriterMsg
  BY HeadTailProperties DEF UploadShape, TypeOK
<1>2. \A b \in Blocks : /\ Asks(cmd, b) = Asks(cmd', b) + AsksOne(Head(cmd), b)
                        /\ Asks(cmd', b) \in Nat /\ AsksOne(Head(cmd), b) \in Nat
  <2> SUFFICES ASSUME NEW b \in Blocks
               PROVE  /\ Asks(cmd, b) = Asks(cmd', b) + AsksOne(Head(cmd), b)
                      /\ Asks(cmd', b) \in Nat /\ AsksOne(Head(cmd), b) \in Nat
    OBVIOUS
  <2>1. Asks(cmd, b) = Asks(Tail(cmd), b) + AsksOne(Head(cmd), b) BY <1>1, AsksTail
  <2>2. Times(cmd', Upload(b)) \in Nat /\ Times(cmd', Ctrl(Reject(b))) \in Nat BY <1>1, TimesNat
  <2>3. Asks(cmd', b) \in Nat /\ AsksOne(Head(cmd), b) \in Nat BY <2>2 DEF Asks, AsksOne, One
  <2> QED BY <2>1, <2>3
<1>3. ToSet(cmd) = ToSet(cmd') \cup {Head(cmd)} BY <1>1, ToSetTail
<1> QED BY <1>1, <1>2, <1>3 DEF RevokedBy

\* Nothing is forgotten but what was taken back.
LEMMA TakeBackOwes ==
  ASSUME UploadShape, NEW B \in SUBSET Blocks, NEW left \in Seq(Blocks), TakeBack(B, left),
         \A b \in Blocks : Times(left, b) <= Times(pieces, b),
         \A b \in Blocks \ B : Times(left, b) = Times(pieces, b), NEW b \in Blocks
  PROVE  /\ Blocked(pieces', filling, active', b) <= Blocked(pieces, filling, active, b)
         /\ b \notin B => Blocked(pieces', filling, active', b) = Blocked(pieces, filling, active, b)
         /\ HandRefusals(active', b) = HandRefusals(active, b) /\ ctrl' = ctrl
         /\ active' \in Active
<1>1. pieces \in Seq(Blocks) /\ active \in Active /\ Idle.kind = "none" /\ Idle \in Active
  BY ActivesAre DEF UploadShape, TypeOK
<1>2. Times(left, b) \in Nat /\ Times(pieces, b) \in Nat BY <1>1, TimesNat
<1>3. /\ pieces' = left /\ ctrl' = ctrl
      /\ active' = active \/ (active' = Idle /\ active.kind = "piece" /\ active.block \in B)
  BY DEF TakeBack
<1>4. HandRefusals(active', b) = HandRefusals(active, b) BY <1>1, <1>3 DEF HandRefusals
<1>5. CASE active' = active BY <1>2, <1>3, <1>4, <1>5, <1>1 DEF Blocked, One
<1>6. CASE active' = Idle /\ active.kind = "piece" /\ active.block \in B
  <2>1. One(active'.kind = "piece" /\ active'.block = b) = 0 BY <1>1, <1>6 DEF One
  <2>2. One(active.kind = "piece" /\ active.block = b) \in {0, 1}
        /\ (b \notin B => One(active.kind = "piece" /\ active.block = b) = 0)
    BY <1>6 DEF One
  <2>3. One(filling = b) \in {0, 1} BY DEF One
  <2> QED BY <1>1, <1>2, <1>3, <1>4, <1>6, <2>1, <2>2, <2>3 DEF Blocked
<1> QED BY <1>3, <1>5, <1>6

\* Removing one entry of the FIFO leaves the others.
LEMMA RemovedTimes ==
  ASSUME NEW p \in Seq(Blocks), NEW d, NEW b
  PROVE  /\ Times(RemoveFirst(p, d), b) <= Times(p, b)
         /\ b # d => Times(RemoveFirst(p, d), b) = Times(p, b)
<1> DEFINE u == RemoveFirst(p, d)
<1>1. \/ u = p
      \/ \E i \in DOMAIN p : /\ p[i] = d
             /\ u \in Seq(Blocks)
             /\ Len(u) = Len(p) - 1
             /\ \A k \in 1..(Len(p) - 1) : u[k] = IF k < i THEN p[k] ELSE p[k+1]
  BY RemoveFirstIs
<1> HIDE DEF u
<1>2. Times(p, b) \in Nat BY TimesNat
<1>3. CASE u = p BY <1>2, <1>3 DEF u
<1>4. CASE u # p
  <2>1. PICK i \in DOMAIN p : /\ p[i] = d
             /\ u \in Seq(Blocks)
             /\ Len(u) = Len(p) - 1
             /\ \A k \in 1..(Len(p) - 1) : u[k] = IF k < i THEN p[k] ELSE p[k+1]
    BY <1>1, <1>4
  <2>2. i \in 1..Len(p) BY LenProperties
  <2>3. u \in Seq(Blocks) /\ Len(u) = Len(p) - 1 BY <2>1
  <2>4. Times(p, b) = Times(u, b) + (IF p[i] = b THEN 1 ELSE 0)
    BY <2>1, <2>2, <2>3, TimesWithout
  <2>5. Times(u, b) \in Nat BY <2>3, TimesNat
  <2> QED BY <1>2, <2>1, <2>4, <2>5 DEF u
<1> QED BY <1>3, <1>4

\* What the writer does with a message is a step of the ledger.
LEMMA TakeMsgLedger ==
  ASSUME UploadShape, UploadShape', UploadAssumption, TakeMsg, mode' = mode, ~Ended, ~Ended'
  PROVE  LedgerStep
<1> DEFINE m == Head(cmd)
<1>0. /\ ctrl \in Seq(Chunks) /\ active \in Active /\ cmd \in Seq(WriterMsg) /\ pieces \in Seq(Blocks)
      /\ ctrl' \in Seq(Chunks) /\ active' \in Active /\ cmd' \in Seq(WriterMsg) /\ pieces' \in Seq(Blocks)
      /\ Ended' = Ended
  BY HeardTypes DEF UploadShape, TypeOK, Chunks, Ended
<1>1. cmd # <<>> /\ cmd' = Tail(cmd) /\ ApplyMsg(m) /\ filling' = filling /\ sent' = sent
  BY DEF TakeMsg
<1>2. /\ \A b \in Blocks : /\ Asks(cmd, b) = Asks(cmd', b) + AsksOne(m, b)
                           /\ Asks(cmd', b) \in Nat /\ AsksOne(m, b) \in Nat
      /\ RevokedBy(cmd) = RevokedBy(cmd') \cup {b \in Blocks : m = Cancel(b) \/ m = ClearPieces}
      /\ m \in WriterMsg
  BY <1>1, CmdShrinks
<1>3. \A b \in Blocks :
        /\ Debt(b) = Asks(cmd, b) + Blocked(pieces, filling, active, b) + (Refusals(ctrl, b) + HandRefusals(active, b))
        /\ Debt(b)' = Asks(cmd', b) + Blocked(pieces', filling, active', b) + (Refusals(ctrl', b) + HandRefusals(active', b))
  BY <1>1 DEF Debt, Due
<1>4. \A b \in Blocks :
        /\ Blocked(pieces, filling, active, b) \in Nat /\ Refusals(ctrl, b) \in Nat
        /\ HandRefusals(active, b) \in Nat /\ Debt(b) \in Nat
        /\ Blocked(pieces', filling, active', b) \in Nat /\ Refusals(ctrl', b) \in Nat
        /\ HandRefusals(active', b) \in Nat /\ Debt(b)' \in Nat
  <2>1. ASSUME NEW b \in Blocks
        PROVE  /\ Blocked(pieces, filling, active, b) \in Nat /\ Refusals(ctrl, b) \in Nat
               /\ HandRefusals(active, b) \in Nat
    BY <1>0, DueNat
  <2>2. ASSUME NEW b \in Blocks
        PROVE  /\ Blocked(pieces', filling, active', b) \in Nat /\ Refusals(ctrl', b) \in Nat
               /\ HandRefusals(active', b) \in Nat
    BY <1>0, DueNat
  <2> QED BY <1>2, <1>3, <2>1, <2>2
<1> HIDE DEF m
<1>5. CASE m.kind = "ctrl"
  <2> DEFINE fs == <<m.frame>>
  <2>1. m.frame \in Frames /\ m = Ctrl(m.frame) /\ ctrl' = WithCtrl(ctrl, fs) /\ UNCHANGED <<pieces, active>>
    BY <1>1, <1>2, <1>5, MsgsAre DEF ApplyMsg, m
  <2>2. fs \in Chunks BY <2>1 DEF Chunks
  <2>3. \A b \in Blocks : Times(fs, Reject(b)) = One(m.frame = Reject(b)) BY <2>1, RefusalOne
  <2> HIDE DEF fs
  <2>4. \A b \in Blocks : Refusals(ctrl', b) = Refusals(ctrl, b) + One(m.frame = Reject(b))
    BY <1>0, <2>1, <2>2, <2>3, RefusalsWith
  <2>5. \A b \in Blocks : AsksOne(m, b) = One(m.frame = Reject(b))
    BY <2>1, MsgsDiffer DEF AsksOne, One
  <2>6. \A b \in Blocks : Debt(b)' = Debt(b) BY <1>2, <1>3, <1>4, <2>1, <2>4, <2>5
  <2>7. \A b : m # Cancel(b) /\ m # ClearPieces BY <2>1, MsgsDiffer
  <2>8. RevokedBy(cmd') = RevokedBy(cmd) BY <1>2, <2>7
  <2> QED BY <1>0, <1>1, <2>6, <2>8, LedgerSame
<1>6. CASE m.kind = "upload"
  <2> DEFINE d == m.block
  <2>1. d \in Blocks /\ m = Upload(d) /\ PushPiece(d)
    BY <1>1, <1>2, <1>6, MsgsAre DEF ApplyMsg, m
  <2> HIDE DEF d
  <2>2. \A b \in Blocks : AsksOne(m, b) = One(b = d) BY <2>1, MsgsDiffer DEF AsksOne, One
  <2>3. RevokedBy(cmd') = RevokedBy(cmd) BY <1>2, <2>1, MsgsDiffer
  <2>4. CASE Enqueue(d)
    <3>1. pieces' = Append(pieces, d) /\ UNCHANGED <<ctrl, active>> BY <2>4 DEF Enqueue
    <3>2. \A b \in Blocks : Times(pieces', b) = Times(pieces, b) + One(b = d) /\ Times(pieces, b) \in Nat
      <4> SUFFICES ASSUME NEW b \in Blocks
                   PROVE  Times(pieces', b) = Times(pieces, b) + One(b = d) /\ Times(pieces, b) \in Nat
        OBVIOUS
      <4>1. Times(Append(pieces, d), b) = Times(pieces, b) + (IF d = b THEN 1 ELSE 0)
        BY <1>0, <2>1, TimesAppend
      <4>2. Times(pieces, b) \in Nat BY <1>0, TimesNat
      <4> QED BY <3>1, <4>1, <4>2 DEF One
    <3>3. \A b \in Blocks : Blocked(pieces', filling, active', b) = Blocked(pieces, filling, active, b) + One(b = d)
      BY <3>1, <3>2 DEF Blocked, One
    <3>4. \A b \in Blocks : Debt(b)' = Debt(b) BY <1>2, <1>3, <1>4, <2>2, <3>1, <3>3
    <3> QED BY <1>0, <1>1, <2>3, <3>4, LedgerSame
  <2>5. CASE Refuse(d)
    <3>1. ctrl' = WithReject(ctrl, d) /\ UNCHANGED <<pieces, active>> BY <2>5 DEF Refuse
    <3>2. CASE mode.fast
      <4> DEFINE fs == <<Reject(d)>>
      <4>1. ctrl' = WithCtrl(ctrl, fs) BY <3>1, <3>2 DEF WithReject
      <4>2. fs \in Chunks BY <2>1, FramesAre DEF Chunks
      <4>3. \A b \in Blocks : Times(fs, Reject(b)) = One(b = d)
        BY <2>1, FramesAre, RefusalOne, MsgsDiffer DEF One
      <4> HIDE DEF fs
      <4>4. \A b \in Blocks : Refusals(ctrl', b) = Refusals(ctrl, b) + One(b = d)
        BY <1>0, <4>1, <4>2, <4>3, RefusalsWith
      <4>5. \A b \in Blocks : Debt(b)' = Debt(b) BY <1>2, <1>3, <1>4, <2>2, <3>1, <4>4
      <4> QED BY <1>0, <1>1, <2>3, <4>5, LedgerSame
    <3>3. CASE ~mode.fast
      <4>1. ctrl' = ctrl BY <3>1, <3>3 DEF WithReject
      <4>2. \A b \in Blocks : Debt(b)' <= Debt(b) BY <1>2, <1>3, <1>4, <3>1, <4>1
      <4> QED BY <1>1, <1>4, <2>3, <3>3, <4>2, LedgerForgets
    <3> QED BY <3>2, <3>3
  <2> QED BY <2>1, <2>4, <2>5 DEF PushPiece
<1>7. CASE m.kind = "cancel"
  <2> DEFINE d == m.block
             left == RemoveFirst(pieces, d)
  <2>1. d \in Blocks /\ m = Cancel(d) /\ TakeBack({d}, left)
    BY <1>1, <1>2, <1>7, MsgsAre DEF ApplyMsg, CancelPiece, m
  <2> HIDE DEF d
  <2>2. \A b \in Blocks : AsksOne(m, b) = 0 BY <2>1, MsgsDiffer DEF AsksOne, One
  <2>3. RevokedBy(cmd) = RevokedBy(cmd') \cup {d} BY <1>2, <2>1, MsgsDiffer
  <2>4. /\ left \in Seq(Blocks)
        /\ \A b \in Blocks : Times(left, b) <= Times(pieces, b)
        /\ \A b \in Blocks \ {d} : Times(left, b) = Times(pieces, b)
    <3>1. left \in Seq(Blocks) BY <1>0, Removed
    <3> QED BY <1>0, <3>1, RemovedTimes
  <2> HIDE DEF left
  <2>5. \A b \in Blocks :
          /\ Blocked(pieces', filling, active', b) <= Blocked(pieces, filling, active, b)
          /\ b # d => Blocked(pieces', filling, active', b) = Blocked(pieces, filling, active, b)
          /\ HandRefusals(active', b) = HandRefusals(active, b) /\ ctrl' = ctrl
    <3> DEFINE B == {d}
    <3>1. B \in SUBSET Blocks /\ TakeBack(B, left) /\ \A b \in Blocks \ B : Times(left, b) = Times(pieces, b)
      BY <2>1, <2>4
    <3>2. \A b : b # d => b \notin B OBVIOUS
    <3> HIDE DEF B
    <3> QED BY <2>4, <3>1, <3>2, TakeBackOwes
  <2>6. \A b \in Blocks : /\ Debt(b)' <= Debt(b)
                          /\ b # d => Debt(b)' = Debt(b)
    BY <1>2, <1>3, <1>4, <2>2, <2>5
  <2>7. \A b \in Blocks : Debt(b)' < Debt(b) => b \in RevokedBy(cmd) BY <1>4, <2>3, <2>6
  <2>8. RevokedBy(cmd') \subseteq RevokedBy(cmd) BY <2>3
  <2> QED BY <1>1, <1>4, <2>6, <2>7, <2>8, LedgerForgets
<1>8. CASE m.kind = "clear"
  <2> DEFINE left == <<>>
  <2>1. m = ClearPieces /\ TakeBack(Blocks, left)
    BY <1>1, <1>2, <1>8, MsgsAre DEF ApplyMsg, ClearAll, m
  <2>2. \A b \in Blocks : AsksOne(m, b) = 0 BY <2>1, MsgsDiffer DEF AsksOne, One
  <2>3. RevokedBy(cmd) = Blocks
    <3>1. RevokedBy(cmd') \subseteq Blocks BY DEF RevokedBy
    <3> QED BY <1>2, <2>1, <3>1
  <2>4. /\ left \in Seq(Blocks)
        /\ \A b \in Blocks : Times(left, b) <= Times(pieces, b)
    <3>1. left \in Seq(Blocks) /\ DOMAIN left = {} OBVIOUS
    <3> HIDE DEF left
    <3>2. \A b : Times(left, b) = 0 BY <3>1, TimesNat
    <3>3. \A b : Times(pieces, b) \in Nat BY <1>0, TimesNat
    <3> QED BY <3>1, <3>2, <3>3
  <2> HIDE DEF left
  <2>5. \A b \in Blocks :
          /\ Blocked(pieces', filling, active', b) <= Blocked(pieces, filling, active, b)
          /\ HandRefusals(active', b) = HandRefusals(active, b) /\ ctrl' = ctrl
    BY <2>1, <2>4, TakeBackOwes
  <2>6. \A b \in Blocks : Debt(b)' <= Debt(b) BY <1>2, <1>3, <1>4, <2>2, <2>5
  <2>8. RevokedBy(cmd') \subseteq RevokedBy(cmd) BY <1>2
  <2> QED BY <1>1, <1>4, <2>3, <2>6, <2>8, LedgerForgets
<1>9. CASE m.kind = "done"
  <2>1. m = ReaderDone /\ UNCHANGED <<ctrl, pieces, active>>
    BY <1>1, <1>2, <1>9 DEF ApplyMsg, m, WriterMsg, ReaderDone, ClearPieces
  <2>2. \A b \in Blocks : AsksOne(m, b) = 0 BY <2>1, MsgsDiffer DEF AsksOne, One
  <2>3. RevokedBy(cmd') = RevokedBy(cmd) BY <1>2, <2>1, MsgsDiffer
  <2>6. \A b \in Blocks : Debt(b)' = Debt(b) BY <1>2, <1>3, <1>4, <2>1, <2>2
  <2> QED BY <1>0, <1>1, <2>3, <2>6, LedgerSame
<1> QED BY <1>2, <1>5, <1>6, <1>7, <1>8, <1>9, MsgsAre

\* A control chunk joins the queue.
LEMMA CtrlGrows ==
  ASSUME UploadShape, NEW fs \in Chunks, ctrl' = WithCtrl(ctrl, fs), UNCHANGED <<cmd, active>>,
         NEW n \in Nat, NEW b \in Blocks, Times(fs, Reject(b)) = n,
         Blocked(pieces', filling', active', b) + n = Blocked(pieces, filling, active, b),
         Blocked(pieces', filling', active', b) \in Nat
  PROVE  Debt(b)' = Debt(b)
<1>1. ctrl \in Seq(Chunks) /\ active \in Active /\ cmd \in Seq(WriterMsg) BY HeardTypes
<1>2. Refusals(ctrl', b) = Refusals(ctrl, b) + n BY <1>1, RefusalsWith
<1>3. Refusals(ctrl, b) \in Nat BY <1>1, ChunksAre, PlacesFinite DEF Refusals
<1>4. HandRefusals(active, b) \in Nat BY <1>1, ActivesAre, TimesNat DEF HandRefusals
<1>5. Times(cmd, Upload(b)) \in Nat /\ Times(cmd, Ctrl(Reject(b))) \in Nat BY <1>1, TimesNat
<1>6. Asks(cmd, b) \in Nat BY <1>5 DEF Asks
<1>7. Debt(b)' = Asks(cmd, b) + Blocked(pieces', filling', active', b) + (Refusals(ctrl', b) + HandRefusals(active, b))
  BY DEF Debt, Due
<1>8. Debt(b) = Asks(cmd, b) + Blocked(pieces, filling, active, b) + (Refusals(ctrl, b) + HandRefusals(active, b))
  BY DEF Debt, Due
<1> QED BY <1>2, <1>3, <1>4, <1>6, <1>7, <1>8

\* A chunk without a refusal.
LEMMA NoRefusal ==
  ASSUME NEW fs \in Seq(Frames), NEW b, \A k \in DOMAIN fs : fs[k] # Reject(b)
  PROVE  Times(fs, Reject(b)) = 0
BY TimesNat

\* Every step is a step of the ledger or a stutter.
LEMMA LedgerStepAlways ==
  ASSUME UploadShape, UploadShape', UploadAssumption, [Next]_vars
  PROVE  LedgerStep
<1>a. mode' = mode
  BY DEF Next, HelloNext, WriterNext, MarkHave, Publish, Subscribe, Snapshot,
     WriteHello, WriteLateHaves, OnRequest, OnCancel, OnInterested, OnNotInterested,
     LeechComplete, Stop, ReaderEnds, KeepAliveTimer, TakeMsg, TakeHaves, WakeForHave, PickCtrl,
     PickPiece, FillOk, FillFails, Resume, WakeUp, Written, SendEnds, WriteFails, LeaveLoop,
     Flush, FlushWrite, FlushEnds, ReaderUnchanged, WriterUnchanged, torrentVars, vars
<1>b. Ended => Ended'
  BY DEF Next, HelloNext, WriterNext, MarkHave, Publish, Subscribe, Snapshot,
     WriteHello, WriteLateHaves, OnRequest, OnCancel, OnInterested, OnNotInterested,
     LeechComplete, Stop, ReaderEnds, KeepAliveTimer, TakeMsg, TakeHaves, WakeForHave, PickCtrl,
     PickPiece, FillOk, FillFails, Resume, WakeUp, Written, SendEnds, WriteFails, LeaveLoop,
     Flush, FlushWrite, FlushEnds, ReaderUnchanged, vars, Ended, UploadShape, Together
<1>c. CASE Ended
  <2>1. Ended' = Ended BY <1>b, <1>c DEF Ended
  <2> QED BY <1>a, <1>c, <2>1, LedgerSame
<1>d. CASE ~Ended /\ Ended' BY <1>a, <1>d, LedgerCloses
<1> SUFFICES ASSUME ~Ended, ~Ended' PROVE LedgerStep BY <1>c, <1>d
<1>0. /\ ctrl \in Seq(Chunks) /\ active \in Active /\ cmd \in Seq(WriterMsg) /\ pieces \in Seq(Blocks)
      /\ ctrl' \in Seq(Chunks) /\ active' \in Active /\ cmd' \in Seq(WriterMsg) /\ pieces' \in Seq(Blocks)
      /\ Ended' = Ended /\ Idle.kind = "none" /\ NoBlock \notin Blocks
      /\ sent \in [Blocks -> Nat] /\ sent' \in [Blocks -> Nat] /\ filling \in Blocks \cup {NoBlock}
  BY SMTT(20), ActivesAre DEF UploadShape, TypeOK, Chunks, Ended, UploadAssumption
<1>e. \A b \in Blocks :
        /\ Debt(b) = Asks(cmd, b) + Blocked(pieces, filling, active, b) + (Refusals(ctrl, b) + HandRefusals(active, b))
        /\ Debt(b)' = Asks(cmd', b) + Blocked(pieces', filling', active', b) + (Refusals(ctrl', b) + HandRefusals(active', b))
  BY DEF Debt, Due
<1>f. \A b \in Blocks :
        /\ Asks(cmd, b) \in Nat /\ Times(pieces, b) \in Nat
        /\ Blocked(pieces, filling, active, b) \in Nat /\ Refusals(ctrl, b) \in Nat
        /\ HandRefusals(active, b) \in Nat /\ Debt(b) \in Nat
        /\ Asks(cmd', b) \in Nat /\ Times(pieces', b) \in Nat
        /\ Blocked(pieces', filling', active', b) \in Nat /\ Refusals(ctrl', b) \in Nat
        /\ HandRefusals(active', b) \in Nat /\ Debt(b)' \in Nat
  <2>1. ASSUME NEW b \in Blocks
        PROVE  /\ Asks(cmd, b) \in Nat /\ Times(pieces, b) \in Nat
               /\ Blocked(pieces, filling, active, b) \in Nat /\ Refusals(ctrl, b) \in Nat
               /\ HandRefusals(active, b) \in Nat
    BY <1>0, DueNat
  <2>2. ASSUME NEW b \in Blocks
        PROVE  /\ Asks(cmd', b) \in Nat /\ Times(pieces', b) \in Nat
               /\ Blocked(pieces', filling', active', b) \in Nat /\ Refusals(ctrl', b) \in Nat
               /\ HandRefusals(active', b) \in Nat
    BY <1>0, DueNat
  <2> QED BY <1>e, <2>1, <2>2
<1>1. ASSUME NEW i \in Pieces, MarkHave(i) PROVE LedgerStep
  BY <1>1, <1>a, QueuesSame DEF MarkHave, sessionVars, queueVars, torrentVars, history, bounds, ReaderUnchanged, WriterUnchanged
<1>2. ASSUME NEW i \in Pieces, Publish(i) PROVE LedgerStep
  BY <1>2, <1>a, QueuesSame DEF Publish, sessionVars, queueVars, torrentVars, history, bounds, ReaderUnchanged, WriterUnchanged
<1>3. ASSUME Subscribe PROVE LedgerStep
  BY <1>3, <1>a, QueuesSame DEF Subscribe, sessionVars, queueVars, torrentVars, history, bounds, ReaderUnchanged, WriterUnchanged
<1>4. ASSUME Snapshot PROVE LedgerStep
  BY <1>4, <1>a, QueuesSame DEF Snapshot, sessionVars, queueVars, torrentVars, history, bounds, ReaderUnchanged, WriterUnchanged
<1>5. ASSUME WriteHello PROVE LedgerStep
  BY <1>5, <1>a, QueuesSame DEF WriteHello, sessionVars, queueVars, torrentVars, history, bounds, ReaderUnchanged, WriterUnchanged
<1>6. ASSUME WriteLateHaves PROVE LedgerStep
  BY <1>6, <1>a, QueuesSame DEF WriteLateHaves, sessionVars, queueVars, torrentVars, history, bounds, ReaderUnchanged, WriterUnchanged
<1>7. ASSUME NEW b \in Blocks, OnRequest(b) PROVE LedgerStep
  <2>1. CASE cmd' = cmd BY <1>7, <1>a, <2>1, QueuesSame DEF OnRequest, ReaderUnchanged, queueVars, history
  <2>2. CASE cmd' # cmd
    <3>1. PICK x \in WriterMsg : (x = Upload(b) \/ x = Ctrl(Reject(b))) /\ cmd' = Append(cmd, x)
      BY <1>7, <2>2, MsgsAre, FramesAre DEF OnRequest
    <3>2. UNCHANGED <<pieces, filling, active, ctrl, sent>>
      BY <1>7 DEF OnRequest, ReaderUnchanged, queueVars, history
    <3>3. \A c \in Blocks : AsksOne(x, c) = One(c = b)
      <4>1. CASE x = Upload(b) BY <4>1, MsgsDiffer DEF AsksOne, One
      <4>2. CASE x = Ctrl(Reject(b))
        <5>1. \A c : x # Upload(c) BY <4>2, MsgsDiffer
        <5>2. \A c : (x = Ctrl(Reject(c))) <=> (c = b) BY <4>2, MsgsDiffer
        <5> QED BY <5>1, <5>2 DEF AsksOne, One
      <4> QED BY <3>1, <4>1, <4>2
    <3>4. \A c : x # Cancel(c) /\ x # ClearPieces BY <3>1, MsgsDiffer
    <3>5. /\ \A c \in Blocks : Debt(c)' = Debt(c) + AsksOne(x, c) /\ Debt(c) \in Nat
          /\ RevokedBy(cmd') = RevokedBy(cmd) \cup {c \in Blocks : x = Cancel(c) \/ x = ClearPieces}
      BY <3>1, <3>2, CmdGrows
    <3>6. RevokedBy(cmd') = RevokedBy(cmd) BY <3>4, <3>5
    <3>7. \A c \in Blocks : Debt(c) \in Nat /\ Debt(c)' = Debt(c) + One(c = b) BY <3>3, <3>5
    <3> QED BY <1>7, <1>a, <3>2, <3>6, <3>7, LedgerAsks
  <2> QED BY <2>1, <2>2
<1>8. ASSUME NEW b \in Blocks, OnCancel(b) PROVE LedgerStep
  <2> DEFINE x == Cancel(b)
  <2>1. cmd' = Append(cmd, x) /\ UNCHANGED <<pieces, filling, active, ctrl, sent>>
    BY <1>8 DEF OnCancel, ReaderUnchanged, queueVars, history
  <2>2. x \in WriterMsg BY MsgsAre
  <2>3. \A b_1 \in Blocks : AsksOne(x, b_1) = 0 BY MsgsDiffer DEF AsksOne, One
  <2>4. \A b_1 : (x = Cancel(b_1) \/ x = ClearPieces) <=> b_1 = b BY MsgsDiffer
  <2> HIDE DEF x
  <2>5. /\ \A b_1 \in Blocks : Debt(b_1)' = Debt(b_1) + AsksOne(x, b_1) /\ Debt(b_1) \in Nat
        /\ RevokedBy(cmd') = RevokedBy(cmd) \cup {b_1 \in Blocks : x = Cancel(b_1) \/ x = ClearPieces}
    BY <2>1, <2>2, CmdGrows
  <2>6. \A b_1 \in Blocks : Debt(b_1)' = Debt(b_1) BY <2>3, <2>5
  <2> DEFINE B == {b}
  <2>7. RevokedBy(cmd') = RevokedBy(cmd) \cup B BY <1>8, <2>4, <2>5
  <2>8. B \in SUBSET Blocks BY <1>8
  <2> HIDE DEF B
  <2> QED BY <1>a, <2>1, <2>6, <2>7, <2>8, LedgerRevokes
<1>9. ASSUME OnInterested PROVE LedgerStep
  BY <1>9, <1>a, QueuesSame DEF OnInterested, sessionVars, queueVars, torrentVars, history, bounds, ReaderUnchanged, WriterUnchanged
<1>10. ASSUME OnNotInterested PROVE LedgerStep
  <2> DEFINE x == ClearPieces
  <2>1. cmd' = Append(cmd, x) /\ UNCHANGED <<pieces, filling, active, ctrl, sent>>
    BY <1>10 DEF OnNotInterested, ReaderUnchanged, queueVars, history
  <2>2. x \in WriterMsg BY MsgsAre
  <2>3. \A b_1 \in Blocks : AsksOne(x, b_1) = 0 BY MsgsDiffer DEF AsksOne, One
  <2>4. \A b_1 : x = Cancel(b_1) \/ x = ClearPieces BY MsgsDiffer
  <2> HIDE DEF x
  <2>5. /\ \A b_1 \in Blocks : Debt(b_1)' = Debt(b_1) + AsksOne(x, b_1) /\ Debt(b_1) \in Nat
        /\ RevokedBy(cmd') = RevokedBy(cmd) \cup {b_1 \in Blocks : x = Cancel(b_1) \/ x = ClearPieces}
    BY <2>1, <2>2, CmdGrows
  <2>6. \A b_1 \in Blocks : Debt(b_1)' = Debt(b_1) BY <2>3, <2>5
  <2>7. RevokedBy(cmd') = RevokedBy(cmd) \cup Blocks BY <2>4, <2>5 DEF RevokedBy
  <2> QED BY <1>a, <2>1, <2>6, <2>7, LedgerRevokes
<1>11. ASSUME LeechComplete PROVE LedgerStep
  <2>1. PICK x \in WriterMsg : (x = Ctrl(Possession(have)) \/ x = ReaderDone) /\ cmd' = Append(cmd, x)
    <3>1. Possession(have) \in Frames BY FramesAre DEF UploadShape, TypeOK
    <3> QED BY <1>11, <3>1, MsgsAre DEF LeechComplete
  <2>2. UNCHANGED <<pieces, filling, active, ctrl, sent>>
    BY <1>11 DEF LeechComplete, queueVars, history
  <2>3. \A b : AsksOne(x, b) = 0
    <3>1. CASE x = ReaderDone BY <3>1, MsgsDiffer DEF AsksOne, One
    <3>2. CASE x = Ctrl(Possession(have))
      <4>1. \A b : x # Upload(b) BY <3>2, MsgsDiffer
      <4>2. \A b : x # Ctrl(Reject(b)) BY <3>2, MsgsDiffer
      <4> QED BY <4>1, <4>2 DEF AsksOne, One
    <3> QED BY <2>1, <3>1, <3>2
  <2>4. \A b : x # Cancel(b) /\ x # ClearPieces BY <2>1, MsgsDiffer
  <2>5. /\ \A b \in Blocks : Debt(b)' = Debt(b) + AsksOne(x, b) /\ Debt(b) \in Nat
        /\ RevokedBy(cmd') = RevokedBy(cmd) \cup {b \in Blocks : x = Cancel(b) \/ x = ClearPieces}
    BY <2>1, <2>2, CmdGrows
  <2>6. \A b \in Blocks : Debt(b)' = Debt(b) BY <2>3, <2>5
  <2>7. RevokedBy(cmd') = RevokedBy(cmd) BY <2>4, <2>5
  <2> QED BY <1>0, <1>a, <2>2, <2>6, <2>7, LedgerSame
<1>12. ASSUME Stop PROVE LedgerStep
  BY <1>12, <1>a, QueuesSame DEF Stop, sessionVars, queueVars, torrentVars, history, bounds, ReaderUnchanged, WriterUnchanged
<1>13. ASSUME NEW t \in BOOLEAN, ReaderEnds(t) PROVE LedgerStep
  <2> DEFINE x == ReaderDone
  <2>1. cmd' = Append(cmd, x) /\ UNCHANGED <<pieces, filling, active, ctrl, sent>>
    BY <1>13 DEF ReaderEnds, ReaderUnchanged, queueVars, history
  <2>2. x \in WriterMsg BY MsgsAre
  <2>3. \A b_1 \in Blocks : AsksOne(x, b_1) = 0 BY MsgsDiffer DEF AsksOne, One
  <2>4. \A b_1 : x # Cancel(b_1) /\ x # ClearPieces BY MsgsDiffer
  <2> HIDE DEF x
  <2>5. /\ \A b_1 \in Blocks : Debt(b_1)' = Debt(b_1) + AsksOne(x, b_1) /\ Debt(b_1) \in Nat
        /\ RevokedBy(cmd') = RevokedBy(cmd) \cup {b_1 \in Blocks : x = Cancel(b_1) \/ x = ClearPieces}
    BY <2>1, <2>2, CmdGrows
  <2>6. \A b_1 \in Blocks : Debt(b_1)' = Debt(b_1) BY <2>3, <2>5
  <2>7. RevokedBy(cmd') = RevokedBy(cmd) BY <2>4, <2>5
  <2> QED BY <1>0, <1>a, <2>1, <2>6, <2>7, LedgerSame
<1>14. ASSUME KeepAliveTimer PROVE LedgerStep
  <2>1. (ctrl' = ctrl \/ ctrl' = WithCtrl(ctrl, <<KeepAlive>>)) /\ UNCHANGED <<cmd, pieces, filling, active, sent>>
    BY <1>14 DEF KeepAliveTimer, history
  <2>2. CASE ctrl' = ctrl BY <1>a, <2>1, <2>2, QueuesSame
  <2>3. CASE ctrl' # ctrl
    <3> DEFINE fs == <<KeepAlive>>
    <3>1. ctrl' = WithCtrl(ctrl, fs) /\ fs \in Chunks BY <2>1, <2>3, FramesAre DEF Chunks
    <3>2. \A b : Times(fs, Reject(b)) = 0
      <4>1. fs \in Seq(Frames) /\ \A k \in DOMAIN fs : fs[k] = KeepAlive BY FramesAre
      <4> HIDE DEF fs
      <4> QED BY <4>1, NoRefusal, MsgsDiffer
    <3> HIDE DEF fs
    <3>3. \A b \in Blocks : Debt(b)' = Debt(b)
      <4> SUFFICES ASSUME NEW b \in Blocks PROVE Debt(b)' = Debt(b) OBVIOUS
      <4>1. Blocked(pieces', filling', active', b) + 0 = Blocked(pieces, filling, active, b) BY <1>f, <2>1
      <4> QED BY <1>f, <2>1, <3>1, <3>2, <4>1, CtrlGrows
    <3> QED BY <1>0, <1>a, <2>1, <3>3, LedgerSame
  <2> QED BY <2>2, <2>3
<1>15. ASSUME TakeMsg PROVE LedgerStep
  BY <1>15, <1>a, TakeMsgLedger
<1>16. ASSUME TakeHaves PROVE LedgerStep
  <2> DEFINE hs == [k \in 1..Len(haveRx) |-> Have(haveRx[k])]
  <2>1. /\ ctrl' = (IF haveRx = <<>> THEN ctrl ELSE WithCtrl(ctrl, hs))
        /\ UNCHANGED <<cmd, pieces, filling, active, sent>>
    BY <1>16 DEF TakeHaves, history
  <2>2. CASE haveRx = <<>> BY <1>a, <2>1, <2>2, QueuesSame
  <2>3. CASE haveRx # <<>>
    <3>1. ctrl' = WithCtrl(ctrl, hs) /\ hs \in Chunks BY <2>1, <2>3, AddedHaves
    <3>2. \A b : Times(hs, Reject(b)) = 0
      <4>1. hs \in Seq(Frames) BY <3>1 DEF Chunks
      <4>2. \A k \in DOMAIN hs : hs[k] = Have(haveRx[k]) OBVIOUS
      <4> HIDE DEF hs
      <4>3. \A b : \A k \in DOMAIN hs : hs[k] # Reject(b) BY <4>2, MsgsDiffer
      <4> QED BY <4>1, <4>3, NoRefusal
    <3> HIDE DEF hs
    <3>3. \A b \in Blocks : Debt(b)' = Debt(b)
      <4> SUFFICES ASSUME NEW b \in Blocks PROVE Debt(b)' = Debt(b) OBVIOUS
      <4>1. Blocked(pieces', filling', active', b) + 0 = Blocked(pieces, filling, active, b) BY <1>f, <2>1
      <4> QED BY <1>f, <2>1, <3>1, <3>2, <4>1, CtrlGrows
    <3> QED BY <1>0, <1>a, <2>1, <3>3, LedgerSame
  <2> QED BY <2>2, <2>3
<1>17. ASSUME WakeForHave PROVE LedgerStep
  BY <1>17, <1>a, QueuesSame DEF WakeForHave, sessionVars, queueVars, torrentVars, history, bounds, ReaderUnchanged, WriterUnchanged
<1>18. ASSUME PickCtrl PROVE LedgerStep
  <2>1. /\ active = Idle /\ ctrl # <<>> /\ ctrl' = Tail(ctrl) /\ UNCHANGED <<cmd, pieces, filling, sent>>
        /\ active' = [kind |-> "ctrl", frames |-> Head(ctrl)]
    BY <1>18 DEF PickCtrl, history
  <2>2. active'.kind = "ctrl" /\ active'.frames = Head(ctrl) BY <2>1
  <2>3. \A b \in Blocks : Refusals(ctrl, b) = Refusals(ctrl', b) + Times(Head(ctrl), Reject(b))
    BY <1>0, <2>1, RefusalsTail
  <2>4. \A b \in Blocks : HandRefusals(active, b) = 0 /\ HandRefusals(active', b) = Times(Head(ctrl), Reject(b))
    BY <1>0, <2>1, <2>2 DEF HandRefusals
  <2>5. \A b \in Blocks : Blocked(pieces', filling', active', b) = Blocked(pieces, filling, active, b)
    BY <1>0, <2>1, <2>2 DEF Blocked, One
  <2>6. \A b \in Blocks : Debt(b)' = Debt(b) BY <1>e, <1>f, <2>1, <2>3, <2>4, <2>5
  <2> QED BY <1>0, <1>a, <2>1, <2>6, LedgerSame
<1>19. ASSUME PickPiece PROVE LedgerStep
  <2>1. /\ pieces # <<>> /\ filling = NoBlock /\ filling' = Head(pieces) /\ pieces' = Tail(pieces)
        /\ UNCHANGED <<cmd, active, ctrl, sent>>
    BY <1>19 DEF PickPiece, history
  <2>2. \A b \in Blocks : Times(pieces, b) = Times(pieces', b) + (IF filling' = b THEN 1 ELSE 0)
    BY <1>0, <2>1, TimesTail
  <2>3. \A b \in Blocks : One(filling = b) = 0 BY <1>0, <2>1 DEF One
  <2>4. \A b \in Blocks : Blocked(pieces', filling', active', b) = Blocked(pieces, filling, active, b)
    BY <1>f, <2>1, <2>2, <2>3 DEF Blocked, One
  <2>5. \A b \in Blocks : Debt(b)' = Debt(b) BY <1>e, <2>1, <2>4
  <2> QED BY <1>0, <1>a, <2>1, <2>5, LedgerSame
<1>20. ASSUME FillOk PROVE LedgerStep
  <2>1. /\ active = Idle /\ filling' = NoBlock /\ UNCHANGED <<cmd, pieces, ctrl, sent>>
        /\ active'.kind = "piece" /\ active'.block = filling
    BY <1>20 DEF FillOk, Go, RateLimited, history, UploadShape, Together
  <2>2. \A b \in Blocks : HandRefusals(active', b) = HandRefusals(active, b)
    BY <1>0, <2>1 DEF HandRefusals
  <2>3. \A b \in Blocks : Blocked(pieces', filling', active', b) = Blocked(pieces, filling, active, b)
    <3> SUFFICES ASSUME NEW b \in Blocks
                 PROVE  Blocked(pieces', filling', active', b) = Blocked(pieces, filling, active, b)
      OBVIOUS
    <3>1. One(filling' = b) = 0 /\ One(active.kind = "piece" /\ active.block = b) = 0
      BY <1>0, <2>1 DEF One
    <3>2. One(active'.kind = "piece" /\ active'.block = b) = One(filling = b) /\ One(filling = b) \in Nat
      BY <2>1 DEF One
    <3>3. Times(pieces, b) \in Nat BY <1>f
    <3> QED BY <2>1, <3>1, <3>2, <3>3 DEF Blocked
  <2>4. \A b \in Blocks : Debt(b)' = Debt(b) BY <1>e, <2>1, <2>2, <2>3
  <2> QED BY <1>0, <1>a, <2>1, <2>4, LedgerSame
<1>21. ASSUME FillFails PROVE LedgerStep
  <2> DEFINE d == filling
             fs == <<Reject(d)>>
  <2>1. /\ d \in Blocks /\ active = Idle /\ filling' = NoBlock /\ UNCHANGED <<cmd, pieces, active, sent>>
        /\ ctrl' = WithReject(ctrl, d)
    BY <1>21 DEF FillFails, history, UploadShape, TypeOK, Together
  <2>2. \A b \in Blocks : Blocked(pieces', filling', active', b) + One(b = d) = Blocked(pieces, filling, active, b)
    <3> SUFFICES ASSUME NEW b \in Blocks
                 PROVE  Blocked(pieces', filling', active', b) + One(b = d) = Blocked(pieces, filling, active, b)
      OBVIOUS
    <3>1. One(filling' = b) = 0 BY <1>0, <2>1 DEF One
    <3>2. One(filling = b) = One(b = d) /\ One(b = d) \in Nat BY DEF One
    <3>3. Times(pieces, b) \in Nat /\ One(active.kind = "piece" /\ active.block = b) \in Nat
      BY <1>f DEF One
    <3> QED BY <2>1, <3>1, <3>2, <3>3 DEF Blocked
  <2>3. CASE mode.fast
    <3>1. ctrl' = WithCtrl(ctrl, fs) BY <2>1, <2>3 DEF WithReject
    <3>2. fs \in Chunks BY <2>1, FramesAre DEF Chunks
    <3>3. \A b \in Blocks : Times(fs, Reject(b)) = One(b = d)
      BY <2>1, FramesAre, RefusalOne, MsgsDiffer DEF One
    <3>4. \A b \in Blocks : One(b = d) \in Nat BY DEF One
    <3> HIDE DEF fs, d
    <3>5. \A b \in Blocks : Debt(b)' = Debt(b)
      <4> SUFFICES ASSUME NEW b \in Blocks PROVE Debt(b)' = Debt(b) OBVIOUS
      <4> DEFINE n == One(b = d)
      <4>1. n \in Nat /\ Times(fs, Reject(b)) = n
            /\ Blocked(pieces', filling', active', b) + n = Blocked(pieces, filling, active, b)
        BY <2>2, <3>3, <3>4
      <4> HIDE DEF n
      <4> QED BY <1>f, <2>1, <3>1, <3>2, <4>1, CtrlGrows
    <3> QED BY <1>0, <1>a, <2>1, <3>5, LedgerSame
  <2>4. CASE ~mode.fast
    <3>1. ctrl' = ctrl BY <2>1, <2>4 DEF WithReject
    <3>2. \A b \in Blocks : One(b = d) \in Nat BY DEF One
    <3>3. \A b \in Blocks : Debt(b)' <= Debt(b) BY <1>e, <1>f, <2>1, <2>2, <3>1, <3>2
    <3> QED BY <1>a, <1>f, <2>1, <2>4, <3>3, LedgerForgets
  <2> QED BY <2>3, <2>4
<1>22. ASSUME Resume PROVE LedgerStep
  <2>1. active' = active BY <1>22 DEF Resume, Go, RateLimited
  <2> QED BY <1>22, <1>a, <2>1, QueuesSame DEF Resume, history
<1>23. ASSUME WakeUp PROVE LedgerStep
  BY <1>23, <1>a, QueuesSame DEF WakeUp, sessionVars, queueVars, torrentVars, history, bounds, ReaderUnchanged, WriterUnchanged
<1>24. ASSUME Written PROVE LedgerStep
  <2>1. /\ OnWire(active) /\ active' = Idle /\ active # Idle /\ UNCHANGED <<cmd, pieces, filling, ctrl>>
    BY <1>24 DEF Written, UploadShape, Together
  <2>2. CASE active.kind = "ctrl"
    <3>1. \A b \in Blocks : sent'[b] = sent[b] + HandRefusals(active, b)
      BY <2>1, <2>2 DEF OnWire, HandRefusals, Rejections
    <3>2. \A b \in Blocks : HandRefusals(active', b) = 0 BY <1>0, <2>1 DEF HandRefusals
    <3>3. \A b \in Blocks : Blocked(pieces', filling', active', b) = Blocked(pieces, filling, active, b)
      BY <1>0, <2>1, <2>2 DEF Blocked, One
    <3>4. \A b \in Blocks : sent[b] \in Nat /\ sent'[b] \in Nat BY <1>0
    <3>5. \A b \in Blocks : sent'[b] >= sent[b] /\ Debt(b)' = Debt(b) - (sent'[b] - sent[b])
      BY <1>e, <1>f, <2>1, <3>1, <3>2, <3>3, <3>4
    <3> QED BY <1>0, <1>a, <1>f, <2>1, <3>5, LedgerAnswers
  <2>3. CASE active.kind # "ctrl"
    <3>1. active.kind = "piece" /\ active.block \in Blocks BY <1>0, <2>1, <2>3, ActivesAre
    <3>2. \A b \in Blocks : sent'[b] = sent[b] + One(active.kind = "piece" /\ active.block = b)
      BY <1>0, <2>1, <2>3, <3>1 DEF OnWire, One
    <3>3. \A b \in Blocks : HandRefusals(active', b) = HandRefusals(active, b)
      BY <1>0, <2>1, <2>3 DEF HandRefusals
    <3>4. \A b \in Blocks : /\ One(active.kind = "piece" /\ active.block = b) \in Nat
                              /\ One(active'.kind = "piece" /\ active'.block = b) = 0
      BY <1>0, <2>1 DEF One
    <3>5. \A b \in Blocks : Blocked(pieces, filling, active, b)
                = Blocked(pieces', filling', active', b) + One(active.kind = "piece" /\ active.block = b)
      <4>1. \A b \in Blocks : One(filling = b) \in Nat BY DEF One
      <4> QED BY <1>f, <2>1, <3>4, <4>1 DEF Blocked
    <3>6. \A b \in Blocks : sent[b] \in Nat /\ sent'[b] \in Nat BY <1>0
    <3>7. \A b \in Blocks : sent'[b] >= sent[b] /\ Debt(b)' = Debt(b) - (sent'[b] - sent[b])
      BY <1>e, <1>f, <2>1, <3>2, <3>3, <3>4, <3>5, <3>6
    <3> QED BY <1>0, <1>a, <1>f, <2>1, <3>7, LedgerAnswers
  <2> QED BY <2>2, <2>3
<1>25. ASSUME SendEnds PROVE LedgerStep
  BY <1>25, <1>a, QueuesSame DEF SendEnds, sessionVars, queueVars, torrentVars, history, bounds, ReaderUnchanged, WriterUnchanged
<1>26. ASSUME WriteFails PROVE LedgerStep
  <2>1. Ended' BY <1>26 DEF WriteFails, Ended
  <2> QED BY <2>1
<1>27. ASSUME LeaveLoop PROVE LedgerStep
  <2>1. Ended' BY <1>27 DEF LeaveLoop, Ended
  <2> QED BY <2>1
<1>28. ASSUME Flush PROVE LedgerStep
  <2>1. Ended' BY <1>28 DEF Flush, Ended
  <2> QED BY <2>1
<1>29. ASSUME FlushWrite PROVE LedgerStep
  <2>1. Ended' BY <1>29 DEF FlushWrite, Ended
  <2> QED BY <2>1
<1>30. ASSUME FlushEnds PROVE LedgerStep
  <2>1. Ended' BY <1>30 DEF FlushEnds, Ended
  <2> QED BY <2>1
<1>31. CASE UNCHANGED vars BY <1>31, <1>a, QueuesSame DEF vars
<1> QED BY <1>1, <1>2, <1>3, <1>4, <1>5, <1>6, <1>7, <1>8, <1>9, <1>10, <1>11, <1>12, <1>13, <1>14, <1>15, <1>16, <1>17, <1>18, <1>19, <1>20, <1>21, <1>22, <1>23, <1>24, <1>25, <1>26, <1>27, <1>28, <1>29, <1>30, <1>31 DEF Next, HelloNext, WriterNext

\* The initial state maps to an empty ledger.
LEMMA LedgerStarts == Init /\ UploadAssumption => Ledger!LedgerInit
<1> SUFFICES ASSUME Init, UploadAssumption PROVE Ledger!LedgerInit OBVIOUS
<1>1. ~Ended BY DEF Init, Ended
<1>2. mode.fast \in BOOLEAN BY DEF Init, UploadAssumption
<1> DEFINE e == <<>>
<1>3. cmd = e /\ ctrl = e /\ pieces = e /\ active = Idle /\ filling = NoBlock /\ sent = [b \in Blocks |-> 0]
  BY DEF Init
<1>4. e \in Seq(WriterMsg) /\ e \in Seq(Blocks) /\ e \in Seq(Seq(Frames)) /\ DOMAIN e = {} OBVIOUS
<1> HIDE DEF e
<1>5. ASSUME NEW b \in Blocks PROVE Debt(b) = 0
  <2>1. Times(e, Upload(b)) = 0 /\ Times(e, Ctrl(Reject(b))) = 0 /\ Times(e, b) = 0 BY <1>4, TimesNat
  <2>2. Cardinality(Places(e, Reject(b))) = 0
    <3>1. Places(e, Reject(b)) = {} BY <1>4 DEF Places
    <3> QED BY <3>1, FS_EmptySet
  <2>3. Idle.kind = "none" BY ActivesAre
  <2>4. One(filling = b) = 0 BY <1>3 DEF One, UploadAssumption
  <2>5. One(active.kind = "piece" /\ active.block = b) = 0 BY <1>3, <2>3 DEF One
  <2>6. Asks(cmd, b) = 0 BY <1>3, <2>1 DEF Asks
  <2>7. Blocked(pieces, filling, active, b) = 0 BY <1>3, <2>1, <2>4, <2>5 DEF Blocked
  <2>8. Refusals(ctrl, b) = 0 /\ HandRefusals(active, b) = 0
    BY <1>3, <2>2, <2>3 DEF Refusals, HandRefusals
  <2> QED BY <2>6, <2>7, <2>8 DEF Debt, Due
<1>6. \A b \in Blocks : Owed(b) = 0 BY <1>1, <1>5, DebtIs
<1>7. Revoked = {}
  <2>1. ToSet(e) = {} BY <1>4 DEF ToSet
  <2>2. RevokedBy(cmd) = {} BY <1>3, <2>1 DEF RevokedBy
  <2> QED BY <1>1, <2>2, DebtIs
<1>8. Ended = FALSE BY <1>1 DEF Ended
<1> QED BY <1>2, <1>3, <1>6, <1>7, <1>8 DEF Ledger!LedgerInit

\* The two tasks of a session, their queues, RC4 and the rate limit take only
\* steps the ledger allows: every request is answered once, by a PIECE or a
\* REJECT, and none is forgotten but those the remote took back or, without
\* Fast, those the session has no REJECT for.
THEOREM SessionKeepsItsLedger == Spec => Ledger!LedgerInit /\ [][Ledger!LedgerNext]_(Ledger!ledgerVars)
<1>1. Init => Ledger!LedgerInit BY LedgerStarts, UploadAssumption
<1>2. UploadShape /\ UploadShape' /\ [Next]_vars => [Ledger!LedgerNext]_(Ledger!ledgerVars)
  BY LedgerStepAlways, UploadAssumption DEF LedgerStep
<1> QED BY <1>1, <1>2, ShapeAlways, PTL DEF Spec
====

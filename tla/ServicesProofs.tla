--------------------------- MODULE ServicesProofs ---------------------------
(***************************************************************************)
(* TLAPS proofs about the services around the data path, each under its    *)
(* own specification: the spans of a piece on their way to the files, the  *)
(* library with its leech cache, the moves of a torrent's files, the       *)
(* console, and the activity log.                                          *)
(***************************************************************************)
EXTENDS SpanWrite, PayloadMove, Console, LogView, Library,
        SequenceTheorems, FiniteSetTheorems, TLAPS

-----------------------------------------------------------------------------
(* Sequences and sets.                                                     *)

\* A set of naturals has a least element.
LEMMA LeastOf ==
  ASSUME NEW T \in SUBSET Nat, T # {}
  PROVE  \E n \in T : \A m \in T : n <= m
<1> DEFINE R == OpToRel(<, Nat)
<1>1. \A n \in Nat, m \in Nat : n < m => <<n, m>> \in R
  BY DEF OpToRel
<1>2. IsWellFoundedOn(R, Nat)
  BY NatLessThanWellFounded
<1> HIDE DEF R
<1>3. PICK n \in T : \A m \in T : ~ (<<m, n>> \in R)
  BY <1>2, WFMin
<1>4. \A m \in T : ~ (m < n)
  BY <1>1, <1>3
<1>5. QED
  BY <1>4

\* What holds at 0 and at each next number holds up to m.
LEMMA HoldsUpTo ==
  ASSUME NEW T, NEW m \in Nat, 0 \in T, \A n \in 0..m : n \in T /\ n < m => n + 1 \in T
  PROVE  \A n \in 0..m : n \in T
<1> DEFINE B == {n \in 0..m : n \notin T}
<1> SUFFICES ASSUME B # {} PROVE FALSE
  OBVIOUS
<1>1. B \in SUBSET Nat
  OBVIOUS
<1>2. PICK n \in B : \A k \in B : n <= k
  <2> HIDE DEF B
  <2>1. QED
    BY <1>1, LeastOf
<1>3. n \in 0..m /\ n # 0 /\ n - 1 \in 0..m /\ n - 1 < m /\ n - 1 < n
  OBVIOUS
<1>4. n - 1 \in T
  BY <1>2, <1>3
<1>5. (n - 1) + 1 \in T
  BY <1>3, <1>4
<1>6. QED
  BY <1>3, <1>5

-----------------------------------------------------------------------------
(* SpanWrite.                                                              *)

DupFree(s) == \A i, k \in DOMAIN s : s[i] = s[k] => i = k

\* A sequence that is cut in two, and one that loses its first element.
LEMMA SplitSeq ==
  ASSUME NEW S, NEW s \in Seq(S), NEW n \in 0..Len(s)
  PROVE  /\ SubSeq(s, 1, n) \in Seq(S) /\ SubSeq(s, n + 1, Len(s)) \in Seq(S)
         /\ ToSet(s) = ToSet(SubSeq(s, 1, n)) \cup ToSet(SubSeq(s, n + 1, Len(s)))
         /\ DupFree(s) => /\ ToSet(SubSeq(s, 1, n)) \cap ToSet(SubSeq(s, n + 1, Len(s))) = {}
                          /\ DupFree(SubSeq(s, n + 1, Len(s)))
<1> DEFINE a == SubSeq(s, 1, n)
           b == SubSeq(s, n + 1, Len(s))
<1>1. /\ Len(s) \in Nat /\ n \in Nat /\ n <= Len(s) /\ DOMAIN s = 1..Len(s)
      /\ \A i \in 1..Len(s) : s[i] \in S
  OBVIOUS
<1>2. a \in Seq(S) /\ DOMAIN a = 1..n /\ \A i \in 1..n : a[i] = s[i]
  BY <1>1
<1>3. b \in Seq(S) /\ DOMAIN b = 1..(Len(s) - n) /\ \A i \in 1..(Len(s) - n) : b[i] = s[i + n]
  BY <1>1
<1> HIDE DEF a, b
<1>4. ToSet(a) \subseteq ToSet(s) /\ ToSet(b) \subseteq ToSet(s)
  <2>1. \A i \in 1..n : i \in DOMAIN s
    BY <1>1
  <2>2. \A i \in 1..(Len(s) - n) : i + n \in DOMAIN s
    BY <1>1
  <2>3. QED
    BY <1>2, <1>3, <2>1, <2>2 DEF ToSet
<1>5. ToSet(s) \subseteq ToSet(a) \cup ToSet(b)
  <2>1. ASSUME NEW i \in DOMAIN s PROVE s[i] \in ToSet(a) \cup ToSet(b)
    <3>1. CASE i <= n
      BY <1>1, <1>2, <3>1 DEF ToSet
    <3>2. CASE ~(i <= n)
      <4>1. i - n \in 1..(Len(s) - n) /\ (i - n) + n = i
        BY <1>1, <3>2
      <4>2. b[i - n] = s[i]
        BY <1>3, <4>1
      <4>3. QED
        BY <1>3, <4>1, <4>2 DEF ToSet
    <3>3. QED
      BY <3>1, <3>2
  <2>2. QED
    BY <2>1 DEF ToSet
<1>6. ASSUME DupFree(s) PROVE ToSet(a) \cap ToSet(b) = {} /\ DupFree(b)
  <2>1. \A i \in 1..n, k \in 1..(Len(s) - n) : s[i] # s[k + n]
    <3>1. \A i \in 1..n, k \in 1..(Len(s) - n) : i \in DOMAIN s /\ k + n \in DOMAIN s /\ i # k + n
      BY <1>1
    <3>2. QED
      BY <1>6, <3>1 DEF DupFree
  <2>2. \A i, k \in 1..(Len(s) - n) : s[i + n] = s[k + n] => i = k
    <3>1. \A i \in 1..(Len(s) - n) : i + n \in DOMAIN s
      BY <1>1
    <3>2. \A i, k \in 1..(Len(s) - n) : i + n = k + n => i = k
      BY <1>1
    <3>3. QED
      BY <1>6, <3>1, <3>2 DEF DupFree
  <2>3. \A i \in DOMAIN a, k \in DOMAIN b : a[i] # b[k]
    BY <1>2, <1>3, <2>1
  <2>4. ToSet(a) \cap ToSet(b) = {}
    BY <2>3 DEF ToSet
  <2>5. \A i, k \in DOMAIN b : b[i] = b[k] => i = k
    BY <1>3, <2>2
  <2>6. QED
    BY <2>4, <2>5 DEF DupFree
<1>7. QED
  BY <1>2, <1>3, <1>4, <1>5, <1>6 DEF a, b

\* A new element keeps a queue free of doubles.
LEMMA AppendSeq ==
  ASSUME NEW S, NEW s \in Seq(S), NEW e \in S
  PROVE  /\ Append(s, e) \in Seq(S) /\ ToSet(Append(s, e)) = ToSet(s) \cup {e}
         /\ DupFree(s) /\ e \notin ToSet(s) => DupFree(Append(s, e))
<1>1. /\ Len(s) \in Nat /\ DOMAIN s = 1..Len(s) /\ Append(s, e) \in Seq(S)
      /\ DOMAIN Append(s, e) = 1..(Len(s) + 1)
      /\ \A i \in 1..Len(s) : Append(s, e)[i] = s[i]
      /\ Append(s, e)[Len(s) + 1] = e
  OBVIOUS
<1> DEFINE t == Append(s, e)
<1> HIDE DEF t
<1>2. /\ DOMAIN t = 1..(Len(s) + 1) /\ t[Len(s) + 1] = e
      /\ \A i \in 1..Len(s) : t[i] = s[i]
  BY <1>1 DEF t
<1>3. ToSet(t) = ToSet(s) \cup {e}
  BY <1>1, <1>2 DEF ToSet
<1>4. ASSUME DupFree(s), e \notin ToSet(s) PROVE DupFree(t)
  BY <1>1, <1>2, <1>4 DEF DupFree, ToSet
<1>5. QED
  BY <1>1, <1>3, <1>4 DEF t

\* What is taken from a queue without doubles is no longer in it.
LEMMA TailSeq ==
  ASSUME NEW S, NEW s \in Seq(S), s # <<>>
  PROVE  /\ Tail(s) \in Seq(S) /\ Head(s) \in S /\ ToSet(s) = {Head(s)} \cup ToSet(Tail(s))
         /\ DupFree(s) => Head(s) \notin ToSet(Tail(s)) /\ DupFree(Tail(s))
<1> DEFINE t == Tail(s)
<1>1. /\ Len(s) \in Nat \ {0} /\ DOMAIN s = 1..Len(s) /\ Head(s) = s[1] /\ s[1] \in S
      /\ t \in Seq(S) /\ DOMAIN t = 1..(Len(s) - 1)
      /\ \A i \in 1..(Len(s) - 1) : t[i] = s[i + 1]
  OBVIOUS
<1> HIDE DEF t
<1>2. \A i \in 1..(Len(s) - 1) : i + 1 \in DOMAIN s /\ i + 1 # 1
  BY <1>1
<1>3. \A i \in DOMAIN s : i = 1 \/ (i - 1 \in 1..(Len(s) - 1) /\ t[i - 1] = s[i])
  BY <1>1
<1>4. ToSet(s) = {Head(s)} \cup ToSet(t)
  <2>1. \A i \in DOMAIN t : t[i] \in ToSet(s)
    BY <1>1, <1>2 DEF ToSet
  <2>2. ToSet(t) \subseteq ToSet(s) /\ Head(s) \in ToSet(s)
    BY <1>1, <2>1 DEF ToSet
  <2>3. \A i \in DOMAIN s : s[i] \in {Head(s)} \cup ToSet(t)
    BY <1>1, <1>3 DEF ToSet
  <2>4. ToSet(s) \subseteq {Head(s)} \cup ToSet(t)
    BY <2>3 DEF ToSet
  <2>5. QED
    BY <2>2, <2>4
<1>5. ASSUME DupFree(s) PROVE Head(s) \notin ToSet(t) /\ DupFree(t)
  <2>1. Head(s) \notin ToSet(t)
    BY <1>1, <1>2, <1>5 DEF ToSet, DupFree
  <2>2. \A i, k \in 1..(Len(s) - 1) : t[i] = t[k] => i + 1 = k + 1
    BY <1>1, <1>2, <1>5 DEF DupFree
  <2>3. QED
    BY <1>1, <2>1, <2>2 DEF DupFree
<1>6. QED
  BY <1>1, <1>4, <1>5 DEF t

\* The pieces not started, in two sequences: a prefix of the second moves over,
\* one more comes in, the first one is taken.
LEMMA LineMoves ==
  ASSUME NEW S, NEW v \in Seq(S), NEW u \in Seq(S), NEW n \in 0..Len(u)
  PROVE  (v \o SubSeq(u, 1, n)) \o SubSeq(u, n + 1, Len(u)) = v \o u
<1> DEFINE a == SubSeq(u, 1, n)
           b == SubSeq(u, n + 1, Len(u))
<1>1. Len(u) \in Nat /\ Len(v) \in Nat /\ n \in Nat /\ n <= Len(u)
  OBVIOUS
<1>2. a \in Seq(S) /\ Len(a) = n /\ \A i \in 1..n : a[i] = u[i]
  BY <1>1
<1>3. b \in Seq(S) /\ Len(b) = Len(u) - n /\ \A i \in 1..(Len(u) - n) : b[i] = u[i + n]
  BY <1>1
<1> HIDE DEF a, b
<1>4. a \o b = u
  <2>1. /\ a \o b \in Seq(S) /\ Len(a \o b) = Len(u)
        /\ \A i \in 1..Len(u) : (a \o b)[i] = IF i <= n THEN a[i] ELSE b[i - n]
    BY <1>1, <1>2, <1>3
  <2>2. ASSUME NEW i \in 1..Len(u) PROVE (a \o b)[i] = u[i]
    <3>1. CASE i <= n
      BY <1>1, <1>2, <2>1, <3>1
    <3>2. CASE ~(i <= n)
      <4>1. i - n \in 1..(Len(u) - n) /\ (i - n) + n = i
        BY <1>1, <3>2
      <4>2. QED
        BY <1>3, <2>1, <3>2, <4>1
    <3>3. QED
      BY <3>1, <3>2
  <2>3. QED
    BY <2>1, <2>2, SeqEqual
<1>5. (v \o a) \o b = v \o (a \o b)
  BY SMTT(20), <1>2, <1>3, ConcatAssociative
<1>6. QED
  BY <1>4, <1>5 DEF a, b

\* What is sent goes to the end of the line.
LEMMA LineGrows ==
  ASSUME NEW S, NEW v \in Seq(S), NEW u \in Seq(S), NEW e \in S
  PROVE  /\ v \o u \in Seq(S)
         /\ v \o Append(u, e) = Append(v \o u, e)
         /\ ToSet(v \o u) = ToSet(v) \cup ToSet(u)
<1>1. v \o u \in Seq(S)
  OBVIOUS
<1>2. v \o Append(u, e) = Append(v \o u, e)
  OBVIOUS
<1> DEFINE w == v \o u
<1>3. /\ Len(u) \in Nat /\ Len(v) \in Nat /\ DOMAIN v = 1..Len(v) /\ DOMAIN u = 1..Len(u)
      /\ DOMAIN w = 1..(Len(v) + Len(u))
      /\ \A i \in 1..(Len(v) + Len(u)) : w[i] = IF i <= Len(v) THEN v[i] ELSE u[i - Len(v)]
  OBVIOUS
<1> HIDE DEF w
<1>4. ToSet(w) \subseteq ToSet(v) \cup ToSet(u)
  <2>1. ASSUME NEW i \in DOMAIN w PROVE w[i] \in ToSet(v) \cup ToSet(u)
    <3>1. CASE i <= Len(v)
      BY <1>3, <3>1 DEF ToSet
    <3>2. CASE ~(i <= Len(v))
      <4>1. i - Len(v) \in DOMAIN u /\ w[i] = u[i - Len(v)]
        BY <1>3, <3>2
      <4>2. QED
        BY <4>1 DEF ToSet
    <3>3. QED
      BY <3>1, <3>2
  <2>2. QED
    BY <2>1 DEF ToSet
<1>5. ASSUME NEW i \in DOMAIN u PROVE u[i] \in ToSet(w)
  <2>1. i + Len(v) \in DOMAIN w /\ w[i + Len(v)] = u[i]
    BY <1>3
  <2>2. QED
    BY <2>1 DEF ToSet
<1>6. \A i \in DOMAIN v : i \in DOMAIN w /\ w[i] = v[i]
  BY <1>3
<1>7. ToSet(v) \cup ToSet(u) \subseteq ToSet(w)
  BY <1>5, <1>6 DEF ToSet
<1>8. QED
  BY <1>1, <1>2, <1>4, <1>7 DEF w

\* What is taken comes from its head.
LEMMA LineTail ==
  ASSUME NEW S, NEW v \in Seq(S), NEW u \in Seq(S), v # <<>>
  PROVE  /\ v \o u \in Seq(S) /\ v \o u # <<>> /\ Head(v \o u) = Head(v)
         /\ Tail(v \o u) = Tail(v) \o u
<1>1. Len(v) \in Nat \ {0} /\ Len(u) \in Nat /\ v \o u \in Seq(S) /\ Len(v \o u) = Len(v) + Len(u)
  OBVIOUS
<1>2. v \o u # <<>> /\ Head(v \o u) = Head(v)
  BY <1>1
<1> DEFINE a == Tail(v \o u)
           b == Tail(v) \o u
<1>3. Tail(v) \in Seq(S) /\ Len(Tail(v)) = Len(v) - 1 /\ \A i \in 1..(Len(v) - 1) : Tail(v)[i] = v[i + 1]
  BY <1>1
<1>4. /\ a \in Seq(S) /\ Len(a) = Len(v) + Len(u) - 1
      /\ \A i \in 1..(Len(v) + Len(u) - 1) : a[i] = (v \o u)[i + 1]
  BY <1>1, <1>2
<1>5. b \in Seq(S) /\ Len(b) = Len(v) + Len(u) - 1
  BY <1>1, <1>3
<1>6. ASSUME NEW i \in 1..(Len(v) + Len(u) - 1) PROVE a[i] = b[i]
  <2>1. CASE i <= Len(v) - 1
    BY <1>1, <1>3, <1>4, <2>1
  <2>2. CASE ~(i <= Len(v) - 1)
    <3>1. b[i] = u[i - (Len(v) - 1)]
      BY <1>1, <1>3, <2>2
    <3>2. (v \o u)[i + 1] = u[(i + 1) - Len(v)]
      BY <1>1, <2>2
    <3>3. i - (Len(v) - 1) = (i + 1) - Len(v)
      BY <1>1
    <3>4. QED
      BY <1>4, <3>1, <3>2, <3>3
  <2>3. QED
    BY <2>1, <2>2
<1> HIDE DEF a, b
<1>7. a = b
  BY <1>4, <1>5, <1>6, SeqEqual
<1>8. QED
  BY <1>1, <1>2, <1>7 DEF a, b

\* Where a piece is: not started, in the hands of start_piece, in flight.
Line == waiting \o inbox
Ahead == offered \cup ToSet(Line)
Cut == IF at \in {"push", "undo"} THEN {cut[1]} ELSE {}
\* The first m writes of a piece; those that the ring or the kernel still knows.
FirstWrites(p, m) == {<<p, s>> : s \in 1..m}
Out(p) == Ops(p) \cap Pending

FlyState == [remaining : Nat, failed : BOOLEAN]
SpanAnswers == {"none", "ok", "fail", "leaked"}

SpanShape ==
    /\ offered \subseteq SpanPieces
    /\ inbox \in Seq(SpanPieces) /\ waiting \in Seq(SpanPieces)
    /\ Flying \subseteq SpanPieces /\ \A p \in Flying : fly[p] \in FlyState
    /\ sq \in Seq(AllOps) /\ kernel \subseteq AllOps /\ finished \subseteq AllOps
    /\ answer \in [SpanPieces -> SpanAnswers]
    /\ at \in {"push", "undo"} =>
          cut \in SpanPieces \X Nat /\ cut[2] \in 1..(SpansOf[cut[1]] + 1)

\* A write is in one place only; AIO has no submission queue.
RingOK ==
    /\ DupFree(sq)
    /\ ToSet(sq) \cap kernel = {} /\ ToSet(sq) \cap finished = {} /\ kernel \cap finished = {}
    /\ ~onRing => sq = <<>>
    /\ at = "undo" => ~onRing

\* A piece is in one place only, and has no answer while it is in one; there is
\* room for what was taken.
Places ==
    /\ DupFree(Line) /\ offered \cap ToSet(Line) = {}
    /\ Cut \cap Ahead = {} /\ Cut \cap Flying = {} /\ Flying \cap Ahead = {}
    /\ \A p \in Ahead \cup Cut \cup Flying : answer[p] = "none"
    /\ at = "recv" => waiting = <<>> /\ Flying = {}
    /\ Cardinality(Flying) + Cardinality(Cut) + Len(waiting) <= SpanDepth

\* What is pending of a piece is what was pushed while it is being started, and
\* what remains of it in flight; a piece in flight that has not failed has lost
\* no write.
AheadOK(p) == Out(p) = {}
CutOK(p) == Out(p) = FirstWrites(p, cut[2] - 1)
FlyOK(p) ==
    /\ fly[p].remaining = Cardinality(Out(p))
    /\ ~fly[p].failed => Ops(p) \subseteq Pending \cup wrote
DoneOK(p) ==
    /\ answer[p] \in {"ok", "fail"} => Out(p) = {}
    /\ answer[p] = "ok" => Ops(p) \subseteq wrote
Writes ==
    /\ \A p \in Ahead : AheadOK(p)
    /\ \A p \in Cut : CutOK(p)
    /\ \A p \in Flying : FlyOK(p)
    /\ \A p \in SpanPieces : DoneOK(p)

SpanInv == SpanShape /\ RingOK /\ Places /\ Writes

\* The last clause of the invariant is the property.
LEMMA DoneIsOutlives == (\A p \in SpanPieces : DoneOK(p)) <=> BufferOutlivesWrites
BY DEF DoneOK, Out, BufferOutlivesWrites

-----------------------------------------------------------------------------
\* The writes of a piece are finitely many.
LEMMA OpsCounted ==
  ASSUME NEW p, NEW m \in Nat
  PROVE  IsFiniteSet(FirstWrites(p, m)) /\ Cardinality(FirstWrites(p, m)) = m
<1> DEFINE T == FirstWrites(p, m)
           f == [s \in 1..m |-> <<p, s>>]
<1>1. IsFiniteSet(1..m) /\ Cardinality(1..m) = m
  <2>1. 1 \in Int /\ m \in Int /\ (m = 0 \/ ~(1 > m)) /\ m - 1 + 1 = m /\ (m = 0 => 1 > m)
    OBVIOUS
  <2>2. IsFiniteSet(1..m) /\ Cardinality(1..m) = IF 1 > m THEN 0 ELSE m - 1 + 1
    BY <2>1, FS_Interval, Zenon
  <2>3. QED
    BY <2>1, <2>2
<1>2. f \in Bijection(1..m, T)
  BY DEF Bijection, Injection, IsInjective, Surjection, FirstWrites
<1>3. ExistsBijection(1..m, T)
  BY <1>2 DEF ExistsBijection
<1> HIDE DEF T, f
<1>4. IsFiniteSet(T) /\ Cardinality(T) = m
  BY <1>1, <1>3, FS_Bijection
<1>5. QED
  BY <1>4 DEF T

\* The operations of a piece are finitely many.
LEMMA OpsFinite ==
  ASSUME NEW p \in SpanPieces
  PROVE  /\ IsFiniteSet(Ops(p)) /\ SpansOf[p] \in Nat
         /\ \A T : T \subseteq Ops(p) => IsFiniteSet(T) /\ Cardinality(T) \in Nat
<1>1. SpansOf[p] \in Nat
  BY SpanAssumption DEF SpanAssumption
<1>2. IsFiniteSet(Ops(p))
  BY <1>1, OpsCounted DEF Ops, FirstWrites
<1>3. QED
  BY <1>1, <1>2, FS_Subset, FS_CardinalityType

\* Operations of different pieces are different.
LEMMA OpsApart ==
  /\ \A p, q : p # q => Ops(p) \cap Ops(q) = {}
  /\ \A p \in SpanPieces : Ops(p) \subseteq AllOps
  /\ \A op \in AllOps : op[1] \in SpanPieces /\ op \in Ops(op[1])
BY DEF Ops, AllOps

\* Finitely many pieces are in flight.
LEMMA FlyingFinite ==
  ASSUME SpanShape PROVE IsFiniteSet(Flying) /\ Cardinality(Flying) \in Nat
<1>1. IsFiniteSet(SpanPieces) /\ Flying \in SUBSET SpanPieces
  BY SpanAssumption DEF SpanAssumption, SpanShape
<1>2. QED
  BY <1>1, FS_Subset, FS_CardinalityType

\* The piece being cut counts for one in flight.
LEMMA CutCounted ==
  IsFiniteSet(Cut) /\ Cardinality(Cut) = IF at \in {"push", "undo"} THEN 1 ELSE 0
BY FS_EmptySet, FS_Singleton DEF Cut

\* The same after a step.
LEMMA CutCountedNext ==
  Cardinality(Cut') = IF at' \in {"push", "undo"} THEN 1 ELSE 0
BY FS_EmptySet, FS_Singleton DEF Cut

\* Depth and ring have room for one.
LEMMA DepthPositive == SpanDepth \in Nat \ {0} /\ RingEntries \in Nat \ {0}
BY SpanAssumption DEF SpanAssumption

\* A step that neither adds nor harvests a write, answers nothing and moves no
\* piece to where it is cut or in flight.
LEMMA WritesQuiet ==
  ASSUME Writes, Pending' = Pending, wrote \subseteq wrote', UNCHANGED <<fly, cut, answer>>,
         Ahead' \subseteq Ahead, Cut' \subseteq Cut
  PROVE  Writes'
<1>1. Flying' = Flying /\ \A p : Out(p)' = Out(p)
  BY DEF Out, Flying
<1>2. \A p : (AheadOK(p) => AheadOK(p)') /\ (CutOK(p) => CutOK(p)')
  BY <1>1 DEF AheadOK, CutOK
<1>3. \A p : (FlyOK(p) => FlyOK(p)') /\ (DoneOK(p) => DoneOK(p)')
  BY <1>1 DEF FlyOK, DoneOK
<1>4. QED
  BY <1>1, <1>2, <1>3 DEF Writes

\* The room that there is for pieces to take.
LEMMA RoomIs ==
  ASSUME SpanShape, Places, at \notin {"push", "undo"}
  PROVE  /\ Cardinality(Flying) \in Nat /\ Len(waiting) \in Nat /\ SpanDepth \in Nat
         /\ Cardinality(Flying) + Len(waiting) <= SpanDepth
<1>1. Cardinality(Cut) = 0
  BY CutCounted
<1>2. waiting \in Seq(SpanPieces)
  BY DEF SpanShape
<1>3. QED
  BY <1>1, <1>2, FlyingFinite, DepthPositive DEF Places

-----------------------------------------------------------------------------
\* The channel and the queue of pieces to start.
LEMMA SendsKeeps ==
  ASSUME SpanInv, NEW p \in SpanPieces, SendsPiece(p) PROVE SpanInv'
<1>1. /\ SpanShape /\ RingOK /\ Places /\ Writes /\ p \in offered
      /\ offered' = offered \ {p} /\ inbox' = Append(inbox, p)
      /\ UNCHANGED <<onRing, waiting, fly, at, cut, sq, kernel, finished, wrote, answer>>
  BY DEF SendsPiece, SpanInv
<1>2. inbox \in Seq(SpanPieces) /\ waiting \in Seq(SpanPieces)
  BY <1>1 DEF SpanShape
<1>3. Line' = Append(Line, p) /\ Line \in Seq(SpanPieces)
  BY <1>1, <1>2, LineGrows DEF Line
<1>4. p \notin ToSet(Line) /\ DupFree(Line)
  BY <1>1 DEF Places
<1>5. ToSet(Line') = ToSet(Line) \cup {p} /\ DupFree(Line')
  BY <1>3, <1>4, AppendSeq
<1>6. Ahead' = Ahead /\ offered' \cap ToSet(Line') = {}
  BY <1>1, <1>5 DEF Ahead, Places
<1>7. inbox' \in Seq(SpanPieces)
  BY <1>1, <1>2
<1>8. SpanShape'
  BY <1>1, <1>7 DEF SpanShape, Flying
<1>9. Cut' = Cut /\ Pending' = Pending
  BY <1>1 DEF Cut, Pending
<1>10. Places'
  BY <1>1, <1>5, <1>6, <1>9 DEF Places, Flying
<1>11. Writes'
  BY <1>1, <1>6, <1>9, WritesQuiet
<1>12. QED
  BY <1>1, <1>8, <1>10, <1>11 DEF SpanInv, RingOK

\* A producer sends a piece.
LEMMA FillKeeps == ASSUME SpanInv, Fill PROVE SpanInv'
<1> DEFINE room == SpanDepth - Cardinality(Flying) - Len(waiting)
           n == IF Len(inbox) < room THEN Len(inbox) ELSE room
<1>1. /\ SpanShape /\ RingOK /\ Places /\ Writes /\ at = "fill" /\ at' = "start"
      /\ waiting' = waiting \o SubSeq(inbox, 1, n) /\ inbox' = SubSeq(inbox, n + 1, Len(inbox))
      /\ UNCHANGED <<onRing, offered, fly, cut, sq, kernel, finished, wrote, answer>>
  BY DEF Fill, SpanInv, outside
<1>2. inbox \in Seq(SpanPieces) /\ waiting \in Seq(SpanPieces) /\ Len(inbox) \in Nat
  BY <1>1 DEF SpanShape
<1>3. room \in Nat /\ Len(waiting) \in Nat /\ Cardinality(Flying) \in Nat /\ SpanDepth \in Nat
  BY <1>1, RoomIs
<1>4. n \in 0..Len(inbox) /\ n <= room
  BY <1>2, <1>3
<1>5. room = SpanDepth - Cardinality(Flying) - Len(waiting)
  OBVIOUS
<1> HIDE DEF room, n
<1>6. /\ SubSeq(inbox, 1, n) \in Seq(SpanPieces) /\ Len(SubSeq(inbox, 1, n)) = n
      /\ inbox' \in Seq(SpanPieces)
  BY <1>1, <1>2, <1>4
<1>7. waiting' \in Seq(SpanPieces) /\ Len(waiting') = Len(waiting) + n
  BY <1>1, <1>2, <1>6
<1>8. Line' = Line
  BY <1>1, <1>2, <1>4, LineMoves DEF Line
<1>9. Ahead' = Ahead /\ Cut' = {} /\ Cut = {} /\ Pending' = Pending /\ Flying' = Flying
  BY <1>1, <1>8 DEF Ahead, Cut, Pending, Flying
<1>10. SpanShape'
  BY <1>1, <1>6, <1>7 DEF SpanShape, Flying
<1>11. Cardinality(Flying') + Cardinality(Cut') + Len(waiting') <= SpanDepth
  BY <1>3, <1>4, <1>5, <1>7, <1>9, FS_EmptySet
<1>12. Places'
  BY <1>1, <1>8, <1>9, <1>11 DEF Places
<1>13. Writes'
  BY <1>1, <1>9, WritesQuiet
<1>14. QED
  BY <1>1, <1>10, <1>12, <1>13 DEF SpanInv, RingOK

\* The thread takes a piece from its channel.
LEMMA RecvKeeps == ASSUME SpanInv, Recv PROVE SpanInv'
<1>1. /\ SpanShape /\ RingOK /\ Places /\ Writes /\ at = "recv"
      /\ UNCHANGED <<onRing, offered, fly, cut, sq, kernel, finished, wrote, answer>>
  BY DEF Recv, SpanInv, outside
<1>2. inbox \in Seq(SpanPieces) /\ waiting = <<>>
  BY <1>1 DEF SpanShape, Places
<1>3. Cut = {} /\ Pending' = Pending /\ Flying' = Flying
  BY <1>1 DEF Cut, Pending, Flying
<1>4. CASE inbox # <<>> /\ waiting' = <<Head(inbox)>> /\ inbox' = Tail(inbox) /\ at' = "fill"
  <2>1. /\ Head(inbox) \in SpanPieces /\ inbox' \in Seq(SpanPieces) /\ waiting' \in Seq(SpanPieces)
        /\ Len(waiting') = 1 /\ <<Head(inbox)>> \o Tail(inbox) = inbox
    BY <1>2, <1>4
  <2>2. Line = inbox
    BY <1>2 DEF Line
  <2>3. Line' = Line
    BY <1>4, <2>1, <2>2 DEF Line
  <2>4. Ahead' = Ahead /\ Cut' = {}
    BY <1>1, <1>4, <2>3 DEF Ahead, Cut
  <2>5. SpanShape'
    BY <1>1, <1>4, <2>1 DEF SpanShape, Flying
  <2>6. Cardinality(Flying') + Cardinality(Cut') + Len(waiting') <= SpanDepth
    <3>1. Flying = {}
      BY <1>1 DEF Places
    <3>2. QED
      BY <1>3, <2>1, <2>4, <3>1, FS_EmptySet, DepthPositive
  <2>7. Places'
    BY <1>1, <1>3, <1>4, <2>3, <2>4, <2>6 DEF Places
  <2>8. Writes'
    BY <1>1, <1>3, <2>4, WritesQuiet
  <2>9. QED
    BY <1>1, <1>4, <2>5, <2>7, <2>8 DEF SpanInv, RingOK
<1>5. CASE at' = "ended" /\ UNCHANGED <<waiting, inbox>>
  <2>1. Line' = Line /\ Ahead' = Ahead /\ Cut' = {}
    BY <1>1, <1>5 DEF Line, Ahead, Cut
  <2>2. SpanShape'
    BY <1>1, <1>5 DEF SpanShape, Flying
  <2>3. Places'
    BY <1>1, <1>3, <1>5, <2>1 DEF Places
  <2>4. Writes'
    BY <1>1, <1>3, <2>1, WritesQuiet
  <2>5. QED
    BY <1>1, <1>5, <2>2, <2>3, <2>4 DEF SpanInv, RingOK
<1>6. QED
  BY <1>4, <1>5 DEF Recv

\* What is still to be cut are pieces.
LEMMA AheadArePieces == ASSUME SpanShape PROVE Ahead \subseteq SpanPieces
<1>1. inbox \in Seq(SpanPieces) /\ waiting \in Seq(SpanPieces) /\ offered \subseteq SpanPieces
  BY DEF SpanShape
<1>2. Line \in Seq(SpanPieces)
  BY <1>1 DEF Line
<1>3. ToSet(Line) \subseteq SpanPieces
  BY <1>2 DEF ToSet
<1>4. QED
  BY <1>1, <1>3 DEF Ahead

\* start_piece: the piece is taken, and answered at once or cut.
LEMMA StartKeeps == ASSUME SpanInv, StartPiece PROVE SpanInv'
<1> DEFINE p == Head(waiting)
<1>1. /\ SpanShape /\ RingOK /\ Places /\ Writes /\ at = "start" /\ waiting # <<>>
      /\ Cardinality(Flying) < SpanDepth /\ waiting' = Tail(waiting)
      /\ UNCHANGED <<onRing, offered, inbox, fly, sq, kernel, finished, wrote>>
  BY DEF StartPiece, SpanInv, outside
<1>2. inbox \in Seq(SpanPieces) /\ waiting \in Seq(SpanPieces)
  BY <1>1 DEF SpanShape
<1>3. /\ Line \in Seq(SpanPieces) /\ Line # <<>> /\ Head(Line) = p /\ Line' = Tail(Line)
  BY <1>1, <1>2, LineTail DEF Line
<1>4. /\ p \in SpanPieces /\ waiting' \in Seq(SpanPieces) /\ Len(waiting') = Len(waiting) - 1
      /\ Len(waiting) \in Nat
  BY <1>1, <1>2
<1>5. /\ ToSet(Line) = {p} \cup ToSet(Line') /\ p \notin ToSet(Line') /\ DupFree(Line')
  BY <1>1, <1>3, TailSeq DEF Places
<1>6. Cut = {} /\ Pending' = Pending /\ Flying' = Flying
  BY <1>1 DEF Cut, Pending, Flying
<1>7. /\ Ahead = Ahead' \cup {p} /\ p \notin Ahead' /\ p \notin Flying /\ answer[p] = "none"
      /\ offered' \cap ToSet(Line') = {}
  BY <1>1, <1>5 DEF Ahead, Places
<1>8. Out(p) = {} /\ \A q : Out(q)' = Out(q)
  BY <1>1, <1>6, <1>7 DEF Writes, AheadOK, Out
<1> HIDE DEF p
<1>9. Cardinality(Flying) \in Nat /\ Cardinality(Flying) + Len(waiting) <= SpanDepth /\ SpanDepth \in Nat
  BY <1>1, RoomIs
<1>10. ASSUME NEW a \in {"ok", "fail"}, Settles({p}, a), UNCHANGED <<at, cut>>,
              a = "ok" => SpansOf[p] = 0
       PROVE  SpanInv'
  <2>1. \A q \in SpanPieces : answer'[q] = IF q = p THEN a ELSE answer[q]
    BY <1>10 DEF Settles
  <2>2. answer' \in [SpanPieces -> SpanAnswers]
    BY <1>1, <1>10 DEF Settles, SpanShape, SpanAnswers
  <2>3. SpanShape'
    BY <1>1, <1>4, <1>10, <2>2, <1>6 DEF SpanShape, Flying
  <2>4. Cut' = {}
    BY <1>1, <1>10 DEF Cut
  <2>5. \A q \in Ahead' \cup Cut' \cup Flying' : answer'[q] = "none"
    <3>1. /\ \A q \in Ahead \cup Flying : answer[q] = "none" /\ q \in SpanPieces
      BY <1>1, AheadArePieces DEF Places, SpanShape
    <3>2. QED
      BY <1>6, <1>7, <2>1, <2>4, <3>1
  <2>6. Places'
    <3>1. Cardinality(Flying') + Cardinality(Cut') + Len(waiting') <= SpanDepth
      BY <1>4, <1>6, <1>9, <2>4, FS_EmptySet
    <3>2. QED
      BY <1>1, <1>5, <1>6, <1>7, <1>10, <2>4, <2>5, <3>1 DEF Places
  <2>7. Ops(p) = {} \/ a # "ok"
    BY <1>10 DEF Ops
  <2>8. ASSUME NEW q \in SpanPieces PROVE DoneOK(q)'
    <3>1. DoneOK(q)
      BY <1>1 DEF Writes
    <3>2. QED
      BY <1>1, <1>8, <2>1, <2>7, <3>1 DEF DoneOK
  <2>9. (\A q \in Ahead : AheadOK(q))' /\ (\A q \in Flying : FlyOK(q))'
    BY <1>1, <1>6, <1>7, <1>8 DEF Writes, AheadOK, FlyOK
  <2>10. Writes'
    BY <2>4, <2>8, <2>9 DEF Writes
  <2>11. QED
    BY <1>1, <1>10, <2>3, <2>6, <2>10 DEF SpanInv, RingOK
<1>11. CASE at' = "push" /\ cut' = <<p, 1>> /\ UNCHANGED <<answer, errors>>
  <2>1. Cut' = {p}
    BY <1>11 DEF Cut
  <2>2. cut' \in SpanPieces \X Nat /\ cut'[2] \in 1..(SpansOf[cut'[1]] + 1)
    BY <1>4, <1>11, OpsFinite
  <2>3. SpanShape'
    BY <1>1, <1>4, <1>6, <1>11, <2>2 DEF SpanShape, Flying
  <2>4. Places'
    <3>1. Cardinality(Flying') + Cardinality(Cut') + Len(waiting') <= SpanDepth
      BY <1>4, <1>6, <1>9, <1>11, CutCountedNext
    <3>2. \A q \in Ahead' \cup Cut' \cup Flying' : answer'[q] = "none"
      BY <1>1, <1>6, <1>7, <1>11, <2>1 DEF Places
    <3>3. QED
      BY <1>1, <1>5, <1>6, <1>7, <1>11, <2>1, <3>1, <3>2 DEF Places
  <2>5. \A q \in Cut' : CutOK(q)'
    <3>1. FirstWrites(p, cut'[2] - 1) = {}
      BY <1>11 DEF FirstWrites
    <3>2. QED
      BY <1>8, <1>11, <2>1, <3>1 DEF CutOK
  <2>6. Writes'
    BY <1>1, <1>6, <1>7, <1>8, <1>11, <2>5 DEF Writes, AheadOK, FlyOK, DoneOK
  <2>7. QED
    BY <1>1, <1>11, <2>3, <2>4, <2>6 DEF SpanInv, RingOK
<1>12. QED
  BY <1>10, <1>11 DEF StartPiece, p

\* Steps of the thread and of the senders that touch no piece.
LEMMA StartsOverKeeps == ASSUME SpanInv, StartsOver PROVE SpanInv'
<1>1. /\ SpanShape /\ RingOK /\ Places /\ Writes /\ at = "start"
      /\ Cardinality(Flying) >= SpanDepth \/ waiting = <<>>
      /\ at' = IF Flying # {} THEN "wait" ELSE "recv"
      /\ UNCHANGED <<onRing, offered, inbox, waiting, fly, cut, sq, kernel, finished, wrote, answer>>
  BY DEF StartsOver, SpanInv, outside
<1>2. /\ Cut = {} /\ Cut' = {} /\ Pending' = Pending /\ Flying' = Flying /\ Line' = Line /\ Ahead' = Ahead
  BY <1>1 DEF Cut, Pending, Flying, Line, Ahead
<1>3. at' = "recv" => waiting' = <<>> /\ Flying' = {}
  BY <1>1, <1>2, FS_EmptySet, DepthPositive
<1>4. SpanShape'
  BY <1>1, <1>2 DEF SpanShape, Flying
<1>5. Places'
  BY <1>1, <1>2, <1>3 DEF Places
<1>6. Writes'
  BY <1>1, <1>2, WritesQuiet
<1>7. QED
  BY <1>1, <1>4, <1>5, <1>6 DEF SpanInv, RingOK

\* The producers hang up.
LEMMA HangsUpKeeps ==
  ASSUME SpanInv,
         UNCHANGED <<onRing, offered, inbox, waiting, fly, at, cut, sq, kernel, finished, wrote, answer>>
  PROVE  SpanInv'
<1>1. /\ Cut' = Cut /\ Pending' = Pending /\ Flying' = Flying /\ Line' = Line /\ Ahead' = Ahead
  BY DEF Cut, Pending, Flying, Line, Ahead
<1>2. SpanShape' /\ Places' /\ RingOK'
  BY <1>1 DEF SpanInv, SpanShape, Places, RingOK, Flying
<1>3. Writes'
  BY <1>1, WritesQuiet DEF SpanInv
<1>4. QED
  BY <1>2, <1>3 DEF SpanInv

-----------------------------------------------------------------------------
\* Steps that move pending writes only: from the submission queue to the
\* kernel, and on to what is finished.
LEMMA PendingMoves ==
  ASSUME SpanInv, Pending' = Pending, wrote \subseteq wrote', RingOK',
         sq' \in Seq(AllOps), kernel' \subseteq AllOps, finished' \subseteq AllOps,
         UNCHANGED <<offered, inbox, waiting, fly, at, cut, answer>>
  PROVE  SpanInv'
<1>1. /\ Cut' = Cut /\ Flying' = Flying /\ Line' = Line /\ Ahead' = Ahead
  BY DEF Cut, Flying, Line, Ahead
<1>2. SpanShape' /\ Places'
  BY <1>1 DEF SpanInv, SpanShape, Places, Flying
<1>3. Writes'
  BY <1>1, WritesQuiet DEF SpanInv
<1>4. QED
  BY <1>2, <1>3 DEF SpanInv

\* The kernel is done with an operation.
LEMMA FinishesKeeps ==
  ASSUME SpanInv, NEW op \in AllOps, Finishes(op) PROVE SpanInv'
<1>1. /\ RingOK /\ SpanShape /\ op \in kernel
      /\ kernel' = kernel \ {op} /\ finished' = finished \cup {op} /\ wrote \subseteq wrote'
      /\ UNCHANGED <<onRing, offered, inbox, waiting, fly, sq, at, cut, answer>>
  BY DEF Finishes, SpanInv
<1>2. Pending' = Pending
  BY <1>1 DEF Pending
<1>3. RingOK'
  BY <1>1 DEF RingOK
<1>4. sq' \in Seq(AllOps) /\ kernel' \subseteq AllOps /\ finished' \subseteq AllOps
  BY <1>1 DEF SpanShape
<1>5. QED
  BY <1>1, <1>2, <1>3, <1>4, PendingMoves

\* A submit moves operations from the ring to the kernel; none is lost.
LEMMA SubmitsMoves ==
  ASSUME SpanShape, RingOK, NEW n \in 0..Len(sq), Submits(n), UNCHANGED <<finished, onRing>>,
         at' = "undo" => ~onRing
  PROVE  /\ Pending' = Pending /\ RingOK' /\ sq' \in Seq(AllOps) /\ kernel' \subseteq AllOps
         /\ finished' \subseteq AllOps
<1> DEFINE a == ToSet(SubSeq(sq, 1, n))
           b == ToSet(SubSeq(sq, n + 1, Len(sq)))
<1>1. sq \in Seq(AllOps) /\ DupFree(sq)
  BY DEF SpanShape, RingOK
<1>2. /\ ToSet(sq) = a \cup b /\ a \cap b = {} /\ sq' \in Seq(AllOps) /\ DupFree(sq')
      /\ kernel' = kernel \cup a /\ ToSet(sq') = b
  BY <1>1, SplitSeq DEF Submits
<1>3. ToSet(sq) \subseteq AllOps
  BY <1>1 DEF ToSet
<1> HIDE DEF a, b
<1>4. Pending' = Pending
  BY <1>2 DEF Pending
<1>5. sq = <<>> => sq' = <<>>
  <2>1. ASSUME sq = <<>> PROVE Len(sq') = 0
    <3>1. n = 0 /\ Len(sq) = 0
      BY <2>1
    <3>2. sq' = SubSeq(<<>>, 1, 0)
      BY <2>1, <3>1 DEF Submits
    <3>3. QED
      BY <3>2
  <2>2. QED
    BY <1>2, <2>1
<1>6. kernel' \subseteq AllOps /\ finished' \subseteq AllOps
  BY <1>2, <1>3 DEF SpanShape
<1>7. RingOK'
  BY <1>2, <1>5 DEF RingOK
<1>8. QED
  BY <1>2, <1>4, <1>6, <1>7

\* The submit at the head of a wait.
LEMMA WaitSubmitsKeeps == ASSUME SpanInv, WaitSubmits PROVE SpanInv'
<1>1. /\ SpanShape /\ RingOK /\ Submits(Len(sq))
      /\ UNCHANGED <<onRing, offered, inbox, waiting, fly, at, cut, finished, wrote, answer>>
  BY DEF WaitSubmits, SpanInv, outside
<1>2. sq \in Seq(AllOps) /\ Len(sq) \in 0..Len(sq)
  BY <1>1 DEF SpanShape
<1>3. Pending' = Pending /\ RingOK' /\ sq' \in Seq(AllOps) /\ kernel' \subseteq AllOps
      /\ finished' \subseteq AllOps
  BY <1>1, <1>2, SubmitsMoves DEF RingOK
<1>4. QED
  BY <1>1, <1>3, PendingMoves

-----------------------------------------------------------------------------
\* start_piece at work: one more write is pushed, the piece goes in flight, or
\* its job is handed back.
LEMMA CutIs ==
  ASSUME SpanShape, RingOK, Writes, at \in {"push", "undo"},
         NEW p, p = cut[1], NEW m, m = cut[2]
  PROVE  /\ p \in SpanPieces /\ m \in 1..(SpansOf[p] + 1) /\ m \in Nat \ {0} /\ m - 1 \in Nat
         /\ SpansOf[p] \in Nat /\ cut = <<p, m>> /\ Cut = {p}
         /\ Out(p) = FirstWrites(p, m - 1) /\ Cardinality(Out(p)) = m - 1
<1>1. cut \in SpanPieces \X Nat /\ cut[2] \in 1..(SpansOf[cut[1]] + 1) /\ Cut = {p}
  BY DEF SpanShape, Cut
<1>2. p \in SpanPieces /\ cut = <<p, m>> /\ SpansOf[p] \in Nat
  BY <1>1, OpsFinite
<1>3. m \in 1..(SpansOf[p] + 1) /\ m \in Nat \ {0} /\ m - 1 \in Nat
  BY <1>1, <1>2
<1>4. Out(p) = FirstWrites(p, m - 1)
  BY <1>1 DEF Writes, CutOK
<1>5. QED
  <2>1. Cardinality(FirstWrites(p, m - 1)) = m - 1
    BY <1>3, OpsCounted
  <2>2. QED
    BY <1>1, <1>2, <1>3, <1>4, <2>1

\* One more operation of the piece being cut is pending.
LEMMA CutGrows ==
  ASSUME SpanInv, at = "push", cut[2] <= SpansOf[cut[1]], Pending' = Pending \cup {cut},
         cut' = [cut EXCEPT ![2] = @ + 1], RingOK',
         sq' \in Seq(AllOps), kernel' \subseteq AllOps, finished' \subseteq AllOps,
         UNCHANGED <<offered, inbox, waiting, fly, at, wrote, answer>>
  PROVE  SpanInv'
<1>0. PICK p, m : p = cut[1] /\ m = cut[2]
  OBVIOUS
<1>1. SpanShape /\ RingOK /\ Places /\ Writes
  BY DEF SpanInv
<1>2. /\ p \in SpanPieces /\ m \in Nat \ {0} /\ SpansOf[p] \in Nat /\ cut = <<p, m>> /\ Cut = {p}
      /\ Out(p) = FirstWrites(p, m - 1) /\ m <= SpansOf[p]
  BY <1>0, <1>1, CutIs
<1>3. cut' = <<p, m + 1>>
  BY <1>0, <1>2
<1>4. cut' \in SpanPieces \X Nat /\ cut'[1] = p /\ cut'[2] = m + 1 /\ cut'[2] \in 1..(SpansOf[p] + 1)
  BY <1>2, <1>3
<1>5. Cut' = {p} /\ Flying' = Flying /\ Line' = Line /\ Ahead' = Ahead
  BY <1>4 DEF Cut, Flying, Line, Ahead
<1>6. SpanShape'
  BY <1>1, <1>4, <1>5 DEF SpanShape, Flying
<1>7. Places'
  BY <1>1, <1>2, <1>5 DEF Places
<1>8. cut \in Ops(p)
  BY <1>2 DEF Ops
<1>9. \A q : q # p => Out(q)' = Out(q)
  BY <1>8, OpsApart DEF Out
<1>10. Out(p)' = Out(p) \cup {cut}
  BY <1>8 DEF Out
<1>11. FirstWrites(p, m) = FirstWrites(p, m - 1) \cup {<<p, m>>}
  <2>1. 1..m = (1..(m - 1)) \cup {m}
    BY <1>2
  <2>2. QED
    BY <2>1 DEF FirstWrites
<1>12. (m + 1) - 1 = m
  BY <1>2
<1>13. CutOK(p)'
  BY <1>2, <1>4, <1>10, <1>11, <1>12 DEF CutOK
<1>14. p \notin Ahead /\ p \notin Flying /\ answer[p] = "none"
  BY <1>1, <1>2 DEF Places
<1>15. Writes'
  <2>1. \A q \in Ahead' : AheadOK(q)'
    BY <1>1, <1>5, <1>9, <1>14 DEF Writes, AheadOK
  <2>2. \A q \in Flying' : FlyOK(q)'
    <3>1. ASSUME NEW q \in Flying PROVE FlyOK(q)'
      <4>1. FlyOK(q) /\ Out(q)' = Out(q)
        BY <1>1, <1>9, <1>14 DEF Writes
      <4>2. QED
        BY <4>1 DEF FlyOK
    <3>2. QED
      BY <1>5, <3>1
  <2>3. ASSUME NEW q \in SpanPieces PROVE DoneOK(q)'
    <3>1. DoneOK(q)
      BY <1>1 DEF Writes
    <3>2. QED
      BY <1>9, <1>14, <3>1 DEF DoneOK
  <2>4. QED
    BY <1>5, <1>13, <2>1, <2>2, <2>3 DEF Writes
<1>16. QED
  BY <1>6, <1>7, <1>15 DEF SpanInv

\* With its n writes the piece is in flight; only a failed one may lack some.
LEMMA CutFlies ==
  ASSUME SpanInv, at = "push", NEW f \in BOOLEAN, fly' = With(cut[1], cut[2] - 1, f),
         ~f => cut[2] > SpansOf[cut[1]], at' = "start", Pending' = Pending, RingOK',
         sq' \in Seq(AllOps), kernel' \subseteq AllOps, finished' \subseteq AllOps,
         UNCHANGED <<offered, inbox, waiting, wrote, answer>>
  PROVE  SpanInv'
<1>0. PICK p, m : p = cut[1] /\ m = cut[2]
  OBVIOUS
<1>1. SpanShape /\ RingOK /\ Places /\ Writes
  BY DEF SpanInv
<1>2. /\ p \in SpanPieces /\ m \in Nat \ {0} /\ m - 1 \in Nat /\ SpansOf[p] \in Nat /\ Cut = {p}
      /\ Out(p) = FirstWrites(p, m - 1) /\ Cardinality(Out(p)) = m - 1
      /\ m \in 1..(SpansOf[p] + 1)
  BY <1>0, <1>1, CutIs
<1>3. /\ Flying' = Flying \cup {p} /\ fly'[p] = [remaining |-> m - 1, failed |-> f]
      /\ \A q \in Flying : q # p => fly'[q] = fly[q]
  BY <1>0 DEF With, Flying
<1>4. ~f => Out(p) = Ops(p)
  <2>1. ASSUME ~f PROVE m - 1 = SpansOf[p]
    BY <1>0, <1>2, <2>1
  <2>2. QED
    BY <1>2, <2>1 DEF Ops, FirstWrites
<1>5. p \notin Ahead /\ p \notin Flying /\ answer[p] = "none"
  BY <1>1, <1>2 DEF Places
<1>6. Cut' = {} /\ Line' = Line /\ Ahead' = Ahead /\ \A q : Out(q)' = Out(q)
  BY DEF Cut, Line, Ahead, Out
<1>7. SpanShape'
  <2>1. \A q \in Flying' : fly'[q] \in FlyState
    <3>1. fly'[p] \in FlyState
      BY <1>2, <1>3 DEF FlyState
    <3>2. \A q \in Flying : fly'[q] \in FlyState
      BY <1>1, <1>3, <1>5 DEF SpanShape
    <3>3. QED
      BY <1>3, <3>1, <3>2
  <2>2. QED
    BY <1>1, <1>2, <1>3, <2>1 DEF SpanShape
<1>8. Places'
  <2>1. Cardinality(Flying') = Cardinality(Flying) + 1 /\ Cardinality(Flying) \in Nat
    BY <1>1, <1>3, <1>5, FlyingFinite, FS_AddElement
  <2>2. Cardinality(Cut) = 1 /\ Cardinality(Cut') = 0
    BY <1>2, <1>6, FS_EmptySet, FS_Singleton
  <2>3. Len(waiting) \in Nat /\ SpanDepth \in Nat
    BY <1>1, DepthPositive DEF SpanShape
  <2>4. Cardinality(Flying) + Cardinality(Cut) + Len(waiting) <= SpanDepth
    BY <1>1 DEF Places
  <2>5. Cardinality(Flying') + Cardinality(Cut') + Len(waiting') <= SpanDepth
    BY <2>1, <2>2, <2>3, <2>4
  <2>6. QED
    BY <1>1, <1>3, <1>5, <1>6, <2>5 DEF Places
<1>9. FlyOK(p)'
  <2>1. Out(p) \subseteq Pending
    BY DEF Out
  <2>2. fly'[p].remaining = m - 1 /\ fly'[p].failed = f
    BY <1>3
  <2>3. QED
    BY <1>2, <1>4, <1>6, <2>1, <2>2 DEF FlyOK
<1>10. \A q \in Flying : FlyOK(q)'
  <2>1. ASSUME NEW q \in Flying PROVE FlyOK(q)'
    <3>1. FlyOK(q) /\ fly'[q] = fly[q]
      BY <1>1, <1>3, <1>5 DEF Writes
    <3>2. QED
      BY <1>6, <3>1 DEF FlyOK
  <2>2. QED
    BY <2>1
<1>11. \A q : (AheadOK(q) => AheadOK(q)') /\ (DoneOK(q) => DoneOK(q)')
  BY <1>6 DEF AheadOK, DoneOK
<1>12. Writes'
  BY <1>1, <1>3, <1>6, <1>9, <1>10, <1>11 DEF Writes
<1>13. QED
  BY <1>7, <1>8, <1>12 DEF SpanInv

\* Without a pending write the job is handed back.
LEMMA CutReturns ==
  ASSUME SpanInv, at \in {"push", "undo"}, Settles({cut[1]}, "fail"), at' = "start", RingOK',
         Ops(cut[1]) \cap Pending' = {}, \A q : q # cut[1] => Out(q)' = Out(q),
         Pending' \subseteq Pending,
         sq' \in Seq(AllOps), kernel' \subseteq AllOps, finished' \subseteq AllOps,
         UNCHANGED <<offered, inbox, waiting, fly, wrote>>
  PROVE  SpanInv'
<1>0. PICK p : p = cut[1]
  OBVIOUS
<1>1. SpanShape /\ RingOK /\ Places /\ Writes
  BY DEF SpanInv
<1>2. p \in SpanPieces /\ Cut = {p}
  BY <1>0, <1>1, CutIs
<1>3. Out(p)' = {} /\ \A q : q # p => Out(q)' = Out(q)
  BY <1>0 DEF Out
<1>4. \A q \in SpanPieces : answer'[q] = IF q = p THEN "fail" ELSE answer[q]
  BY <1>0 DEF Settles
<1>5. answer' \in [SpanPieces -> SpanAnswers]
  BY <1>1 DEF Settles, SpanShape, SpanAnswers
<1>6. p \notin Ahead /\ p \notin Flying
  BY <1>1, <1>2 DEF Places
<1>7. Cut' = {} /\ Flying' = Flying /\ Line' = Line /\ Ahead' = Ahead
  BY DEF Cut, Flying, Line, Ahead
<1>8. SpanShape'
  BY <1>1, <1>5, <1>7 DEF SpanShape, Flying
<1>9. Places'
  <2>1. Cardinality(Cut) = 1 /\ Cardinality(Cut') = 0 /\ Cardinality(Flying) \in Nat
    BY <1>1, <1>2, <1>7, FS_EmptySet, FS_Singleton, FlyingFinite
  <2>2. Len(waiting) \in Nat /\ SpanDepth \in Nat
    BY <1>1, DepthPositive DEF SpanShape
  <2>3. Cardinality(Flying) + Cardinality(Cut) + Len(waiting) <= SpanDepth
    BY <1>1 DEF Places
  <2>4. Cardinality(Flying') + Cardinality(Cut') + Len(waiting') <= SpanDepth
    BY <1>7, <2>1, <2>2, <2>3
  <2>5. \A q \in Ahead \cup Flying : answer[q] = "none" /\ q \in SpanPieces
    BY <1>1, AheadArePieces DEF Places, SpanShape
  <2>6. \A q \in Ahead' \cup Cut' \cup Flying' : answer'[q] = "none"
    BY <1>4, <1>6, <1>7, <2>5
  <2>7. QED
    BY <1>1, <1>7, <2>4, <2>6 DEF Places
<1>10. \A q \in Ahead' : AheadOK(q)'
  BY <1>1, <1>3, <1>6, <1>7 DEF Writes, AheadOK
<1>11. ASSUME NEW q \in Flying PROVE FlyOK(q)'
  <2>1. FlyOK(q) /\ Out(q)' = Out(q) /\ q \in SpanPieces
    BY <1>1, <1>3, <1>6 DEF Writes, SpanShape
  <2>2. Ops(q) \subseteq Pending \cup wrote => Ops(q) \subseteq Pending' \cup wrote'
    BY <2>1 DEF Out
  <2>3. QED
    BY <2>1, <2>2 DEF FlyOK
<1>12. ASSUME NEW q \in SpanPieces PROVE DoneOK(q)'
  <2>1. DoneOK(q)
    BY <1>1 DEF Writes
  <2>2. QED
    BY <1>3, <1>4, <2>1 DEF DoneOK
<1>13. Writes'
  BY <1>7, <1>10, <1>11, <1>12 DEF Writes
<1>14. QED
  BY <1>8, <1>9, <1>13 DEF SpanInv

\* The steps of start_piece, on the ring and in AIO.
LEMMA CutOut ==
  ASSUME SpanInv, at \in {"push", "undo"}, cut[2] = 1
  PROVE  Ops(cut[1]) \cap Pending = {}
<1>0. PICK p, m : p = cut[1] /\ m = cut[2]
  OBVIOUS
<1>1. Out(p) = FirstWrites(p, m - 1) /\ m = 1
  BY <1>0, CutIs DEF SpanInv
<1>2. FirstWrites(p, m - 1) = {}
  BY <1>1 DEF FirstWrites
<1>3. QED
  BY <1>0, <1>1, <1>2 DEF Out

\* The operation to be pushed was never pushed before.
LEMMA CutIsNew ==
  ASSUME SpanInv, at = "push", cut[2] <= SpansOf[cut[1]]
  PROVE  cut \in AllOps /\ cut \notin Pending
<1>0. PICK p, m : p = cut[1] /\ m = cut[2]
  OBVIOUS
<1>1. /\ p \in SpanPieces /\ m \in Nat \ {0} /\ cut = <<p, m>> /\ Out(p) = FirstWrites(p, m - 1)
      /\ SpansOf[p] \in Nat /\ m <= SpansOf[p]
  BY <1>0, CutIs DEF SpanInv
<1>2. cut \in Ops(p)
  BY <1>1 DEF Ops
<1>3. cut \notin FirstWrites(p, m - 1)
  BY <1>1 DEF FirstWrites
<1>4. QED
  BY <1>1, <1>2, <1>3, OpsApart DEF Out

\* A piece is cut when all its spans are out.
LEMMA CutEnds ==
  ASSUME SpanInv, at = "push", cut[2] > SpansOf[cut[1]] PROVE cut[2] - 1 = SpansOf[cut[1]]
<1>0. PICK p, m : p = cut[1] /\ m = cut[2]
  OBVIOUS
<1>1. m \in 1..(SpansOf[p] + 1) /\ SpansOf[p] \in Nat
  BY <1>0, CutIs DEF SpanInv
<1>2. QED
  BY <1>0, <1>1

\* A piece cut short keeps what it has in flight and is failed.
LEMMA PartialKeeps ==
  ASSUME SpanInv, at = "push", Partial, at' = "start",
         UNCHANGED <<onRing, offered, inbox, waiting, sq, kernel, finished, wrote>>
  PROVE  SpanInv'
<1>1. Pending' = Pending /\ SpanShape /\ RingOK
  BY DEF Pending, SpanInv
<1>2. /\ RingOK' /\ sq' \in Seq(AllOps) /\ kernel' \subseteq AllOps /\ finished' \subseteq AllOps
  BY <1>1 DEF RingOK, SpanShape
<1>3. CASE cut[2] = 1
  <2>1. Settles({cut[1]}, "fail") /\ UNCHANGED fly
    BY <1>3 DEF Partial
  <2>2. Ops(cut[1]) \cap Pending' = {} /\ \A q : Out(q)' = Out(q)
    BY <1>1, <1>3, CutOut DEF Out
  <2>3. QED
    BY <1>1, <1>2, <2>1, <2>2, CutReturns
<1>4. CASE cut[2] # 1
  <2>1. fly' = With(cut[1], cut[2] - 1, TRUE) /\ UNCHANGED answer
    BY <1>4 DEF Partial
  <2>2. QED
    BY <1>1, <1>2, <2>1, CutFlies
<1>5. QED
  BY <1>3, <1>4

\* start_piece puts a span on the ring.
LEMMA PushKeeps == ASSUME SpanInv, Push PROVE SpanInv'
<1>1. /\ SpanShape /\ RingOK /\ Writes /\ at = "push" /\ onRing /\ cut[2] <= SpansOf[cut[1]]
      /\ sq' = Append(sq, cut) /\ cut' = [cut EXCEPT ![2] = @ + 1]
      /\ UNCHANGED <<onRing, offered, inbox, waiting, fly, at, kernel, finished, wrote, answer>>
  BY DEF Push, SpanInv, outside
<1>2. cut \in AllOps /\ cut \notin Pending
  BY <1>1, CutIsNew
<1>3. sq \in Seq(AllOps) /\ DupFree(sq) /\ cut \notin ToSet(sq)
  BY <1>1, <1>2 DEF SpanShape, RingOK, Pending
<1>4. sq' \in Seq(AllOps) /\ ToSet(sq') = ToSet(sq) \cup {cut} /\ DupFree(sq')
  BY <1>1, <1>2, <1>3, AppendSeq
<1>5. Pending' = Pending \cup {cut}
  BY <1>1, <1>4 DEF Pending
<1>6. RingOK'
  BY <1>1, <1>2, <1>4 DEF RingOK, Pending
<1>7. kernel' \subseteq AllOps /\ finished' \subseteq AllOps
  BY <1>1 DEF SpanShape
<1>8. QED
  BY <1>1, <1>4, <1>5, <1>6, <1>7, CutGrows

\* start_piece finds the ring full.
LEMMA PushFullKeeps == ASSUME SpanInv, PushFull PROVE SpanInv'
<1>1. /\ SpanShape /\ RingOK /\ at = "push"
      /\ UNCHANGED <<onRing, offered, inbox, waiting, finished, wrote>>
  BY DEF PushFull, SpanInv, outside
<1>2. ASSUME NEW n \in 1..Len(sq), Submits(n), UNCHANGED <<fly, at, cut, answer, errors>>
      PROVE  SpanInv'
  <2>1. n \in 0..Len(sq)
    BY <1>2
  <2>2. /\ Pending' = Pending /\ RingOK' /\ sq' \in Seq(AllOps) /\ kernel' \subseteq AllOps
        /\ finished' \subseteq AllOps
    BY <1>1, <1>2, <2>1, SubmitsMoves
  <2>3. QED
    BY <1>1, <1>2, <2>2, PendingMoves
<1>3. CASE Partial /\ at' = "start" /\ UNCHANGED <<sq, kernel>>
  BY <1>1, <1>3, PartialKeeps
<1>4. QED
  BY <1>2, <1>3 DEF PushFull

\* start_piece submits what it has put on the ring.
LEMMA SubmitPieceKeeps == ASSUME SpanInv, SubmitPiece PROVE SpanInv'
<1>1. /\ SpanShape /\ RingOK /\ at = "push" /\ at' = "start" /\ cut[2] > SpansOf[cut[1]]
      /\ UNCHANGED <<onRing, offered, inbox, waiting, finished, wrote>>
  BY DEF SubmitPiece, SpanInv, outside
<1>2. ASSUME NEW n \in 1..Len(sq), Submits(n), fly' = With(cut[1], SpansOf[cut[1]], FALSE),
             UNCHANGED answer
      PROVE  SpanInv'
  <2>1. n \in 0..Len(sq)
    BY <1>2
  <2>2. /\ Pending' = Pending /\ RingOK' /\ sq' \in Seq(AllOps) /\ kernel' \subseteq AllOps
        /\ finished' \subseteq AllOps
    BY <1>1, <1>2, <2>1, SubmitsMoves
  <2>3. fly' = With(cut[1], cut[2] - 1, FALSE)
    BY <1>1, <1>2, CutEnds
  <2>4. QED
    BY <1>1, <1>2, <2>2, <2>3, CutFlies
<1>3. CASE Partial /\ UNCHANGED <<sq, kernel>>
  BY <1>1, <1>3, PartialKeeps
<1>4. QED
  BY <1>2, <1>3 DEF SubmitPiece

\* AIO submits a span by itself.
LEMMA AioWriteKeeps == ASSUME SpanInv, AioWrite PROVE SpanInv'
<1>1. /\ SpanShape /\ RingOK /\ Places /\ Writes /\ at = "push" /\ ~onRing
      /\ cut[2] <= SpansOf[cut[1]]
      /\ UNCHANGED <<onRing, offered, inbox, waiting, fly, sq, finished, wrote, answer>>
  BY DEF AioWrite, SpanInv, outside
<1>2. CASE kernel' = kernel \cup {cut} /\ cut' = [cut EXCEPT ![2] = @ + 1] /\ UNCHANGED at
  <2>1. cut \in AllOps /\ cut \notin Pending
    BY <1>1, CutIsNew
  <2>2. Pending' = Pending \cup {cut}
    BY <1>1, <1>2 DEF Pending
  <2>3. RingOK'
    BY <1>1, <1>2, <2>1 DEF RingOK, Pending
  <2>4. sq' \in Seq(AllOps) /\ kernel' \subseteq AllOps /\ finished' \subseteq AllOps
    BY <1>1, <1>2, <2>1 DEF SpanShape
  <2>5. QED
    BY <1>1, <1>2, <2>2, <2>3, <2>4, CutGrows
<1>3. CASE at' = "undo" /\ UNCHANGED <<kernel, cut>>
  <2>1. Cut' = Cut /\ Flying' = Flying /\ Line' = Line /\ Ahead' = Ahead /\ Pending' = Pending
    BY <1>1, <1>3 DEF Cut, Flying, Line, Ahead, Pending
  <2>2. SpanShape' /\ Places' /\ RingOK'
    BY <1>1, <1>3, <2>1 DEF SpanShape, Places, RingOK, Flying
  <2>3. Writes'
    BY <1>1, <1>3, <2>1, WritesQuiet
  <2>4. QED
    BY <2>2, <2>3 DEF SpanInv
<1>4. QED
  BY <1>2, <1>3 DEF AioWrite

\* AIO has started all spans of a piece.
LEMMA AioStartedKeeps == ASSUME SpanInv, AioStarted PROVE SpanInv'
<1>1. /\ SpanShape /\ RingOK /\ at = "push" /\ at' = "start" /\ cut[2] > SpansOf[cut[1]]
      /\ fly' = With(cut[1], SpansOf[cut[1]], FALSE)
      /\ UNCHANGED <<onRing, offered, inbox, waiting, sq, kernel, finished, wrote, answer>>
  BY DEF AioStarted, SpanInv, outside
<1>2. /\ Pending' = Pending /\ RingOK' /\ sq' \in Seq(AllOps) /\ kernel' \subseteq AllOps
      /\ finished' \subseteq AllOps
  BY <1>1 DEF Pending, RingOK, SpanShape
<1>3. fly' = With(cut[1], cut[2] - 1, FALSE)
  BY <1>1, CutEnds
<1>4. QED
  BY <1>1, <1>2, <1>3, CutFlies

\* AIO takes back a piece whose submit failed.
LEMMA AioUndoKeeps == ASSUME SpanInv, AioUndo PROVE SpanInv'
<1>1. /\ SpanShape /\ RingOK /\ at = "undo" /\ at' = "start" /\ Ops(cut[1]) \cap kernel = {}
      /\ finished' = finished \ Ops(cut[1]) /\ Settles({cut[1]}, "fail")
      /\ UNCHANGED <<onRing, offered, inbox, waiting, fly, sq, kernel, wrote>>
  BY DEF AioUndo, SpanInv, outside
<1>2. sq = <<>> /\ ToSet(sq) = {}
  BY <1>1 DEF RingOK, ToSet
<1>3. Pending' = Pending \ Ops(cut[1])
  BY <1>1, <1>2 DEF Pending
<1>4. Ops(cut[1]) \cap Pending' = {} /\ Pending' \subseteq Pending
  BY <1>3
<1>5. ASSUME NEW q, q # cut[1] PROVE Out(q)' = Out(q)
  BY <1>3, <1>5, OpsApart DEF Out
<1>6. /\ RingOK' /\ sq' \in Seq(AllOps) /\ kernel' \subseteq AllOps /\ finished' \subseteq AllOps
  BY <1>1 DEF RingOK, SpanShape
<1>7. QED
  BY <1>1, <1>4, <1>5, <1>6, CutReturns

-----------------------------------------------------------------------------
\* The completions: what is harvested of a piece leaves its count.
LEMMA HarvestKeeps ==
  ASSUME SpanInv, Harvest, at \in {"wait", "drain"}, at' \in {"fill", "drain"},
         UNCHANGED <<onRing, offered, inbox, waiting, cut, sq, kernel, wrote>>
  PROVE  SpanInv'
<1> DEFINE whole == {p \in Flying : Left(p) = 0}
           verdict == [p \in Flying |-> IF Spoilt(p) THEN "fail" ELSE "ok"]
<1>1. SpanShape /\ RingOK /\ Places /\ Writes
  BY DEF SpanInv
<1>2. /\ fly' = [p \in Flying \ whole |-> [remaining |-> Left(p), failed |-> Spoilt(p)]]
      /\ answer' = [p \in SpanPieces |-> IF p \in whole THEN verdict[p] ELSE answer[p]]
      /\ finished' = {}
  BY DEF Harvest, HarvestFrom
<1>3. /\ Flying' = Flying \ whole
      /\ \A p \in Flying' : /\ fly'[p].remaining = Left(p) /\ fly'[p].failed = Spoilt(p)
                            /\ fly'[p] = [remaining |-> Left(p), failed |-> Spoilt(p)]
  BY <1>2 DEF Flying
<1>4. /\ \A p \in SpanPieces : p \notin whole => answer'[p] = answer[p]
      /\ \A p \in whole : answer'[p] = IF Spoilt(p) THEN "fail" ELSE "ok"
      /\ answer' \in [SpanPieces -> SpanAnswers]
  BY <1>1, <1>2 DEF SpanShape, SpanAnswers
<1>5. Cut = {} /\ Cut' = {} /\ Line' = Line /\ Ahead' = Ahead
  BY DEF Cut, Line, Ahead
<1>6. /\ Pending' = ToSet(sq) \cup kernel /\ Pending' = Pending \ finished
      /\ finished \subseteq Pending
  BY <1>1, <1>2 DEF Pending, RingOK
<1>7. \A p : Back(p) \subseteq finished /\ Back(p) \cap Out(p)' = {} /\ Out(p)' \subseteq Out(p)
  BY <1>6 DEF Back, Out
<1>8. \A p \in SpanPieces : Back(p) = finished \cap Ops(p)
  <2>1. \A op \in finished : op[1] \in SpanPieces /\ op \in Ops(op[1])
    BY <1>1, OpsApart DEF SpanShape
  <2>2. ASSUME NEW p \in SpanPieces, NEW op \in finished PROVE op[1] = p <=> op \in Ops(p)
    BY <2>1, <2>2 DEF Ops
  <2>3. QED
    BY <2>2 DEF Back
<1>9. \A p \in SpanPieces : Out(p) = Out(p)' \cup Back(p)
  BY <1>6, <1>8 DEF Out
<1>10. ASSUME NEW p \in SpanPieces
       PROVE  /\ Cardinality(Out(p)') = Cardinality(Out(p)) - Cardinality(Back(p))
              /\ Cardinality(Out(p)') \in Nat /\ IsFiniteSet(Out(p)')
  <2>1. Back(p) \subseteq Ops(p) /\ Out(p)' \subseteq Ops(p)
    BY <1>8 DEF Out
  <2>2. /\ IsFiniteSet(Back(p)) /\ IsFiniteSet(Out(p)')
        /\ Cardinality(Back(p)) \in Nat /\ Cardinality(Out(p)') \in Nat
    BY <2>1, OpsFinite
  <2> DEFINE a == Out(p)'
             b == Back(p)
  <2>3. /\ a \cap b = {} /\ Out(p) = a \cup b
        /\ IsFiniteSet(a) /\ IsFiniteSet(b) /\ Cardinality(a) \in Nat /\ Cardinality(b) \in Nat
    BY <1>7, <1>9, <2>2
  <2> HIDE DEF a, b
  <2>4. Cardinality(a \cup b) = Cardinality(a) + Cardinality(b) - Cardinality(a \cap b)
    BY <2>3, FS_Union
  <2>5. Cardinality(a \cap b) = 0
    BY <2>3, FS_EmptySet
  <2>6. Cardinality(Out(p)) = Cardinality(a) + Cardinality(b)
    BY <2>3, <2>4, <2>5
  <2>7. Cardinality(a) = Cardinality(Out(p)) - Cardinality(b)
    BY <2>3, <2>6
  <2>8. QED
    BY <2>3, <2>7 DEF a, b
<1> HIDE DEF whole, verdict
<1>11. ASSUME NEW p \in Flying
       PROVE  /\ p \in SpanPieces /\ Left(p) = Cardinality(Out(p)') /\ Left(p) \in Nat
              /\ Spoilt(p) \in BOOLEAN
              /\ ~Spoilt(p) => Ops(p) \subseteq Pending' \cup wrote
  <2>1. p \in SpanPieces /\ fly[p].remaining = Cardinality(Out(p)) /\ fly[p].failed \in BOOLEAN
    BY <1>1 DEF SpanShape, Writes, FlyOK, FlyState
  <2>2. Left(p) = Cardinality(Out(p)') /\ Left(p) \in Nat
    BY <1>10, <2>1 DEF Left
  <2>3. ASSUME ~Spoilt(p) PROVE Ops(p) \subseteq Pending' \cup wrote
    <3>1. ~fly[p].failed /\ Back(p) \subseteq wrote
      BY <2>3 DEF Spoilt
    <3>2. Ops(p) \subseteq Pending \cup wrote
      BY <1>1, <3>1 DEF Writes, FlyOK
    <3>3. QED
      BY <1>6, <1>8, <2>1, <3>1, <3>2
  <2>4. Spoilt(p) \in BOOLEAN
    BY <2>1 DEF Spoilt
  <2>5. QED
    BY <2>1, <2>2, <2>3, <2>4
<1>12. SpanShape'
  <2>1. ASSUME NEW p \in Flying' PROVE fly'[p] \in FlyState
    <3>1. Left(p) \in Nat /\ Spoilt(p) \in BOOLEAN
      BY <1>3, <1>11
    <3>2. \A n \in Nat, f \in BOOLEAN : [remaining |-> n, failed |-> f] \in FlyState
      BY DEF FlyState
    <3>3. fly'[p] = [remaining |-> Left(p), failed |-> Spoilt(p)]
      BY <1>3
    <3>4. QED
      BY <3>1, <3>2, <3>3, Zenon
  <2>2. QED
    BY <1>1, <1>2, <1>3, <1>4, <2>1 DEF SpanShape
<1>13. Places'
  <2>1. IsFiniteSet(Flying) /\ Flying' \subseteq Flying
    BY <1>1, <1>3, FlyingFinite
  <2>2. Cardinality(Flying') \in Nat /\ Cardinality(Flying') <= Cardinality(Flying)
    BY <2>1, FS_Subset, FS_CardinalityType
  <2>3. Cardinality(Flying) \in Nat /\ Len(waiting) \in Nat /\ SpanDepth \in Nat
        /\ Cardinality(Flying) + Len(waiting) <= SpanDepth
    BY <1>1, RoomIs
  <2>4. Cardinality(Flying') + Cardinality(Cut') + Len(waiting') <= SpanDepth
    BY <1>5, <2>2, <2>3, FS_EmptySet
  <2>5. \A p \in Ahead \cup Flying : answer[p] = "none" /\ p \in SpanPieces
    BY <1>1, AheadArePieces DEF Places, SpanShape
  <2>6. whole \subseteq Flying /\ Flying \cap Ahead = {}
    BY <1>1 DEF whole, Places
  <2>7. \A p \in Ahead' \cup Cut' \cup Flying' : answer'[p] = "none"
    BY <1>3, <1>4, <1>5, <2>5, <2>6
  <2>8. QED
    BY <1>1, <1>3, <1>5, <2>4, <2>7 DEF Places
<1>14. \A p \in Ahead' : AheadOK(p)'
  <2>1. ASSUME NEW p \in Ahead' PROVE AheadOK(p)'
    <3>1. Out(p) = {}
      BY <1>1, <1>5 DEF Writes, AheadOK
    <3>2. QED
      BY <1>7, <3>1 DEF AheadOK
  <2>2. QED
    BY <2>1
<1>15. ASSUME NEW p \in Flying' PROVE FlyOK(p)'
  <2>1. p \in Flying /\ fly'[p].remaining = Left(p) /\ fly'[p].failed = Spoilt(p)
    BY <1>3
  <2>2. QED
    BY <1>11, <2>1 DEF FlyOK
<1>16. ASSUME NEW p \in SpanPieces PROVE DoneOK(p)'
  <2>1. CASE p \in whole
    <3>1. p \in Flying /\ Left(p) = 0
      BY <2>1 DEF whole
    <3>2. Out(p)' = {}
      BY <1>10, <1>11, <3>1, FS_EmptySet
    <3>3. answer'[p] = "ok" => Ops(p) \subseteq Pending' \cup wrote
      BY <1>4, <1>11, <2>1, <3>1
    <3>4. QED
      BY <3>2, <3>3 DEF DoneOK, Out
  <2>2. CASE p \notin whole
    <3>1. DoneOK(p) /\ answer'[p] = answer[p] /\ Out(p)' \subseteq Out(p)
      BY <1>1, <1>4, <1>7, <2>2 DEF Writes
    <3>2. QED
      BY <3>1 DEF DoneOK
  <2>3. QED
    BY <2>1, <2>2
<1>17. Writes'
  BY <1>5, <1>14, <1>15, <1>16 DEF Writes
<1>18. RingOK'
  BY <1>1, <1>2 DEF RingOK
<1>19. QED
  BY <1>12, <1>13, <1>17, <1>18 DEF SpanInv

\* A completion is taken, and the last one answers the job.
LEMMA WaitKeeps == ASSUME SpanInv, Wait \/ DrainHarvests PROVE SpanInv'
<1>1. /\ Harvest /\ at \in {"wait", "drain"} /\ at' \in {"fill", "drain"}
      /\ UNCHANGED <<onRing, offered, inbox, waiting, cut, sq, kernel, wrote>>
  BY DEF Wait, DrainHarvests, outside
<1>2. QED
  BY <1>1, HarvestKeeps

\* A wait fails for good: the thread begins to drain.
LEMMA WaitFailsKeeps == ASSUME SpanInv, WaitFails PROVE SpanInv'
<1>1. /\ SpanShape /\ RingOK /\ Places /\ Writes /\ at = "wait" /\ at' = "drain"
      /\ fly' = [p \in Flying |-> [fly[p] EXCEPT !.failed = TRUE]]
      /\ UNCHANGED <<onRing, offered, inbox, waiting, cut, sq, kernel, finished, wrote, answer>>
  BY DEF WaitFails, SpanInv, outside
<1>2. Flying' = Flying /\ Cut' = {} /\ Cut = {} /\ Line' = Line /\ Ahead' = Ahead /\ Pending' = Pending
  BY <1>1 DEF Flying, Cut, Line, Ahead, Pending
<1>3. \A p \in Flying : /\ fly'[p] \in FlyState
                        /\ fly'[p].remaining = fly[p].remaining /\ fly'[p].failed
  BY <1>1 DEF SpanShape, FlyState
<1>4. SpanShape' /\ Places' /\ RingOK'
  BY <1>1, <1>2, <1>3 DEF SpanShape, Places, RingOK
<1>5. \A p : Out(p)' = Out(p)
  BY <1>2 DEF Out
<1>6. Writes'
  BY <1>1, <1>2, <1>3, <1>5 DEF Writes, AheadOK, FlyOK, DoneOK
<1>7. QED
  BY <1>4, <1>6 DEF SpanInv

\* The drain leaves what it cannot wait for, with its buffers.
LEMMA DrainGivesUpKeeps == ASSUME SpanInv, DrainGivesUp PROVE SpanInv'
<1>1. /\ SpanShape /\ RingOK /\ Places /\ Writes /\ at = "drain"
      /\ Settles(Flying, "leaked") /\ fly' = <<>>
      /\ UNCHANGED <<onRing, offered, inbox, waiting, at, cut, sq, kernel, finished, wrote>>
  BY DEF DrainGivesUp, SpanInv, outside
<1>2. Flying' = {} /\ Cut' = {} /\ Cut = {} /\ Line' = Line /\ Ahead' = Ahead /\ Pending' = Pending
  BY <1>1 DEF Flying, Cut, Line, Ahead, Pending
<1>3. \A p \in SpanPieces : answer'[p] = IF p \in Flying THEN "leaked" ELSE answer[p]
  BY <1>1 DEF Settles
<1>4. answer' \in [SpanPieces -> SpanAnswers]
  BY <1>1 DEF Settles, SpanShape, SpanAnswers
<1>5. SpanShape' /\ RingOK'
  BY <1>1, <1>2, <1>4 DEF SpanShape, RingOK
<1>6. Places'
  <2>1. Cardinality(Flying) \in Nat /\ Len(waiting) \in Nat /\ SpanDepth \in Nat
        /\ Cardinality(Flying) + Len(waiting) <= SpanDepth
    BY <1>1, RoomIs
  <2>2. Cardinality(Flying') + Cardinality(Cut') + Len(waiting') <= SpanDepth
    BY <1>1, <1>2, <2>1, FS_EmptySet
  <2>3. \A p \in Ahead : answer[p] = "none" /\ p \in SpanPieces /\ p \notin Flying
    BY <1>1, AheadArePieces DEF Places
  <2>4. \A p \in Ahead' \cup Cut' \cup Flying' : answer'[p] = "none"
    BY <1>2, <1>3, <2>3
  <2>5. QED
    BY <1>1, <1>2, <2>2, <2>4 DEF Places
<1>7. \A p : Out(p)' = Out(p)
  BY <1>2 DEF Out
<1>8. Writes'
  BY <1>1, <1>2, <1>3, <1>7 DEF Writes, AheadOK, DoneOK
<1>9. QED
  BY <1>5, <1>6, <1>8 DEF SpanInv

\* The drain fails what was never started.
LEMMA DrainsRestKeeps == ASSUME SpanInv, DrainsRest PROVE SpanInv'
<1>1. /\ SpanShape /\ RingOK /\ Places /\ Writes /\ at = "drain" /\ at' = "ended" /\ Flying = {}
      /\ Settles(ToSet(waiting) \cup ToSet(inbox), "fail") /\ waiting' = <<>> /\ inbox' = <<>>
      /\ UNCHANGED <<onRing, offered, fly, cut, sq, kernel, finished, wrote>>
  BY DEF DrainsRest, SpanInv, outside
<1>2. ToSet(Line) = ToSet(waiting) \cup ToSet(inbox)
  <2>1. waiting \in Seq(SpanPieces) /\ inbox \in Seq(SpanPieces)
    BY <1>1 DEF SpanShape
  <2>2. CASE SpanPieces = {}
    <3>1. waiting = <<>> /\ inbox = <<>>
      BY <2>1, <2>2
    <3>2. QED
      BY <3>1 DEF Line, ToSet
  <2>3. CASE SpanPieces # {}
    <3>1. PICK e \in SpanPieces : TRUE
      BY <2>3
    <3>2. QED
      BY <2>1, <3>1, LineGrows DEF Line
  <2>4. QED
    BY <2>2, <2>3
<1>3. Line' = <<>> /\ ToSet(Line') = {} /\ DupFree(Line')
  <2>1. Line' = <<>>
    BY <1>1 DEF Line
  <2>2. QED
    BY <2>1 DEF ToSet, DupFree
<1>4. Flying' = {} /\ Cut' = {} /\ Cut = {} /\ Ahead' = offered /\ Pending' = Pending
  BY <1>1, <1>3 DEF Flying, Cut, Ahead, Pending
<1>5. \A p \in SpanPieces : answer'[p] = IF p \in ToSet(Line) THEN "fail" ELSE answer[p]
  BY <1>1, <1>2 DEF Settles
<1>6. answer' \in [SpanPieces -> SpanAnswers]
  BY <1>1 DEF Settles, SpanShape, SpanAnswers
<1>7. SpanShape' /\ RingOK'
  BY <1>1, <1>4, <1>6 DEF SpanShape, RingOK
<1>8. Places'
  <2>1. Cardinality(Flying') + Cardinality(Cut') + Len(waiting') <= SpanDepth
    <3>1. Len(waiting') = 0 /\ Cardinality(Flying') = 0 /\ Cardinality(Cut') = 0
      BY <1>1, <1>4, FS_EmptySet
    <3>2. QED
      BY <3>1, DepthPositive
  <2>2. \A p \in offered : p \in SpanPieces /\ p \notin ToSet(Line) /\ answer[p] = "none"
    BY <1>1 DEF Places, SpanShape, Ahead
  <2>3. QED
    BY <1>1, <1>3, <1>4, <1>5, <2>1, <2>2 DEF Places
<1>9. \A p : Out(p)' = Out(p)
  BY <1>4 DEF Out
<1>10. Writes'
  <2>1. \A p \in Ahead : Out(p) = {}
    BY <1>1 DEF Writes, AheadOK
  <2>2. \A p \in Ahead' : AheadOK(p)'
    BY <1>4, <1>9, <2>1 DEF Ahead, AheadOK
  <2>3. ASSUME NEW p \in SpanPieces PROVE DoneOK(p)'
    <3>1. DoneOK(p)
      BY <1>1 DEF Writes
    <3>2. CASE p \in ToSet(Line)
      BY <1>5, <1>9, <2>1, <3>2 DEF DoneOK, Ahead
    <3>3. CASE p \notin ToSet(Line)
      BY <1>1, <1>5, <1>9, <3>1, <3>3 DEF DoneOK
    <3>4. QED
      BY <3>2, <3>3
  <2>4. QED
    BY <1>4, <2>2, <2>3 DEF Writes
<1>11. QED
  BY <1>7, <1>8, <1>10 DEF SpanInv

-----------------------------------------------------------------------------
\* An idle thread satisfies SpanInv.
LEMMA SpanInitOK == SpanInit => SpanInv
<1> SUFFICES ASSUME SpanInit PROVE SpanInv
  OBVIOUS
<1>1. /\ offered = SpanPieces /\ inbox = <<>> /\ waiting = <<>> /\ fly = <<>> /\ at = "fill"
      /\ sq = <<>> /\ kernel = {} /\ finished = {}
      /\ answer = [p \in SpanPieces |-> "none"]
  BY DEF SpanInit
<1>2. Line = <<>> /\ Flying = {} /\ Cut = {}
  BY <1>1 DEF Line, Flying, Cut
<1>3. ToSet(sq) = {} /\ ToSet(Line) = {} /\ DupFree(sq) /\ DupFree(Line)
  BY <1>1, <1>2 DEF ToSet, DupFree
<1>4. Pending = {} /\ Ahead = SpanPieces
  BY <1>1, <1>3 DEF Pending, Ahead
<1>5. SpanShape
  BY <1>1, <1>2 DEF SpanShape, SpanAnswers
<1>6. RingOK
  BY <1>1, <1>3 DEF RingOK
<1>7. Places
  <2>1. Cardinality(Flying) + Cardinality(Cut) + Len(waiting) <= SpanDepth
    BY <1>1, <1>2, FS_EmptySet, DepthPositive
  <2>2. QED
    BY <1>1, <1>2, <1>3, <1>4, <2>1 DEF Places
<1>8. Writes
  BY <1>1, <1>2, <1>4 DEF Writes, AheadOK, DoneOK, Out
<1>9. QED
  BY <1>5, <1>6, <1>7, <1>8 DEF SpanInv

\* Every step of thread and kernel keeps SpanInv.
LEMMA SpanNextOK == SpanInv /\ [SpanNext]_spanVars => SpanInv'
<1> SUFFICES ASSUME SpanInv, [SpanNext]_spanVars PROVE SpanInv'
  OBVIOUS
<1>1. ASSUME NEW p \in SpanPieces, SendsPiece(p) PROVE SpanInv'
  BY <1>1, SendsKeeps
<1>2. CASE HangsUp \/ UNCHANGED spanVars
  BY <1>2, HangsUpKeeps DEF HangsUp, spanVars
<1>3. ASSUME NEW op \in AllOps, Finishes(op) PROVE SpanInv'
  BY <1>3, FinishesKeeps
<1>4. CASE Fill \/ StartPiece \/ StartsOver \/ Recv
  BY <1>4, FillKeeps, StartKeeps, StartsOverKeeps, RecvKeeps
<1>5. CASE Push \/ PushFull \/ SubmitPiece \/ AioWrite \/ AioStarted \/ AioUndo
  BY <1>5, PushKeeps, PushFullKeeps, SubmitPieceKeeps, AioWriteKeeps, AioStartedKeeps, AioUndoKeeps
<1>6. CASE Wait \/ WaitSubmits \/ WaitFails \/ DrainHarvests \/ DrainGivesUp \/ DrainsRest
  BY <1>6, WaitKeeps, WaitSubmitsKeeps, WaitFailsKeeps, DrainGivesUpKeeps, DrainsRestKeeps
<1>7. QED
  BY <1>1, <1>2, <1>3, <1>4, <1>5, <1>6 DEF SpanNext, SpanStep

\* start_piece, harvest_cqes, harvest_completions, fatal_drain_and_exit
\* (uring.rs, aio.rs): the buffer of a piece goes back to the pool only when no
\* write of it is queued or running, and as a stored piece only when each of
\* its files took all it was given, for every number of pieces, of their
\* files, every depth and every room of the submission queue.
THEOREM BuffersOutliveWrites == SpanSpec => []BufferOutlivesWrites
<1>1. SpanInv => BufferOutlivesWrites
  BY DoneIsOutlives DEF SpanInv, Writes
<1>2. QED
  BY <1>1, SpanInitOK, SpanNextOK, PTL DEF SpanSpec

-----------------------------------------------------------------------------
(* Library: the sizes of sets of torrents.                                 *)

\* Of sets of torrents, one is the smallest.
LEMMA SmallestOf ==
  ASSUME LibraryAssumption, NEW C \in SUBSET (SUBSET Torrents), C # {}
  PROVE  \E S \in C : \A U \in C : Cardinality(S) <= Cardinality(U)
<1> DEFINE N == {Cardinality(S) : S \in C}
<1>1. \A S \in C : Cardinality(S) \in Nat
  BY FS_Subset, FS_CardinalityType DEF LibraryAssumption
<1>2. N \in SUBSET Nat /\ N # {}
  BY <1>1
<1>3. PICK n \in N : \A m \in N : n <= m
  <2> HIDE DEF N
  <2>1. QED
    BY <1>2, LeastOf
<1>4. QED
  BY <1>3

\* The torrents are finitely many, and a set of them loses its member.
LEMMA OneLess ==
  ASSUME LibraryAssumption, NEW S \in SUBSET Torrents, NEW t \in S
  PROVE  /\ Cardinality(S) \in Nat /\ Cardinality(S \ {t}) \in Nat
         /\ Cardinality(S \ {t}) = Cardinality(S) - 1
<1>1. IsFiniteSet(S) /\ Cardinality(S) \in Nat
  BY FS_Subset, FS_CardinalityType DEF LibraryAssumption
<1>2. IsFiniteSet(S \ {t}) /\ Cardinality(S \ {t}) = Cardinality(S) - 1
  BY <1>1, FS_RemoveElement
<1>3. Cardinality(S \ {t}) \in Nat
  BY <1>2, FS_CardinalityType
<1>4. QED
  BY <1>1, <1>2, <1>3

AnyOf(s) == CHOOSE x \in s : TRUE
Small(S, n) == {s \in SUBSET S : Cardinality(s) <= n}
SumsOf(S, f) == f = [s \in SUBSET S |-> IF s = {} THEN 0 ELSE SizeOf[AnyOf(s)] + f[s \ {AnyOf(s)}]]
SumsTo(S, n, f) ==
    f = [s \in Small(S, n) |-> IF s = {} THEN 0 ELSE SizeOf[AnyOf(s)] + f[s \ {AnyOf(s)}]]

LEMMA AnyIs == ASSUME NEW s, s # {} PROVE AnyOf(s) \in s
BY DEF AnyOf

\* The sums of a set's subsets exist as one function.
LEMMA SumsExist ==
  ASSUME LibraryAssumption, NEW S \in SUBSET Torrents
  PROVE  \E f : SumsOf(S, f)
<1>1. Cardinality(S) \in Nat /\ IsFiniteSet(S)
  BY FS_Subset, FS_CardinalityType DEF LibraryAssumption
<1> DEFINE m == Cardinality(S)
<1> DEFINE T == {n \in 0..m : \E f : SumsTo(S, n, f)}
<1>2. 0 \in T
  <2> DEFINE f == [s \in Small(S, 0) |-> 0]
  <2>1. \A s \in Small(S, 0) : s = {}
    <3> SUFFICES ASSUME NEW s \in Small(S, 0), NEW x \in s PROVE FALSE
      OBVIOUS
    <3>1. s \in SUBSET Torrents /\ Cardinality(s) <= 0
      BY DEF Small
    <3>2. /\ Cardinality(s) \in Nat /\ Cardinality(s \ {x}) \in Nat
          /\ Cardinality(s \ {x}) = Cardinality(s) - 1
      BY <3>1, OneLess
    <3>3. QED
      BY <3>1, <3>2
  <2>2. f = [s \in Small(S, 0) |-> IF s = {} THEN 0 ELSE SizeOf[AnyOf(s)] + f[s \ {AnyOf(s)}]]
    BY <2>1
  <2>3. SumsTo(S, 0, f)
    BY <2>2 DEF SumsTo
  <2> HIDE DEF f
  <2>4. QED
    BY <1>1, <2>3
<1>3. ASSUME NEW n \in 0..m, n \in T, n < m PROVE n + 1 \in T
  <2>1. PICK f : SumsTo(S, n, f)
    BY <1>3
  <2>2. /\ DOMAIN f = Small(S, n)
        /\ \A s \in Small(S, n) : f[s] = IF s = {} THEN 0 ELSE SizeOf[AnyOf(s)] + f[s \ {AnyOf(s)}]
    BY <2>1 DEF SumsTo
  <2> DEFINE g == [s \in Small(S, n + 1) |-> IF s = {} THEN 0 ELSE SizeOf[AnyOf(s)] + f[s \ {AnyOf(s)}]]
  <2>3. ASSUME NEW s \in Small(S, n + 1), s # {}
        PROVE  /\ s \ {AnyOf(s)} \in Small(S, n)
               /\ s \ {AnyOf(s)} \in Small(S, n + 1)
    <3>1. s \in SUBSET S /\ s \in SUBSET Torrents /\ Cardinality(s) <= n + 1
      BY DEF Small
    <3>2. AnyOf(s) \in s
      BY <2>3, AnyIs
    <3>3. /\ Cardinality(s) \in Nat /\ Cardinality(s \ {AnyOf(s)}) \in Nat
          /\ Cardinality(s \ {AnyOf(s)}) = Cardinality(s) - 1
      BY <3>1, <3>2, OneLess
    <3>4. Cardinality(s \ {AnyOf(s)}) <= n /\ Cardinality(s \ {AnyOf(s)}) <= n + 1
      BY <3>1, <3>3
    <3>5. QED
      BY <3>1, <3>4 DEF Small
  <2>4. ASSUME NEW s \in Small(S, n) PROVE s \in Small(S, n + 1) /\ g[s] = f[s]
    <3>1. s \in SUBSET S /\ Cardinality(s) <= n /\ s \in SUBSET Torrents
      BY DEF Small
    <3>2. Cardinality(s) \in Nat
      BY <3>1, FS_Subset, FS_CardinalityType DEF LibraryAssumption
    <3>3. s \in Small(S, n + 1)
      BY <3>1, <3>2 DEF Small
    <3>4. QED
      BY <2>2, <3>3
  <2>5. ASSUME NEW s \in Small(S, n + 1)
        PROVE  g[s] = IF s = {} THEN 0 ELSE SizeOf[AnyOf(s)] + g[s \ {AnyOf(s)}]
    <3>1. g[s] = IF s = {} THEN 0 ELSE SizeOf[AnyOf(s)] + f[s \ {AnyOf(s)}]
      OBVIOUS
    <3> HIDE DEF g
    <3>2. QED
      BY <2>3, <2>4, <3>1
  <2>6. g = [s \in Small(S, n + 1) |-> IF s = {} THEN 0 ELSE SizeOf[AnyOf(s)] + g[s \ {AnyOf(s)}]]
    <3>1. g = [s \in Small(S, n + 1) |-> g[s]]
      OBVIOUS
    <3> HIDE DEF g
    <3>2. QED
      BY <2>5, <3>1
  <2>7. SumsTo(S, n + 1, g)
    BY <2>6 DEF SumsTo
  <2> HIDE DEF g
  <2>8. n + 1 \in 0..m
    BY <1>1, <1>3
  <2>9. QED
    BY <2>7, <2>8
<1>4. m \in T
  <2> HIDE DEF T
  <2>1. \A n \in 0..m : n \in T
    BY <1>1, <1>2, <1>3, HoldsUpTo
  <2>2. QED
    BY <1>1, <2>1
<1>5. PICK f : SumsTo(S, m, f)
  BY <1>4
<1>6. ASSUME NEW s \in SUBSET S PROVE s \in Small(S, m)
  <2>1. Cardinality(s) <= Cardinality(S)
    BY <1>1, FS_Subset
  <2>2. QED
    BY <2>1 DEF Small
<1>7. Small(S, m) = SUBSET S
  BY <1>6 DEF Small
<1>8. SumsOf(S, f)
  BY <1>5, <1>7 DEF SumsOf, SumsTo
<1>9. QED
  BY <1>8

SameOn(U, f, g) == \A s \in SUBSET U : f[s] = g[s]

\* A torrent set's sum does not depend on what it is a part of.
LEMMA SumsAgree ==
  ASSUME LibraryAssumption, NEW S \in SUBSET Torrents, NEW U \in SUBSET S,
         NEW f, NEW g, SumsOf(S, f), SumsOf(U, g)
  PROVE  SameOn(U, f, g)
<1> DEFINE C == {s \in SUBSET U : f[s] # g[s]}
<1> SUFFICES ASSUME C # {} PROVE FALSE
  BY DEF SameOn
<1>1. C \in SUBSET (SUBSET Torrents)
  OBVIOUS
<1>2. PICK s \in C : \A u \in C : Cardinality(s) <= Cardinality(u)
  <2> HIDE DEF C
  <2>1. QED
    BY <1>1, SmallestOf
<1>3. s \in SUBSET U /\ s \in SUBSET S /\ s \in SUBSET Torrents /\ f[s] # g[s]
  OBVIOUS
<1>4. /\ f[s] = IF s = {} THEN 0 ELSE SizeOf[AnyOf(s)] + f[s \ {AnyOf(s)}]
      /\ g[s] = IF s = {} THEN 0 ELSE SizeOf[AnyOf(s)] + g[s \ {AnyOf(s)}]
  BY <1>3 DEF SumsOf
<1>5. s # {}
  BY <1>3, <1>4
<1>6. AnyOf(s) \in s
  BY <1>5, AnyIs
<1>7. /\ Cardinality(s) \in Nat /\ Cardinality(s \ {AnyOf(s)}) \in Nat
      /\ Cardinality(s \ {AnyOf(s)}) = Cardinality(s) - 1
  BY <1>3, <1>6, OneLess
<1>8. s \ {AnyOf(s)} \notin C
  <2>1. ~ (Cardinality(s) <= Cardinality(s \ {AnyOf(s)}))
    BY <1>7
  <2> HIDE DEF C
  <2>2. QED
    BY <1>2, <2>1
<1>9. f[s \ {AnyOf(s)}] = g[s \ {AnyOf(s)}]
  BY <1>3, <1>8
<1>10. QED
  BY <1>3, <1>4, <1>9

\* The size of a set, by one of its torrents and the others.
LEMMA SizeSplits ==
  ASSUME LibraryAssumption, NEW S \in SUBSET Torrents
  PROVE  TotalSize(S) = IF S = {} THEN 0 ELSE SizeOf[AnyOf(S)] + TotalSize(S \ {AnyOf(S)})
<1> DEFINE R == S \ {AnyOf(S)}
<1> DEFINE f == CHOOSE f : SumsOf(S, f)
<1> DEFINE g == CHOOSE g : SumsOf(R, g)
<1>1. SumsOf(S, f) /\ SumsOf(R, g)
  BY SumsExist
<1>2. TotalSize(S) = f[S] /\ TotalSize(R) = g[R]
  BY DEF TotalSize, MapThenSumSet, MapThenFoldSet, SumsOf, AnyOf
<1> HIDE DEF f, g
<1>3. f[S] = IF S = {} THEN 0 ELSE SizeOf[AnyOf(S)] + f[R]
  BY <1>1 DEF SumsOf
<1>4. f[R] = g[R]
  <2>1. R \in SUBSET S /\ R \in SUBSET R
    OBVIOUS
  <2> HIDE DEF R
  <2>2. PICK h, k, Q : h = f /\ k = g /\ Q = R
    OBVIOUS
  <2>3. SumsOf(S, h) /\ SumsOf(Q, k) /\ Q \in SUBSET S
    BY <1>1, <2>1, <2>2
  <2>4. SameOn(Q, h, k)
    BY <2>3, SumsAgree
  <2>5. QED
    BY <2>1, <2>2, <2>4 DEF SameOn
<1>5. QED
  BY <1>2, <1>3, <1>4

\* Sizes are natural.
LEMMA SizeIsNatural ==
  ASSUME LibraryAssumption
  PROVE  \A S \in SUBSET Torrents : TotalSize(S) \in Nat
<1> DEFINE C == {S \in SUBSET Torrents : TotalSize(S) \notin Nat}
<1> SUFFICES ASSUME C # {} PROVE FALSE
  OBVIOUS
<1>1. PICK S \in C : \A U \in C : Cardinality(S) <= Cardinality(U)
  <2>1. C \in SUBSET (SUBSET Torrents)
    OBVIOUS
  <2> HIDE DEF C
  <2>2. QED
    BY <2>1, SmallestOf
<1>2. S \in SUBSET Torrents /\ TotalSize(S) \notin Nat
  OBVIOUS
<1>3. TotalSize(S) = IF S = {} THEN 0 ELSE SizeOf[AnyOf(S)] + TotalSize(S \ {AnyOf(S)})
  BY <1>2, SizeSplits
<1>4. S # {}
  BY <1>2, <1>3
<1>5. AnyOf(S) \in S
  BY <1>4, AnyIs
<1>6. /\ Cardinality(S) \in Nat /\ Cardinality(S \ {AnyOf(S)}) \in Nat
      /\ Cardinality(S \ {AnyOf(S)}) = Cardinality(S) - 1
  BY <1>2, <1>5, OneLess
<1>7. S \ {AnyOf(S)} \notin C
  <2>1. ~ (Cardinality(S) <= Cardinality(S \ {AnyOf(S)}))
    BY <1>6
  <2> HIDE DEF C
  <2>2. QED
    BY <1>1, <2>1
<1>8. TotalSize(S \ {AnyOf(S)}) \in Nat
  BY <1>2, <1>7
<1>9. SizeOf[AnyOf(S)] \in Nat
  BY <1>2, <1>5 DEF LibraryAssumption
<1>10. QED
  BY <1>2, <1>3, <1>4, <1>8, <1>9

\* A torrent more adds its size.
LEMMA SizeOfMore ==
  ASSUME LibraryAssumption, NEW S \in SUBSET Torrents, NEW t \in Torrents \ S
  PROVE  TotalSize(S \cup {t}) = TotalSize(S) + SizeOf[t]
<1> DEFINE C == {U \in SUBSET Torrents :
                    \E u \in Torrents \ U : TotalSize(U \cup {u}) # TotalSize(U) + SizeOf[u]}
<1> SUFFICES ASSUME C # {} PROVE FALSE
  OBVIOUS
<1>1. PICK U \in C : \A V \in C : Cardinality(U) <= Cardinality(V)
  <2>1. C \in SUBSET (SUBSET Torrents)
    OBVIOUS
  <2> HIDE DEF C
  <2>2. QED
    BY <2>1, SmallestOf
<1>2. U \in SUBSET Torrents
  OBVIOUS
<1>3. PICK u \in Torrents \ U : TotalSize(U \cup {u}) # TotalSize(U) + SizeOf[u]
  OBVIOUS
<1> DEFINE W == U \cup {u}
<1> DEFINE x == AnyOf(W)
<1>4. W \in SUBSET Torrents /\ W # {}
  BY <1>2
<1>5. x \in W
  BY <1>4, AnyIs
<1>6. TotalSize(W) = SizeOf[x] + TotalSize(W \ {x})
  BY <1>4, SizeSplits
<1>7. SizeOf[u] \in Nat /\ SizeOf[x] \in Nat
  BY <1>4, <1>5 DEF LibraryAssumption
<1>8. TotalSize(U) \in Nat
  BY <1>2, SizeIsNatural
<1>9. CASE x = u
  <2>1. W \ {x} = U
    BY <1>3, <1>9
  <2>2. PICK p \in Nat, q \in Nat : p = TotalSize(U) /\ q = SizeOf[u]
    BY <1>7, <1>8
  <2> HIDE DEF x, W
  <2>3. TotalSize(W) = q + p /\ q + p = p + q
    BY <1>6, <1>9, <2>1, <2>2
  <2>4. QED
    BY <1>3, <2>2, <2>3 DEF W
<1>10. CASE x # u
  <2> DEFINE R == U \ {x}
  <2>1. x \in U
    BY <1>5, <1>10
  <2>2. /\ Cardinality(U) \in Nat /\ Cardinality(R) \in Nat /\ Cardinality(R) = Cardinality(U) - 1
    BY <1>2, <2>1, OneLess
  <2>3. R \notin C
    <3>1. ~ (Cardinality(U) <= Cardinality(R))
      BY <2>2
    <3> HIDE DEF C
    <3>2. QED
      BY <1>1, <3>1
  <2>4. R \in SUBSET Torrents
    BY <1>2
  <2>5. \A v \in Torrents \ R : TotalSize(R \cup {v}) = TotalSize(R) + SizeOf[v]
    BY <2>3, <2>4
  <2>6. u \in Torrents \ R /\ x \in Torrents \ R
    BY <1>2, <1>3, <2>1
  <2>7. R \cup {x} = U /\ R \cup {u} = W \ {x}
    <3> HIDE DEF x
    <3>1. QED
      BY <1>10, <2>1
  <2>8. TotalSize(R) \in Nat
    BY <2>4, SizeIsNatural
  <2> HIDE DEF R, C, x
  <2>9. TotalSize(U) = TotalSize(R) + SizeOf[x]
    BY <2>5, <2>6, <2>7
  <2>10. TotalSize(W \ {x}) = TotalSize(R) + SizeOf[u]
    <3> HIDE DEF W
    <3>1. QED
      BY <2>5, <2>6, <2>7
  <2>11. TotalSize(W) = TotalSize(U) + SizeOf[u]
    <3> HIDE DEF W
    <3>1. QED
      BY <1>6, <1>7, <2>8, <2>9, <2>10
  <2>12. QED
    BY <1>3, <2>11
<1>11. QED
  BY <1>9, <1>10

\* Fewer torrents are not larger.
LEMMA SizeOfFewer ==
  ASSUME LibraryAssumption, NEW S \in SUBSET Torrents, NEW Q \in SUBSET S
  PROVE  TotalSize(Q) <= TotalSize(S)
<1> DEFINE C == {U \in SUBSET Torrents : Q \subseteq U /\ ~ (TotalSize(Q) <= TotalSize(U))}
<1> SUFFICES ASSUME C # {} PROVE FALSE
  OBVIOUS
<1>1. PICK U \in C : \A V \in C : Cardinality(U) <= Cardinality(V)
  <2>1. C \in SUBSET (SUBSET Torrents)
    OBVIOUS
  <2> HIDE DEF C
  <2>2. QED
    BY <2>1, SmallestOf
<1>2. U \in SUBSET Torrents /\ Q \subseteq U /\ ~ (TotalSize(Q) <= TotalSize(U))
  OBVIOUS
<1>3. TotalSize(Q) \in Nat /\ TotalSize(U) \in Nat
  BY <1>2, SizeIsNatural
<1>4. Q # U
  BY <1>2, <1>3
<1>5. PICK t \in U : t \notin Q
  BY <1>2, <1>4
<1> DEFINE R == U \ {t}
<1>6. /\ Cardinality(U) \in Nat /\ Cardinality(R) \in Nat /\ Cardinality(R) = Cardinality(U) - 1
  BY <1>2, OneLess
<1>7. R \notin C
  <2>1. ~ (Cardinality(U) <= Cardinality(R))
    BY <1>6
  <2> HIDE DEF C, R
  <2>2. QED
    BY <1>1, <2>1
<1>8. R \in SUBSET Torrents /\ Q \subseteq R
  BY <1>2, <1>5
<1>9. TotalSize(Q) <= TotalSize(R)
  BY <1>7, <1>8
<1>10. R \cup {t} = U /\ t \in Torrents \ R
  BY <1>2
<1>11. TotalSize(R) \in Nat /\ SizeOf[t] \in Nat
  BY <1>8, <1>10, SizeIsNatural DEF LibraryAssumption
<1> HIDE DEF R
<1>12. TotalSize(U) = TotalSize(R) + SizeOf[t]
  BY <1>8, <1>10, SizeOfMore
<1>13. QED
  BY <1>2, <1>3, <1>9, <1>11, <1>12

-----------------------------------------------------------------------------
(* Library.                                                                *)

\* What the catalog has staged.
Held == {t \in Torrents : rowOf[t].there /\ rowOf[t].staged /\ ~rowOf[t].deleted}
FitsIn(n) == n = 0 \/ n + CacheMargin <= CacheCap

\* An adder that stages has room for its torrent beside the others.
HasRoom(a) ==
    adder[a].stage => TotalSize(Held \ {adder[a].t}) + SizeOf[adder[a].t] + CacheMargin <= CacheCap

LibRows == [there : BOOLEAN, deleted : BOOLEAN, want : BOOLEAN, staged : BOOLEAN]
AdderRecs == [pc : {"idle", "place", "look", "insert", "restore", "path", "added", "failed", "tell"},
              t : Torrents \cup {Bad}, start : BOOLEAN, stage : BOOLEAN, new : BOOLEAN]
LibShape ==
    /\ watch \in [start : BOOLEAN, delete : BOOLEAN, deleteIfExists : BOOLEAN]
    /\ dropped \subseteq Drops /\ scan \subseteq Drops /\ started \subseteq Torrents
    /\ rowOf \in [Torrents -> LibRows] /\ adder \in [Adders -> AdderRecs]
    /\ \A a \in Adders : ~At(a, "idle") => adder[a].t \in Torrents

\* Unless two overlapped, or a probe or a restore failed: one adder at most is between probe and row, it has
\* room for what it stages, and what is staged fits; while a restored row has
\* its old place, what is staged beside it.
CapInv == loose \/
    /\ \A a, b \in Adders : Midway(a) /\ Midway(b) => a = b
    /\ \A a \in Adders : Midway(a) => HasRoom(a)
    /\ \A a \in Adders : At(a, "path") => FitsIn(TotalSize(Held \ {adder[a].t}))
    /\ (\A a \in Adders : ~At(a, "path")) => FitsIn(TotalSize(Held))
LibInv == LibShape /\ (CacheCap = 0 \/ CapInv)

LEMMA LibraryStarts0 == LibraryAssumption /\ LibraryInit => LibInv
<1> SUFFICES ASSUME LibraryAssumption, LibraryInit PROVE LibInv
  OBVIOUS
<1>1. PICK p \in LibraryStarts :
        watch = [start |-> p.start, delete |-> p.delete, deleteIfExists |-> p.deleteIfExists]
  BY DEF LibraryInit
<1>2. p \in LibraryProfile
  BY DEF LibraryAssumption
<1>3. watch \in [start : BOOLEAN, delete : BOOLEAN, deleteIfExists : BOOLEAN]
  BY <1>1, <1>2 DEF LibraryProfile
<1>4. /\ dropped = Drops /\ scan = {} /\ started = {}
      /\ rowOf = [t \in Torrents |-> NoRow] /\ adder = [a \in Adders |-> IdleAdder]
  BY DEF LibraryInit
<1>5. LibShape
  BY <1>3, <1>4 DEF LibShape, LibRows, AdderRecs, NoRow, IdleAdder, At
<1>6. \A a \in Adders : ~Midway(a) /\ ~At(a, "path")
  BY <1>4 DEF Midway, At, IdleAdder
<1>7. Held = {}
  BY <1>4 DEF Held, NoRow
<1>8. FitsIn(TotalSize(Held))
  BY <1>7, SizeSplits DEF FitsIn
<1>9. QED
  BY <1>5, <1>6, <1>8 DEF LibInv, CapInv

\* The first file of a scan is a file.
LEMMA NextFileIs ==
  ASSUME LibraryAssumption, LibShape, scan # {}
  PROVE  NextFile \in Drops /\ (Hash[NextFile] # Bad => Hash[NextFile] \in Torrents)
<1>1. scan \in SUBSET Nat /\ scan \in SUBSET Drops
  BY DEF LibShape, LibraryAssumption
<1>2. \E n \in scan : \A m \in scan : n <= m
  BY <1>1, LeastOf
<1>3. NextFile \in scan
  BY <1>2 DEF NextFile, Min
<1>4. QED
  BY <1>1, <1>3 DEF LibraryAssumption

\* An adder takes a step.
LEMMA AdderSteps ==
  ASSUME LibShape, NEW a \in Adders, NEW r \in AdderRecs, r.pc # "idle" => r.t \in Torrents,
         adder' = [adder EXCEPT ![a] = r]
  PROVE  /\ adder' \in [Adders -> AdderRecs]
         /\ \A b \in Adders : ~At(b, "idle")' => adder'[b].t \in Torrents
BY DEF LibShape, At

LEMMA AdderGoesOn ==
  ASSUME LibShape, NEW a \in Adders, ~At(a, "idle"), Steps(a, "added") \/ Steps(a, "failed") \/ Steps(a, "path")
  PROVE  /\ adder' \in [Adders -> AdderRecs]
         /\ \A b \in Adders : ~At(b, "idle")' => adder'[b].t \in Torrents
<1>1. PICK pc \in {"added", "failed", "path"} : adder' = [adder EXCEPT ![a].pc = pc]
  BY DEF Steps
<1> DEFINE r == [adder[a] EXCEPT !.pc = pc]
<1>2. adder[a] \in AdderRecs /\ adder[a].t \in Torrents
  BY DEF LibShape
<1>3. r \in AdderRecs /\ r.t \in Torrents
  BY <1>2 DEF AdderRecs
<1>4. adder' = [adder EXCEPT ![a] = r]
  BY <1>1
<1> HIDE DEF r
<1>5. QED
  BY <1>3, <1>4, AdderSteps

LEMMA ShapeStays ==
  ASSUME LibraryAssumption, LibShape, [LibraryNext]_libraryVars
  PROVE  LibShape'
<1>0. CASE UNCHANGED libraryVars
  BY <1>0 DEF LibShape, libraryVars, At
<1>1. CASE ScanBegins
  BY <1>1 DEF LibShape, ScanBegins, At
<1>2. CASE WatchLoads
  <2>1. scan # {} /\ At("watch", "idle")
    BY <1>2 DEF WatchLoads
  <2>2. NextFile \in Drops /\ (Hash[NextFile] # Bad => Hash[NextFile] \in Torrents)
    BY <2>1, NextFileIs
  <2>3. UNCHANGED <<watch, dropped, rowOf, started>> /\ scan' \subseteq scan
    BY <1>2 DEF WatchLoads, SkipsFile
  <2>4. CASE Hash[NextFile] = Bad
    <3>1. adder' = adder
      BY <1>2, <2>4 DEF WatchLoads
    <3>2. QED
      BY <2>3, <3>1 DEF LibShape, At
  <2>5. CASE Hash[NextFile] # Bad
    <3> DEFINE r == [IdleAdder EXCEPT !.pc = "place", !.t = Hash[NextFile], !.start = watch.start]
    <3>1. adder' = [adder EXCEPT !["watch"] = r]
      BY <1>2, <2>5 DEF WatchLoads
    <3>2. watch.start \in BOOLEAN
      BY DEF LibShape
    <3>3. r \in AdderRecs /\ r.t \in Torrents
      BY <2>2, <2>5, <3>2 DEF IdleAdder, AdderRecs
    <3>4. "watch" \in Adders
      BY DEF Adders
    <3> HIDE DEF r
    <3>5. /\ adder' \in [Adders -> AdderRecs]
          /\ \A b \in Adders : ~At(b, "idle")' => adder'[b].t \in Torrents
      BY <3>1, <3>3, <3>4, AdderSteps
    <3>6. QED
      BY <2>3, <3>5 DEF LibShape
  <2>6. QED
    BY <2>4, <2>5
<1>3. CASE WatchSkips
  BY <1>3 DEF LibShape, WatchSkips, At, AdderRecs, Adders, IdleAdder, SkipsFile
<1>4. CASE WatchDeletes
  BY <1>4 DEF LibShape, WatchDeletes, At, AdderRecs, Adders, Steps
<1>5. CASE WatchTells
  BY <1>5 DEF LibShape, WatchTells, At, AdderRecs, Adders, IdleAdder
<1>6. CASE UserTold
  BY <1>6 DEF LibShape, UserTold, At, AdderRecs, Adders, IdleAdder
<1>7. ASSUME NEW a \in Adders, Adds(a) PROVE LibShape'
  <2>1. adder[a] \in AdderRecs /\ (~At(a, "idle") => adder[a].t \in Torrents)
    BY DEF LibShape
  <2>2. CASE AdderPlaces(a)
    <3>1. PICK s \in BOOLEAN : adder' = [adder EXCEPT ![a].pc = "look", ![a].stage = s]
      BY <2>2 DEF AdderPlaces, FitsCache
    <3>2. QED
      BY <2>1, <2>2, <3>1 DEF LibShape, AdderPlaces, At, AdderRecs
  <2>3. CASE AdderLooks(a)
    <3>1. PICK pc \in {"insert", "restore", "added"}, n \in BOOLEAN :
            adder' = [adder EXCEPT ![a].pc = pc, ![a].new = n]
      <4>1. rowOf[adder[a].t] \in LibRows
        BY <2>1, <2>3 DEF AdderLooks, LibShape, At
      <4> DEFINE r == rowOf[adder[a].t]
      <4> DEFINE pc == CASE ~r.there -> "insert" [] r.deleted -> "restore" [] OTHER -> "added"
      <4>2. adder' = [adder EXCEPT ![a].pc = pc, ![a].new = ~r.there \/ r.deleted]
        BY <2>3 DEF AdderLooks
      <4>3. pc \in {"insert", "restore", "added"}
        OBVIOUS
      <4>4. (~r.there \/ r.deleted) \in BOOLEAN
        OBVIOUS
      <4> HIDE DEF pc, r
      <4>5. QED
        BY <4>2, <4>3, <4>4
    <3> DEFINE r == [adder[a] EXCEPT !.pc = pc, !.new = n]
    <3>2. adder' = [adder EXCEPT ![a] = r]
      BY <3>1
    <3>3. adder[a].t \in Torrents
      BY <2>1, <2>3 DEF AdderLooks, At
    <3>4. r \in AdderRecs /\ r.t \in Torrents
      BY <2>1, <3>3 DEF AdderRecs
    <3> HIDE DEF r
    <3>5. /\ adder' \in [Adders -> AdderRecs]
          /\ \A b \in Adders : ~At(b, "idle")' => adder'[b].t \in Torrents
      BY <3>2, <3>4, AdderSteps
    <3>6. QED
      BY <2>3, <3>5 DEF LibShape, AdderLooks
  <2>4. CASE AdderInserts(a)
    <3>1. /\ ~At(a, "idle")
          /\ Steps(a, "added") \/ Steps(a, "failed") \/ Steps(a, "path")
          /\ UNCHANGED <<watch, dropped, scan, started>>
      BY <2>4 DEF AdderInserts, At
    <3>2. adder[a].t \in Torrents /\ adder[a].start \in BOOLEAN /\ adder[a].stage \in BOOLEAN
      BY <2>1, <3>1 DEF AdderRecs
    <3>3. rowOf' \in [Torrents -> LibRows]
      <4> DEFINE r == [there |-> TRUE, deleted |-> FALSE, want |-> adder[a].start, staged |-> adder[a].stage]
      <4>1. rowOf' = rowOf \/ rowOf' = [rowOf EXCEPT ![adder[a].t] = r]
        BY <2>4 DEF AdderInserts
      <4>2. r \in LibRows
        BY <3>2 DEF LibRows
      <4> HIDE DEF r
      <4>3. QED
        BY <4>1, <4>2 DEF LibShape
    <3>4. QED
      BY <3>1, <3>3, AdderGoesOn DEF LibShape
  <2>5. CASE AdderRestores(a)
    <3>1. /\ ~At(a, "idle")
          /\ Steps(a, "added") \/ Steps(a, "failed") \/ Steps(a, "path")
          /\ UNCHANGED <<watch, dropped, scan, started>>
      BY <2>5 DEF AdderRestores, At
    <3>2. adder[a].t \in Torrents /\ adder[a].start \in BOOLEAN
      BY <2>1, <3>1 DEF AdderRecs
    <3>3. rowOf' \in [Torrents -> LibRows]
      <4> DEFINE t == adder[a].t
      <4> DEFINE r == [rowOf[t] EXCEPT !.deleted = FALSE, !.want = adder[a].start]
      <4>1. rowOf' = rowOf \/ rowOf' = [rowOf EXCEPT ![t].deleted = FALSE, ![t].want = adder[a].start]
        BY <2>5 DEF AdderRestores
      <4>2. rowOf' = rowOf \/ rowOf' = [rowOf EXCEPT ![t] = r]
        BY <3>2, <4>1 DEF LibShape
      <4>3. rowOf[t] \in LibRows
        BY <3>2 DEF LibShape
      <4>4. r \in LibRows
        BY <3>2, <4>3 DEF LibRows
      <4> HIDE DEF r
      <4>5. QED
        BY <4>2, <4>4 DEF LibShape
    <3>4. QED
      BY <3>1, <3>3, AdderGoesOn DEF LibShape
  <2>6. CASE AdderMovesRow(a)
    <3>1. /\ ~At(a, "idle")
          /\ Steps(a, "failed") \/ Steps(a, "added")
          /\ UNCHANGED <<watch, dropped, scan, started>>
      BY <2>6 DEF AdderMovesRow, At
    <3>2. adder[a].t \in Torrents /\ adder[a].stage \in BOOLEAN
      BY <2>1, <3>1 DEF AdderRecs
    <3>3. rowOf' \in [Torrents -> LibRows]
      BY <2>6, <3>2 DEF AdderMovesRow, LibShape, LibRows
    <3>4. QED
      BY <3>1, <3>3, AdderGoesOn DEF LibShape
  <2>7. QED
    BY <1>7, <2>2, <2>3, <2>4, <2>5, <2>6 DEF Adds
<1>8. ASSUME NEW t \in Torrents,
             \/ ControlStarts(t) \/ UserStops(t) \/ UserDeletes(t) \/ UserRemoves(t)
             \/ ComesHomeFromCache(t)
      PROVE  LibShape'
  <2>0. rowOf \in [Torrents -> LibRows] /\ NoRow \in LibRows
    BY DEF LibShape, LibRows, NoRow
  <2>1. rowOf' \in [Torrents -> LibRows]
    <3>1. CASE ControlStarts(t)
      BY <2>0, <3>1 DEF ControlStarts, LibRows
    <3>2. CASE UserStops(t)
      BY <2>0, <3>2 DEF UserStops, LibRows
    <3>3. CASE UserDeletes(t)
      BY <2>0, <3>3 DEF UserDeletes, LibRows
    <3>4. CASE UserRemoves(t)
      BY <2>0, <3>4 DEF UserRemoves
    <3>5. CASE ComesHomeFromCache(t)
      BY <2>0, <3>5 DEF ComesHomeFromCache, LibRows
    <3>6. QED
      BY <1>8, <3>1, <3>2, <3>3, <3>4, <3>5
  <2>2. started' \subseteq Torrents /\ UNCHANGED <<watch, dropped, scan, adder>>
    BY <1>8 DEF LibShape, ControlStarts, UserStops, UserDeletes, UserRemoves, ComesHomeFromCache
  <2>3. QED
    BY <2>1, <2>2 DEF LibShape, At
<1>9. ASSUME NEW t \in Torrents, NEW s \in BOOLEAN, UserAdds(t, s) PROVE LibShape'
  BY <1>9 DEF LibShape, UserAdds, At, AdderRecs, Adders, IdleAdder
<1>10. ASSUME NEW old \in SUBSET Torrents, LibraryRestarts(old) PROVE LibShape'
  BY <1>10 DEF LibShape, LibraryRestarts, At, AdderRecs, Adders, IdleAdder, LibRows, NoRow
<1>11. ASSUME NEW a \in Adders, AdderFails(a) PROVE LibShape'
  <2>1. /\ ~At(a, "idle") /\ Steps(a, "failed")
        /\ UNCHANGED <<watch, dropped, scan, rowOf, started>>
    BY <1>11 DEF AdderFails, Midway, At
  <2>2. QED
    BY <2>1, AdderGoesOn DEF LibShape
<1>12. QED
  BY <1>0, <1>1, <1>2, <1>3, <1>4, <1>5, <1>6, <1>7, <1>8, <1>9, <1>10, <1>11 DEF LibraryNext, Watches

-----------------------------------------------------------------------------
(* Library: room in the cache.                                             *)

\* What fits still fits with less of it.
LEMMA FewerFit ==
  ASSUME LibraryAssumption, NEW S \in SUBSET Torrents, NEW Q \in SUBSET S, FitsIn(TotalSize(S))
  PROVE  FitsIn(TotalSize(Q))
<1>1. TotalSize(Q) <= TotalSize(S)
  BY SizeOfFewer
<1>2. TotalSize(Q) \in Nat /\ TotalSize(S) \in Nat
  BY SizeIsNatural
<1>3. QED
  BY <1>1, <1>2 DEF FitsIn, LibraryAssumption

\* Room stays when less is staged.
LEMMA RoomStays ==
  ASSUME LibraryAssumption, NEW S \in SUBSET Torrents, NEW Q \in SUBSET S, NEW t \in Torrents,
         TotalSize(S) + SizeOf[t] + CacheMargin <= CacheCap
  PROVE  TotalSize(Q) + SizeOf[t] + CacheMargin <= CacheCap
<1>1. TotalSize(Q) <= TotalSize(S)
  BY SizeOfFewer
<1>2. TotalSize(Q) \in Nat /\ TotalSize(S) \in Nat /\ SizeOf[t] \in Nat
  BY SizeIsNatural DEF LibraryAssumption
<1>3. QED
  BY <1>1, <1>2 DEF LibraryAssumption

\* A torrent that has room may be staged.
LEMMA RoomIsEnough ==
  ASSUME LibraryAssumption, NEW S \in SUBSET Torrents, NEW t \in Torrents, NEW Q \in SUBSET Torrents,
         Q \subseteq S \cup {t}, FitsIn(TotalSize(S \ {t})),
         t \in Q => TotalSize(S \ {t}) + SizeOf[t] + CacheMargin <= CacheCap
  PROVE  FitsIn(TotalSize(Q))
<1> DEFINE R == S \ {t}
<1>1. R \in SUBSET Torrents /\ t \in Torrents \ R
  OBVIOUS
<1>2. CASE t \notin Q
  <2>1. Q \in SUBSET R
    BY <1>2
  <2> HIDE DEF R
  <2>2. FitsIn(TotalSize(R))
    BY DEF R
  <2>3. QED
    BY <1>1, <2>1, <2>2, FewerFit
<1>3. CASE t \in Q
  <2>1. TotalSize(R \cup {t}) = TotalSize(R) + SizeOf[t]
    <3> HIDE DEF R
    <3>1. QED
      BY <1>1, SizeOfMore
  <2>2. TotalSize(R) \in Nat /\ SizeOf[t] \in Nat
    BY <1>1, SizeIsNatural DEF LibraryAssumption
  <2>3. FitsIn(TotalSize(R \cup {t}))
    BY <1>3, <2>1, <2>2 DEF FitsIn, LibraryAssumption
  <2>4. Q \in SUBSET (R \cup {t}) /\ R \cup {t} \in SUBSET Torrents
    BY <1>1
  <2> HIDE DEF R
  <2>5. QED
    BY <2>3, <2>4, FewerFit
<1>4. QED
  BY <1>2, <1>3

\* Steps that stage nothing.
LEMMA HeldShrinks ==
  ASSUME LibraryAssumption, LibShape, CapInv, Held' \subseteq Held, loose => loose',
         \A a \in Adders : Midway(a)' =>
             Midway(a) /\ adder'[a].t = adder[a].t /\ adder'[a].stage = adder[a].stage,
         \A a \in Adders : At(a, "path")' <=> At(a, "path")
  PROVE  CapInv'
<1> SUFFICES ASSUME ~loose' PROVE CapInv'
  BY DEF CapInv
<1>1. /\ \A a, b \in Adders : Midway(a) /\ Midway(b) => a = b
      /\ \A a \in Adders : Midway(a) => HasRoom(a)
      /\ \A a \in Adders : At(a, "path") => FitsIn(TotalSize(Held \ {adder[a].t}))
      /\ (\A a \in Adders : ~At(a, "path")) => FitsIn(TotalSize(Held))
  BY DEF CapInv
<1>2. Held \in SUBSET Torrents /\ Held' \in SUBSET Held
  BY DEF Held
<1>3. \A a, b \in Adders : Midway(a)' /\ Midway(b)' => a = b
  BY <1>1
<1>4. ASSUME NEW a \in Adders, Midway(a)' PROVE HasRoom(a)'
  <2>1. Midway(a) /\ adder'[a].t = adder[a].t /\ adder'[a].stage = adder[a].stage
    BY <1>4
  <2>2. HasRoom(a) /\ adder[a].t \in Torrents
    BY <1>1, <2>1 DEF LibShape, Midway, At
  <2> DEFINE S == Held \ {adder[a].t}
  <2> DEFINE Q == Held' \ {adder[a].t}
  <2>3. S \in SUBSET Torrents /\ Q \in SUBSET S
    BY <1>2
  <2>4. adder[a].stage => TotalSize(S) + SizeOf[adder[a].t] + CacheMargin <= CacheCap
    BY <2>2 DEF HasRoom
  <2>5. adder[a].stage => TotalSize(Q) + SizeOf[adder[a].t] + CacheMargin <= CacheCap
    <3> HIDE DEF S, Q
    <3>1. QED
      BY <2>2, <2>3, <2>4, RoomStays
  <2>6. HasRoom(a)' <=>
          (adder'[a].stage => TotalSize(Held' \ {adder'[a].t}) + SizeOf[adder'[a].t] + CacheMargin <= CacheCap)
    BY DEF HasRoom
  <2>7. QED
    BY <2>1, <2>5, <2>6
<1>5. ASSUME NEW a \in Adders, At(a, "path")' PROVE FitsIn(TotalSize(Held' \ {adder'[a].t}))
  <2>1. At(a, "path") /\ Midway(a)'
    BY <1>5 DEF Midway, At
  <2>2. adder'[a].t = adder[a].t
    BY <2>1
  <2> DEFINE S == Held \ {adder[a].t}
  <2> DEFINE Q == Held' \ {adder[a].t}
  <2>3. S \in SUBSET Torrents /\ Q \in SUBSET S
    BY <1>2
  <2>4. FitsIn(TotalSize(S))
    BY <1>1, <2>1
  <2>5. FitsIn(TotalSize(Q))
    <3> HIDE DEF S, Q
    <3>1. QED
      BY <2>3, <2>4, FewerFit
  <2>6. QED
    BY <2>2, <2>5
<1>6. (\A a \in Adders : ~At(a, "path")') => FitsIn(TotalSize(Held'))
  <2> SUFFICES ASSUME \A a \in Adders : ~At(a, "path")' PROVE FitsIn(TotalSize(Held'))
    OBVIOUS
  <2>1. FitsIn(TotalSize(Held))
    BY <1>1
  <2> DEFINE Q == Held'
  <2>2. Q \in SUBSET Held
    BY <1>2
  <2> HIDE DEF Q
  <2>3. FitsIn(TotalSize(Q))
    BY <1>2, <2>1, <2>2, FewerFit
  <2>4. QED
    BY <2>3 DEF Q
<1>7. /\ \A a \in Adders : At(a, "path")' => FitsIn(TotalSize(Held \ {adder[a].t}))'
      /\ (\A a \in Adders : ~At(a, "path")') => FitsIn(TotalSize(Held))'
  BY <1>5, <1>6 DEF FitsIn
<1>8. QED
  BY <1>3, <1>4, <1>7 DEF CapInv

\* The probe: it fails, or nobody else is on the way to the catalog, or two
\* overlap.
LEMMA PlaceKeepsCap ==
  ASSUME LibraryAssumption, CacheCap # 0, LibShape, CapInv, NEW a \in Adders, AdderPlaces(a)
  PROVE  CapInv'
<1> SUFFICES ASSUME ~loose' PROVE CapInv'
  BY DEF CapInv
<1>1. /\ At(a, "place") /\ loose' = (loose \/ \E b \in Adders \ {a} : Midway(b))
      /\ rowOf' = rowOf
  BY DEF AdderPlaces
<1>2. ~loose /\ \A b \in Adders : ~Midway(b)
  BY <1>1 DEF Midway, At
<1>3. PICK s \in BOOLEAN : /\ adder' = [adder EXCEPT ![a].pc = "look", ![a].stage = s]
                           /\ s => FitsCache(adder[a].t, Reserved)
  <2>1. \/ adder' = [adder EXCEPT ![a].pc = "look", ![a].stage = FitsCache(adder[a].t, Reserved)]
        \/ adder' = [adder EXCEPT ![a].pc = "look", ![a].stage = FALSE]
    BY DEF AdderPlaces
  <2>2. FitsCache(adder[a].t, Reserved) \in BOOLEAN
    BY DEF FitsCache
  <2>3. QED
    BY <2>1, <2>2
<1>4. /\ \A b \in Adders \ {a} : ~Midway(b)'
      /\ \A b \in Adders : ~At(b, "path")'
      /\ adder'[a].t = adder[a].t /\ adder'[a].stage = s
  BY <1>1, <1>2, <1>3 DEF Midway, At, LibShape, AdderRecs
<1>5. Held' = Held /\ Held \in SUBSET Torrents
  BY <1>1 DEF Held
<1>6. FitsIn(TotalSize(Held))
  BY <1>2 DEF CapInv, Midway, At
<1>7. adder[a].t \in Torrents
  BY <1>1 DEF LibShape, At
<1>8. s => TotalSize(Held \ {adder[a].t}) + SizeOf[adder[a].t] + CacheMargin <= CacheCap
  <2> DEFINE Q == Held \ {adder[a].t}
  <2>1. Q \in SUBSET Held
    OBVIOUS
  <2>2. s => SizeOf[adder[a].t] + CacheMargin <= CacheCap - TotalSize(Held)
    BY <1>3 DEF FitsCache, Reserved, Held
  <2>3. TotalSize(Held) \in Nat /\ SizeOf[adder[a].t] \in Nat
    BY <1>5, <1>7, SizeIsNatural DEF LibraryAssumption
  <2>4. s => TotalSize(Held) + SizeOf[adder[a].t] + CacheMargin <= CacheCap
    BY <2>2, <2>3 DEF LibraryAssumption
  <2> HIDE DEF Q
  <2>5. s => TotalSize(Q) + SizeOf[adder[a].t] + CacheMargin <= CacheCap
    BY <1>5, <1>7, <2>1, <2>4, RoomStays
  <2>6. QED
    BY <2>5 DEF Q
<1>9. HasRoom(a)'
  BY <1>4, <1>5, <1>8 DEF HasRoom
<1>10. FitsIn(TotalSize(Held))'
  BY <1>5, <1>6 DEF FitsIn
<1>11. QED
  BY <1>4, <1>9, <1>10 DEF CapInv

\* An adder that ends in the catalog.
LEMMA EntryKeepsCap ==
  ASSUME LibraryAssumption, LibShape, CapInv, ~loose, NEW a \in Adders, Midway(a),
         \A b \in Adders : ~Midway(b)', FitsIn(TotalSize(Held \ {adder[a].t})),
         Held' \subseteq Held \cup {adder[a].t},
         adder[a].t \in Held' => adder[a].stage
  PROVE  CapInv'
<1>1. HasRoom(a) /\ adder[a].t \in Torrents
  BY DEF CapInv, LibShape, Midway, At
<1> DEFINE Q == Held'
<1> DEFINE t == adder[a].t
<1>2. Q \in SUBSET Torrents /\ Q \subseteq Held \cup {t} /\ Held \in SUBSET Torrents
  BY DEF Held
<1>3. t \in Q => TotalSize(Held \ {t}) + SizeOf[t] + CacheMargin <= CacheCap
  BY <1>1 DEF HasRoom
<1>4. FitsIn(TotalSize(Q))
  <2>1. t \in Torrents /\ FitsIn(TotalSize(Held \ {t}))
    BY <1>1
  <2> HIDE DEF Q, t
  <2>2. QED
    BY <1>2, <1>3, <2>1, RoomIsEnough
<1>5. FitsIn(TotalSize(Held))'
  BY <1>4 DEF FitsIn
<1>6. \A b \in Adders : ~At(b, "path")'
  BY DEF Midway, At
<1>7. QED
  BY <1>5, <1>6 DEF CapInv

\* A row staged after the admission fits, or the run is loose.
LEMMA InsertKeepsCap ==
  ASSUME LibraryAssumption, LibShape, CapInv, NEW a \in Adders, AdderInserts(a)
  PROVE  CapInv'
<1>1. At(a, "insert") /\ loose' = loose /\ Midway(a)
  BY DEF AdderInserts, Midway, At
<1> SUFFICES ASSUME ~loose PROVE CapInv'
  BY <1>1 DEF CapInv
<1> DEFINE t == adder[a].t
<1>2. t \in Torrents /\ Held \in SUBSET Torrents
  BY <1>1 DEF LibShape, At, Held
<1>3. \A b \in Adders : Midway(b) => b = a
  BY <1>1 DEF CapInv
<1>4. \A b \in Adders : ~At(b, "path")
  BY <1>1, <1>3 DEF Midway, At
<1>5. \A b \in Adders : ~Midway(b)'
  BY <1>3 DEF AdderInserts, Steps, Midway, At, LibShape, AdderRecs
<1>6. FitsIn(TotalSize(Held))
  BY <1>4 DEF CapInv
<1>7. FitsIn(TotalSize(Held \ {t}))
  <2> DEFINE Q == Held \ {t}
  <2>1. Q \in SUBSET Held
    OBVIOUS
  <2> HIDE DEF Q, t
  <2>2. FitsIn(TotalSize(Q))
    BY <1>2, <1>6, <2>1, FewerFit
  <2>3. QED
    BY <2>2 DEF Q
<1>8. CASE rowOf[t].there
  <2>1. rowOf' = rowOf
    BY <1>8 DEF AdderInserts
  <2>2. Held' = Held /\ \A b \in Adders : ~At(b, "path")'
    BY <1>5, <2>1 DEF Held, Midway, At
  <2>3. FitsIn(TotalSize(Held))'
    BY <1>6, <2>2 DEF FitsIn
  <2>4. QED
    BY <1>5, <2>2, <2>3 DEF CapInv, Midway, At
<1>9. CASE ~rowOf[t].there
  <2> DEFINE r == [there |-> TRUE, deleted |-> FALSE, want |-> adder[a].start, staged |-> adder[a].stage]
  <2>1. rowOf' = [rowOf EXCEPT ![t] = r]
    BY <1>9 DEF AdderInserts
  <2>2. rowOf'[t].staged = adder[a].stage /\ \A u \in Torrents \ {t} : rowOf'[u] = rowOf[u]
    BY <1>2, <2>1 DEF LibShape
  <2>3. Held' \subseteq Held \cup {t} /\ (t \in Held' => adder[a].stage)
    <3> HIDE DEF t
    <3>1. QED
      BY <2>2 DEF Held
  <2>4. QED
    BY <1>1, <1>5, <1>7, <2>3, EntryKeepsCap
<1>10. QED
  BY <1>8, <1>9

LEMMA MoveKeepsCap ==
  ASSUME LibraryAssumption, LibShape, CapInv, NEW a \in Adders, AdderMovesRow(a)
  PROVE  CapInv'
<1>1. At(a, "path") /\ loose' = loose /\ Midway(a)
  BY DEF AdderMovesRow, Midway, At
<1> SUFFICES ASSUME ~loose PROVE CapInv'
  BY <1>1 DEF CapInv
<1> DEFINE t == adder[a].t
<1>2. t \in Torrents /\ FitsIn(TotalSize(Held \ {t}))
  BY <1>1 DEF LibShape, At, CapInv
<1>3. \A b \in Adders : Midway(b) => b = a
  BY <1>1 DEF CapInv
<1>5. \A b \in Adders : ~Midway(b)'
  BY <1>3 DEF AdderMovesRow, Steps, Midway, At, LibShape, AdderRecs
<1>6. Held' \subseteq Held \cup {t} /\ (t \in Held' => adder[a].stage)
  <2>1. CASE rowOf[t].there
    <3>1. rowOf' = [rowOf EXCEPT ![t].staged = adder[a].stage]
      BY <2>1 DEF AdderMovesRow
    <3>2. rowOf'[t].staged = adder[a].stage /\ \A u \in Torrents \ {t} : rowOf'[u] = rowOf[u]
      BY <1>2, <3>1 DEF LibShape, LibRows
    <3> HIDE DEF t
    <3>3. QED
      BY <3>2 DEF Held
  <2>2. CASE ~rowOf[t].there
    <3>1. rowOf' = rowOf
      BY <2>2 DEF AdderMovesRow
    <3> HIDE DEF t
    <3>2. QED
      BY <2>2, <3>1 DEF Held
  <2>3. QED
    BY <2>1, <2>2
<1>7. QED
  BY <1>1, <1>2, <1>5, <1>6, EntryKeepsCap

\* A restored row has its old place at first, and the room is that beside it.
LEMMA RestoreKeepsCap ==
  ASSUME LibraryAssumption, LibShape, CapInv, NEW a \in Adders, AdderRestores(a)
  PROVE  CapInv'
<1>1. At(a, "restore") /\ loose' = loose /\ Midway(a)
  BY DEF AdderRestores, Midway, At
<1> SUFFICES ASSUME ~loose PROVE CapInv'
  BY <1>1 DEF CapInv
<1> DEFINE t == adder[a].t
<1>2. t \in Torrents /\ Held \in SUBSET Torrents
  BY <1>1 DEF LibShape, At, Held
<1>3. \A b \in Adders : Midway(b) => b = a
  BY <1>1 DEF CapInv
<1>4. \A b \in Adders : ~At(b, "path")
  BY <1>1, <1>3 DEF Midway, At
<1>5. FitsIn(TotalSize(Held)) /\ HasRoom(a)
  BY <1>1, <1>4 DEF CapInv
<1>6. CASE rowOf[t].there /\ rowOf[t].deleted
  <2>1. rowOf' = [rowOf EXCEPT ![t].deleted = FALSE, ![t].want = adder[a].start]
    BY <1>6 DEF AdderRestores
  <2>2. \A u \in Torrents \ {t} : rowOf'[u] = rowOf[u]
    BY <2>1 DEF LibShape
  <2>3. t \notin Held
    BY <1>6 DEF Held
  <2>4. Held' \ {t} = Held /\ Held \ {t} = Held
    <3> HIDE DEF t
    <3>1. QED
      BY <2>2, <2>3 DEF Held
  <2>5. Steps(a, "path")
    BY <1>6 DEF AdderRestores
  <2>6. /\ At(a, "path")' /\ adder'[a].t = t /\ adder'[a].stage = adder[a].stage
        /\ \A b \in Adders \ {a} : ~Midway(b)' /\ ~At(b, "path")'
    BY <1>3, <2>5 DEF Steps, At, Midway, LibShape, AdderRecs
  <2>7. HasRoom(a)'
    BY <1>5, <2>4, <2>6 DEF HasRoom
  <2>8. FitsIn(TotalSize(Held \ {adder[a].t}))'
    BY <1>5, <2>4, <2>6 DEF FitsIn
  <2>9. QED
    BY <2>6, <2>7, <2>8 DEF CapInv
<1>7. CASE ~ (rowOf[t].there /\ rowOf[t].deleted)
  <2>1. rowOf' = rowOf /\ Steps(a, "added")
    BY <1>7 DEF AdderRestores
  <2>2. \A b \in Adders : ~Midway(b)' /\ ~At(b, "path")'
    BY <1>3, <2>1 DEF Steps, At, Midway, LibShape, AdderRecs
  <2>3. Held' = Held
    BY <2>1 DEF Held
  <2>4. FitsIn(TotalSize(Held))'
    BY <1>5, <2>3 DEF FitsIn
  <2>5. QED
    BY <2>2, <2>4 DEF CapInv
<1>8. QED
  BY <1>6, <1>7

\* Every step keeps the cap.
LEMMA CapStays ==
  ASSUME LibraryAssumption, CacheCap # 0, LibShape, CapInv, [LibraryNext]_libraryVars
  PROVE  CapInv'
<1>1. CASE /\ UNCHANGED <<rowOf, loose>>
           /\ \A a \in Adders : Midway(a)' =>
                Midway(a) /\ adder'[a].t = adder[a].t /\ adder'[a].stage = adder[a].stage
           /\ \A a \in Adders : At(a, "path")' <=> At(a, "path")
  <2>1. Held' = Held
    BY <1>1 DEF Held
  <2>2. QED
    BY <1>1, <2>1, HeldShrinks
<1>2. CASE UNCHANGED libraryVars
  BY <1>1, <1>2 DEF libraryVars, Midway, At
<1>3. CASE ScanBegins
  BY <1>1, <1>3 DEF ScanBegins, Midway, At
<1>4. CASE WatchLoads
  <2>1. /\ UNCHANGED <<rowOf, loose>> /\ At("watch", "idle")
        /\ \A b \in Adders \ {"watch"} : adder'[b] = adder[b]
        /\ adder'["watch"].pc \in {"idle", "place"}
    <3>1. CASE Hash[NextFile] = Bad
      BY <1>4, <3>1 DEF WatchLoads, At
    <3>2. CASE Hash[NextFile] # Bad
      <4> DEFINE r == [IdleAdder EXCEPT !.pc = "place", !.t = Hash[NextFile], !.start = watch.start]
      <4>1. adder' = [adder EXCEPT !["watch"] = r] /\ UNCHANGED <<rowOf, loose>> /\ At("watch", "idle")
        BY <1>4, <3>2 DEF WatchLoads
      <4>2. r.pc = "place"
        BY DEF IdleAdder
      <4> HIDE DEF r
      <4>3. QED
        BY <4>1, <4>2 DEF LibShape, Adders
    <3>3. QED
      BY <3>1, <3>2
  <2>2. QED
    BY <1>1, <2>1 DEF Midway, At
<1>5. CASE WatchSkips
  BY <1>1, <1>5 DEF WatchSkips, Midway, At, LibShape, IdleAdder
<1>6. CASE WatchDeletes
  BY <1>1, <1>6 DEF WatchDeletes, Midway, At, LibShape, Steps, AdderRecs
<1>7. CASE WatchTells
  BY <1>1, <1>7 DEF WatchTells, Midway, At, LibShape, IdleAdder
<1>8. CASE UserTold
  BY <1>1, <1>8 DEF UserTold, Midway, At, LibShape, IdleAdder
<1>9. ASSUME NEW a \in Adders, Adds(a) PROVE CapInv'
  <2>1. CASE AdderLooks(a)
    BY <1>1, <2>1 DEF AdderLooks, Midway, At, LibShape, AdderRecs
  <2>2. QED
    BY <1>9, <2>1, PlaceKeepsCap, InsertKeepsCap, RestoreKeepsCap, MoveKeepsCap DEF Adds
<1>10. ASSUME NEW t \in Torrents,
              \/ ControlStarts(t) \/ UserStops(t) \/ UserDeletes(t) \/ UserRemoves(t)
              \/ ComesHomeFromCache(t)
       PROVE  CapInv'
  <2>1. UNCHANGED <<adder, loose>>
    BY <1>10 DEF ControlStarts, UserStops, UserDeletes, UserRemoves, ComesHomeFromCache
  <2>2. \A u \in Torrents \ {t} : rowOf'[u] = rowOf[u]
    BY <1>10 DEF ControlStarts, UserStops, UserDeletes, UserRemoves, ComesHomeFromCache, LibShape
  <2>3. t \in Held' => t \in Held
    <3>1. CASE ControlStarts(t)
      BY <3>1 DEF ControlStarts, Held, LibShape, LibRows
    <3>2. CASE UserStops(t)
      BY <3>2 DEF UserStops, Held, LibShape, LibRows
    <3>3. CASE UserDeletes(t)
      BY <3>3 DEF UserDeletes, Held, LibShape, LibRows
    <3>4. CASE UserRemoves(t)
      BY <3>4 DEF UserRemoves, Held, LibShape, NoRow
    <3>5. CASE ComesHomeFromCache(t)
      BY <3>5 DEF ComesHomeFromCache, Held, LibShape, LibRows
    <3>6. QED
      BY <1>10, <3>1, <3>2, <3>3, <3>4, <3>5
  <2>4. Held' \subseteq Held
    BY <2>2, <2>3 DEF Held
  <2>5. \A a \in Adders : /\ Midway(a)' <=> Midway(a)
                          /\ adder'[a].t = adder[a].t /\ adder'[a].stage = adder[a].stage
                          /\ At(a, "path")' <=> At(a, "path")
    BY <2>1 DEF Midway, At
  <2>6. QED
    BY <2>1, <2>4, <2>5, HeldShrinks
<1>11. ASSUME NEW t \in Torrents, NEW s \in BOOLEAN, UserAdds(t, s) PROVE CapInv'
  BY <1>1, <1>11 DEF UserAdds, Midway, At, LibShape, IdleAdder
<1>12. ASSUME NEW old \in SUBSET Torrents, LibraryRestarts(old) PROVE CapInv'
  <2>1. /\ rowOf' = [t \in Torrents |-> IF t \in old THEN NoRow ELSE rowOf[t]]
        /\ adder' = [a \in Adders |-> IdleAdder]
        /\ loose' = (loose \/ \E a \in Adders : At(a, "path"))
    BY <1>12 DEF LibraryRestarts
  <2> SUFFICES ASSUME ~loose' PROVE CapInv'
    BY DEF CapInv
  <2>3. (loose => loose') /\ \A a \in Adders : ~At(a, "path")
    BY <2>1
  <2>4. \A a \in Adders : ~Midway(a)' /\ ~At(a, "path")'
    BY <2>1 DEF Midway, At, IdleAdder
  <2>5. Held' \subseteq Held
    BY <2>1 DEF Held, NoRow
  <2>6. QED
    BY <2>3, <2>4, <2>5, HeldShrinks
<1>13. ASSUME NEW a \in Adders, AdderFails(a) PROVE CapInv'
  <2>1. rowOf' = rowOf /\ Steps(a, "failed") /\ loose' = (loose \/ At(a, "path"))
    BY <1>13 DEF AdderFails
  <2> SUFFICES ASSUME ~loose' PROVE CapInv'
    BY DEF CapInv
  <2>2. ~At(a, "path") /\ (loose => loose')
    BY <2>1
  <2>3. adder'[a].pc = "failed" /\ \A b \in Adders \ {a} : adder'[b] = adder[b]
    BY <2>1 DEF Steps, LibShape, AdderRecs
  <2>4. \A b \in Adders : /\ Midway(b)' => Midway(b) /\ adder'[b] = adder[b]
                          /\ At(b, "path")' <=> At(b, "path")
    BY <2>2, <2>3 DEF Midway, At
  <2>5. Held' \subseteq Held
    BY <2>1 DEF Held
  <2>6. QED
    BY <2>2, <2>4, <2>5, HeldShrinks
<1>14. QED
  BY <1>2, <1>3, <1>4, <1>5, <1>6, <1>7, <1>8, <1>9, <1>10, <1>11, <1>12, <1>13 DEF LibraryNext, Watches

\* Of all torrents, caches, profiles and files: what the catalog has staged
\* fits a leech cache that has a cap, over adds, restores, deletes, handoffs,
\* failed adds and restarts, as long as no two adds overlapped, no probe that
\* failed was taken as 0 and no restore was cut in two.
THEOREM StagedFitsTheCache == LibrarySpec => []CapKept
<1>1. LibraryInit => LibInv
  BY LibraryAssumption, LibraryStarts0
<1>2. LibInv /\ [LibraryNext]_libraryVars => LibInv'
  BY LibraryAssumption, ShapeStays, CapStays DEF LibInv
<1>3. LibInv => CapKept
  BY DEF LibInv, CapInv, CapKept, FitsIn, Held, Reserved
<1>4. QED
  BY <1>1, <1>2, <1>3, PTL DEF LibrarySpec

-----------------------------------------------------------------------------
(* A torrent's files on their way (PayloadMove).                           *)
USE MoveAssumption

\* Movers, activations and reads, by their fields.
InMove == {"publish", "copy", "live", "unpublish", "clear"}
MoverRecs == [pc : {"idle", "boot", "home", "root", "retarget", "choose", "cold"} \cup InMove, from : Roots \cup {Nowhere},
              to : Roots \cup {Nowhere}, left : SUBSET Files, clear : BOOLEAN, locked : BOOLEAN]
StartRecs == [pc : {"idle", "load", "prepare", "insert"}, root : Roots \cup {Nowhere}, have : SUBSET Files]
ReadRecs == [pc : {"idle", "open", "failed"}, f : Files, root : Roots \cup {Nowhere},
             tries : 0..2, switched : Nat]
Contents == {"none", "short", "zero", "good"}
GoodMover(r) ==
    /\ r \in MoverRecs
    /\ r.pc \in InMove \cup {"root", "retarget", "choose", "cold"} => r.to \in Roots
    /\ r.pc \in InMove \cup {"choose"} => r.from \in Roots
GoodStart(r) == r \in StartRecs /\ (r.pc \in {"prepare", "insert"} => r.root \in Roots)
FilesOK ==
    /\ links \in BOOLEAN
    /\ names \in [Roots -> [Files -> {0} \cup Inodes]]
    /\ bytes \in [Files -> [Inodes -> Contents]]
MetaRecs == [root : Roots, home : Roots \cup {Nowhere}, have : SUBSET Files, want : BOOLEAN, deleted : BOOLEAN]
HotRecs == [on : BOOLEAN, root : Roots \cup {Nowhere}, have : SUBSET Files]
SpareRecs == [moves : Nat, starts : Nat, stops : Nat, faults : Nat, crashes : Nat, readds : Nat]
TorrentOK ==
    /\ meta \in MetaRecs
    /\ hot \in HotRecs /\ (hot.on => hot.root \in Roots)
    /\ landed \subseteq Files
    /\ jobs \subseteq [f : Files, root : Roots, written : BOOLEAN]
    /\ read \in ReadRecs /\ (read.pc = "open" => hot.on /\ read.root \in Roots)
HandsOK ==
    /\ mover \in [Movers -> MoverRecs] /\ \A w \in Movers : GoodMover(mover[w])
    /\ starter \in [{"boot", "ctl"} -> StartRecs] /\ \A s \in {"boot", "ctl"} : GoodStart(starter[s])
    /\ raced \in BOOLEAN /\ spare \in SpareRecs
MoveShape == FilesOK /\ TorrentOK /\ HandsOK

\* A torrent has files; a set of them has a first one.
LEMMA FirstIs ==
  ASSUME NEW s \in SUBSET Files, s # {}
  PROVE  First(s) \in s
<1>1. s \in SUBSET Nat
  BY DEF Files
<1>2. PICK f \in s : \A g \in s : f <= g
  BY <1>1, LeastOf
<1>3. QED
  BY <1>2 DEF First

\* There is one inode more than there are directories.
LEMMA InodesAre == Inodes = {1, 2, 3, 4}
<1>1. Cardinality({"stage", "home", "other"}) = 3
  <2>1. IsFiniteSet({"stage"}) /\ Cardinality({"stage"}) = 1
    BY FS_Singleton
  <2>2. IsFiniteSet({"stage"} \cup {"home"}) /\ Cardinality({"stage"} \cup {"home"}) = 2
    BY <2>1, FS_AddElement
  <2>3. Cardinality(({"stage"} \cup {"home"}) \cup {"other"}) = 3
    BY <2>2, FS_AddElement
  <2>4. ({"stage"} \cup {"home"}) \cup {"other"} = {"stage", "home", "other"}
    OBVIOUS
  <2>5. QED
    BY <2>3, <2>4
<1>2. QED
  BY <1>1 DEF Inodes, Roots

\* A new copy gets an inode that no name leads to.
LEMMA FreeIs ==
  ASSUME FilesOK, NEW f \in Files
  PROVE  FreeInode(f) \in Inodes /\ \A r \in Roots : names[r][f] # FreeInode(f)
<1> DEFINE S == {i \in Inodes : \A r \in Roots : names[r][f] # i}
<1>1. S # {}
  <2>1. \E i \in {1, 2, 3, 4} : i # names["stage"][f] /\ i # names["home"][f] /\ i # names["other"][f]
    <3>1. PICK a, b, c : a = names["stage"][f] /\ b = names["home"][f] /\ c = names["other"][f]
      OBVIOUS
    <3>2. \E i \in {1, 2, 3, 4} : i # a /\ i # b /\ i # c
      OBVIOUS
    <3>3. QED
      BY <3>1, <3>2
  <2>2. QED
    BY <2>1, InodesAre DEF Roots
<1>2. S \in SUBSET Nat
  BY InodesAre
<1>3. PICK i \in S : \A k \in S : i <= k
  BY <1>1, <1>2, LeastOf
<1>4. First(S) \in S
  BY <1>3 DEF First
<1>5. QED
  BY <1>4 DEF FreeInode
MoversOK == mover \in [Movers -> MoverRecs] /\ \A w \in Movers : GoodMover(mover[w])
StartersOK == starter \in [{"boot", "ctl"} -> StartRecs] /\ \A s \in {"boot", "ctl"} : GoodStart(starter[s])
RestOK == raced \in BOOLEAN /\ spare \in SpareRecs

\* HandsOK by the actors it is about.
LEMMA HandsAre == HandsOK <=> MoversOK /\ StartersOK /\ RestOK
BY DEF HandsOK, MoversOK, StartersOK, RestOK

\* A mover is one of the records, as far as its place asks.
LEMMA MoverIs ==
  ASSUME MoversOK, NEW w \in Movers
  PROVE  mover[w] \in MoverRecs /\ GoodMover(mover[w])
BY DEF MoversOK

\* One mover goes to a given record and the other stays.
LEMMA MoverSet ==
  ASSUME MoversOK, NEW w \in Movers, NEW r, GoodMover(r), SetMover(w, r)
  PROVE  MoversOK' /\ mover'[w] = r /\ \A v \in Movers : v # w => mover'[v] = mover[v]
BY DEF MoversOK, SetMover, GoodMover

\* A mover that goes on with what it has.
LEMMA MoverGoes ==
  ASSUME MoversOK, NEW w \in Movers, NEW pc, Goes(w, pc), pc \in InMove => mover[w].pc \in InMove,
         pc \in {"idle", "boot", "home"} \cup InMove
  PROVE  MoversOK' /\ mover'[w] = [mover[w] EXCEPT !.pc = pc] /\ \A v \in Movers : v # w => mover'[v] = mover[v]
<1>1. PICK x \in MoverRecs : x = mover[w]
  BY MoverIs
<1>2. GoodMover([x EXCEPT !.pc = pc])
  BY <1>1, MoverIs DEF GoodMover, MoverRecs, InMove
<1>3. QED
  BY <1>1, <1>2, MoverSet DEF Goes

\* A mover at rest.
LEMMA NoMoveIs == GoodMover(NoMove) /\ NoMove.pc = "idle" /\ NoMove.from = Nowhere
BY DEF GoodMover, NoMove, MoverRecs, InMove

\* One activation goes to a given record and the other stays.
LEMMA StarterSet ==
  ASSUME StartersOK, NEW s \in {"boot", "ctl"}, NEW r, GoodStart(r), starter' = [starter EXCEPT ![s] = r]
  PROVE  StartersOK' /\ starter'[s] = r /\ \A v \in {"boot", "ctl"} : v # s => starter'[v] = starter[v]
BY DEF StartersOK, GoodStart

\* One activation goes on with what it has.
LEMMA StarterPc ==
  ASSUME StartersOK, NEW s \in {"boot", "ctl"}, NEW pc, starter' = [starter EXCEPT ![s].pc = pc],
         pc = "load" \/ (pc = "insert" /\ starter[s].pc = "prepare")
  PROVE  StartersOK' /\ starter'[s] = [starter[s] EXCEPT !.pc = pc]
         /\ \A v \in {"boot", "ctl"} : v # s => starter'[v] = starter[v]
<1>1. PICK x \in StartRecs : x = starter[s]
  BY DEF StartersOK
<1>2. GoodStart([x EXCEPT !.pc = pc])
  BY <1>1 DEF StartersOK, GoodStart, StartRecs
<1>3. starter' = [starter EXCEPT ![s] = [x EXCEPT !.pc = pc]]
  BY <1>1
<1>4. QED
  BY <1>1, <1>2, <1>3, StarterSet

\* An activation at rest.
LEMMA NoStartIs == GoodStart(NoStart) /\ NoStart.pc = "idle" /\ NoStart.have = {}
BY DEF GoodStart, NoStart, StartRecs

\* A bound that is used was positive, and none grows.
LEMMA UsesIs ==
  ASSUME RestOK, NEW r \in {"moves", "starts", "stops", "faults", "crashes", "readds"}, Uses(r)
  PROVE  /\ spare' \in SpareRecs /\ spare[r] > 0
         /\ \A x \in {"moves", "starts", "stops", "faults", "crashes", "readds"} : spare'[x] <= spare[x]
<1>1. PICK x \in SpareRecs : x = spare
  BY DEF RestOK
<1>2. QED
  BY <1>1 DEF Uses, SpareRecs, RestOK

FilesVars == <<links, names, bytes>>

\* What leaves the files alone.
LEMMA FilesSame == ASSUME FilesOK, UNCHANGED FilesVars PROVE FilesOK'
BY DEF FilesOK, FilesVars
TorrentVars == <<meta, hot, landed, jobs, read>>

\* What leaves the torrent alone.
LEMMA TorrentSame == ASSUME TorrentOK, UNCHANGED TorrentVars PROVE TorrentOK'
BY DEF TorrentOK, TorrentVars

\* What leaves the activations alone.
LEMMA StartersSame == ASSUME StartersOK, UNCHANGED starter PROVE StartersOK'
BY DEF StartersOK

\* What leaves the movers alone.
LEMMA MoversSame == ASSUME MoversOK, UNCHANGED mover PROVE MoversOK'
BY DEF MoversOK
\* What each action does to the files.
LEMMA PublishFiles ==
  ASSUME FilesOK, MoversOK, NEW w \in Movers, Publish(w) PROVE FilesOK'
<1>1. PICK m \in MoverRecs : m = mover[w] /\ GoodMover(m)
  BY MoverIs
<1>2. m.pc = "publish" /\ m.left # {} /\ m.left \subseteq Files /\ m.to \in Roots /\ m.from \in Roots
  BY <1>1 DEF Publish, GoodMover, MoverRecs, InMove
<1>3. PICK f \in Files : f = First(m.left)
  BY <1>2, FirstIs
<1>4. FreeInode(f) \in Inodes
  BY FreeIs
<1>5. \/ UNCHANGED <<names, bytes>>
      \/ names' = [names EXCEPT ![m.to][f] = names[m.from][f]] /\ bytes' = bytes
      \/ /\ names' = [names EXCEPT ![m.to][f] = FreeInode(f)]
         /\ bytes' = [bytes EXCEPT ![f][FreeInode(f)] = "short"]
  BY <1>1, <1>3 DEF Publish
<1>6. links' = links
  BY DEF Publish
<1>7. CASE UNCHANGED <<names, bytes>>
  BY <1>6, <1>7 DEF FilesOK
<1>8. CASE names' = [names EXCEPT ![m.to][f] = names[m.from][f]] /\ bytes' = bytes
  BY <1>2, <1>6, <1>8 DEF FilesOK
<1>9. CASE names' = [names EXCEPT ![m.to][f] = FreeInode(f)] /\ bytes' = [bytes EXCEPT ![f][FreeInode(f)] = "short"]
  BY <1>2, <1>4, <1>6, <1>9 DEF FilesOK, Contents
<1>10. QED
  BY <1>5, <1>7, <1>8, <1>9

\* What is in a file.
LEMMA ContentIs ==
  ASSUME FilesOK, NEW r \in Roots, NEW f \in Files
  PROVE  Content(r, f) \in Contents /\ (Content(r, f) # "none" => names[r][f] \in Inodes)
BY InodesAre DEF Content, FilesOK, Contents

\* The end of a copy fills an inode that has the name.
LEMMA CopyFiles ==
  ASSUME FilesOK, MoversOK, NEW w \in Movers, CopyEnds(w) PROVE FilesOK'
<1>1. PICK m \in MoverRecs : m = mover[w] /\ GoodMover(m)
  BY MoverIs
<1>2. m.pc = "copy" /\ m.to \in Roots /\ m.from \in Roots
  BY <1>1 DEF CopyEnds, GoodMover, InMove
<1>3. PICK f : f = First(m.left)
  OBVIOUS
<1>4. /\ bytes' = IF names[m.to][f] = 0 THEN bytes
                  ELSE [bytes EXCEPT ![f][names[m.to][f]] = Content(m.from, f)]
      /\ names' = names /\ links' = links
  BY <1>1, <1>3 DEF CopyEnds
<1>5. CASE f \in Files
  BY <1>2, <1>4, <1>5, ContentIs DEF FilesOK
<1>6. CASE f \notin Files
  <2>1. bytes' = bytes
    BY <1>4, <1>6 DEF FilesOK
  <2>2. QED
    BY <1>4, <2>1 DEF FilesOK
<1>7. QED
  BY <1>5, <1>6

\* Names go, inodes stay.
LEMMA UnpublishFiles ==
  ASSUME FilesOK, MoversOK, NEW w \in Movers, Unpublish(w) \/ UnpublishEnds(w) PROVE FilesOK'
<1>1. PICK m \in MoverRecs : m = mover[w] /\ GoodMover(m)
  BY MoverIs
<1>2. m.pc = "unpublish" /\ m.from \in Roots
  BY <1>1 DEF Unpublish, UnpublishEnds, GoodMover, InMove
<1>3. PICK f : f = First(m.left)
  OBVIOUS
<1>4. /\ \/ names' = names \/ names' = [names EXCEPT ![m.from][f] = 0]
         \/ names' = [names EXCEPT ![m.from] = [g \in Files |-> 0]]
      /\ bytes' = bytes /\ links' = links
  BY <1>1, <1>3 DEF Unpublish, UnpublishEnds
<1>5. CASE names' = names
  BY <1>4, <1>5 DEF FilesOK
<1>6. CASE names' = [names EXCEPT ![m.from][f] = 0]
  BY <1>2, <1>4, <1>6 DEF FilesOK
<1>7. CASE names' = [names EXCEPT ![m.from] = [g \in Files |-> 0]]
  BY <1>2, <1>4, <1>7 DEF FilesOK
<1>8. QED
  BY <1>4, <1>5, <1>6, <1>7

\* ensure_storage makes what is absent and fills what is short.
LEMMA PrepareFiles ==
  ASSUME FilesOK, StartersOK, NEW s \in {"boot", "ctl"}, StartPrepares(s) PROVE FilesOK'
<1>1. PICK r \in Roots : r = starter[s].root
  BY DEF StartersOK, GoodStart, StartPrepares
<1>2. PICK A \in SUBSET Files : A = {f \in Files : names[r][f] = 0}
  OBVIOUS
<1>3. /\ names' = [names EXCEPT ![r] = [f \in Files |-> IF f \in A THEN FreeInode(f) ELSE @[f]]]
      /\ bytes' = [f \in Files |->
              IF f \in A THEN [bytes[f] EXCEPT ![FreeInode(f)] = "zero"]
              ELSE IF Content(r, f) = "short" THEN [bytes[f] EXCEPT ![names[r][f]] = "zero"]
              ELSE bytes[f]]
      /\ links' = links
  BY <1>1, <1>2 DEF StartPrepares
<1>4. \A f \in Files : FreeInode(f) \in Inodes
  BY FreeIs
<1>5. names' \in [Roots -> [Files -> {0} \cup Inodes]]
  BY <1>3, <1>4 DEF FilesOK
<1>6. bytes' \in [Files -> [Inodes -> Contents]]
  BY <1>3, <1>4 DEF FilesOK, Contents
<1>7. QED
  BY <1>3, <1>5, <1>6 DEF FilesOK

\* A job writes into the inode of its name, or into a new one.
LEMMA WriteFiles ==
  ASSUME FilesOK, TorrentOK, NEW j \in jobs, JobWrites(j) PROVE FilesOK'
<1>1. j.f \in Files /\ j.root \in Roots
  BY DEF TorrentOK
<1>2. PICK i \in Inodes : i = FreeInode(j.f)
  BY <1>1, FreeIs
<1>3. \/ names[j.root][j.f] # 0 /\ bytes' = [bytes EXCEPT ![j.f][names[j.root][j.f]] = "good"] /\ names' = names
      \/ names' = [names EXCEPT ![j.root][j.f] = i] /\ bytes' = [bytes EXCEPT ![j.f][i] = "good"]
      \/ UNCHANGED <<names, bytes>>
  BY <1>2 DEF JobWrites
<1>4. links' = links
  BY DEF JobWrites
<1>5. CASE names[j.root][j.f] # 0 /\ bytes' = [bytes EXCEPT ![j.f][names[j.root][j.f]] = "good"] /\ names' = names
  BY <1>1, <1>4, <1>5 DEF FilesOK, Contents
<1>6. CASE names' = [names EXCEPT ![j.root][j.f] = i] /\ bytes' = [bytes EXCEPT ![j.f][i] = "good"]
  BY <1>1, <1>4, <1>6 DEF FilesOK, Contents
<1>7. CASE UNCHANGED <<names, bytes>>
  BY <1>4, <1>7 DEF FilesOK
<1>8. QED
  BY <1>3, <1>5, <1>6, <1>7
\* What each action does to the torrent.
LEMMA TorrentMeta ==
  ASSUME TorrentOK, NEW x \in MetaRecs, meta' = x, UNCHANGED <<hot, landed, jobs, read>>
  PROVE  TorrentOK'
BY DEF TorrentOK

\* No action leaves the types of the rows, the HotTorrent, the jobs and the read.
LEMMA TorrentStep ==
  ASSUME MoveShape, MoveNext PROVE TorrentOK'
<1>t. TorrentOK /\ MoversOK /\ StartersOK
  BY HandsAre DEF MoveShape
<1>m. PICK d \in MetaRecs : d = meta
  BY <1>t DEF TorrentOK
<1>h. PICK h \in HotRecs : h = hot /\ (h.on => h.root \in Roots)
  BY <1>t DEF TorrentOK
<1>r. PICK x \in ReadRecs : x = read /\ (x.pc = "open" => h.on /\ x.root \in Roots)
  BY <1>t, <1>h DEF TorrentOK
<1>l. landed \subseteq Files /\ jobs \subseteq [f : Files, root : Roots, written : BOOLEAN]
  BY <1>t DEF TorrentOK
<1>1. CASE UNCHANGED TorrentVars
  BY <1>t, <1>1, TorrentSame
<1>2. CASE TickFlushes \/ StopFlushes
  <2>1. [d EXCEPT !.have = @ \cup landed] \in MetaRecs
    BY <1>l DEF MetaRecs
  <2>2. /\ meta' = [d EXCEPT !.have = @ \cup landed] /\ landed' = {}
        /\ UNCHANGED <<hot, jobs, read>>
    BY <1>2, <1>m DEF TickFlushes, StopFlushes
  <2>3. QED
    BY <1>t, <2>1, <2>2 DEF TorrentOK
<1>3. CASE HandoffRoot
  <2>1. [d EXCEPT !.home = Nowhere] \in MetaRecs
    BY DEF MetaRecs
  <2>2. meta' \in {d, [d EXCEPT !.home = Nowhere]} /\ UNCHANGED <<hot, landed, jobs, read>>
    BY <1>3, <1>m DEF HandoffRoot
  <2>3. QED
    BY <1>t, <2>1, <2>2, TorrentMeta
<1>4. CASE RelocateRetargets
  <2>1. PICK m \in MoverRecs : m = mover["ctl"] /\ GoodMover(m)
    BY <1>t, MoverIs DEF Movers
  <2>2. m.to \in Roots
    BY <1>4, <2>1 DEF RelocateRetargets, GoodMover
  <2>3. [d EXCEPT !.home = m.to] \in MetaRecs
    BY <2>2 DEF MetaRecs
  <2>4. meta' = [d EXCEPT !.home = m.to] /\ UNCHANGED <<hot, landed, jobs, read>>
    BY <1>4, <1>m, <2>1 DEF RelocateRetargets
  <2>5. QED
    BY <1>t, <2>3, <2>4, TorrentMeta
<1>5. ASSUME NEW w \in Movers, SwitchRow(w) PROVE TorrentOK'
  <2>1. PICK m \in MoverRecs : m = mover[w] /\ GoodMover(m)
    BY <1>t, MoverIs
  <2>2. m.to \in Roots
    BY <1>5, <2>1 DEF SwitchRow, GoodMover, InMove
  <2>3. [d EXCEPT !.root = m.to] \in MetaRecs
    BY <2>2 DEF MetaRecs
  <2>4. meta' = [d EXCEPT !.root = m.to] /\ UNCHANGED <<hot, landed, jobs, read>>
    BY <1>5, <1>m, <2>1 DEF SwitchRow
  <2>5. QED
    BY <1>t, <2>3, <2>4, TorrentMeta
<1>6. ASSUME NEW w \in Movers, SwitchLive(w) PROVE TorrentOK'
  <2>1. PICK m \in MoverRecs : m = mover[w] /\ GoodMover(m)
    BY <1>t, MoverIs
  <2>2. m.to \in Roots
    BY <1>6, <2>1 DEF SwitchLive, GoodMover, InMove
  <2>3. /\ [h EXCEPT !.root = m.to] \in HotRecs /\ [h EXCEPT !.root = m.to].on = h.on
        /\ [h EXCEPT !.root = m.to].root = m.to
        /\ [x EXCEPT !.switched = @ + 1] \in ReadRecs
        /\ [x EXCEPT !.switched = @ + 1].pc = x.pc /\ [x EXCEPT !.switched = @ + 1].root = x.root
    BY <2>2 DEF HotRecs, ReadRecs
  <2>4. /\ hot' = IF h.on THEN [h EXCEPT !.root = m.to] ELSE h
        /\ read' \in {x, [x EXCEPT !.switched = @ + 1]}
        /\ UNCHANGED <<meta, landed, jobs>>
    BY <1>6, <1>h, <1>r, <2>1 DEF SwitchLive
  <2>5. meta' \in MetaRecs /\ landed' \subseteq Files /\ jobs' \subseteq [f : Files, root : Roots, written : BOOLEAN]
    BY <1>l, <1>m, <2>4
  <2>6. hot' \in HotRecs /\ (hot'.on => hot'.root \in Roots) /\ (h.on => hot'.on)
    BY <1>h, <2>2, <2>3, <2>4
  <2>7. read' \in ReadRecs /\ read'.pc = x.pc /\ read'.root = x.root
    BY <2>3, <2>4
  <2>8. QED
    BY <1>r, <2>5, <2>6, <2>7 DEF TorrentOK
<1>7. ASSUME NEW w \in Movers, ClearHome(w) PROVE TorrentOK'
  <2>1. [d EXCEPT !.home = Nowhere] \in MetaRecs
    BY DEF MetaRecs
  <2>2. meta' = [d EXCEPT !.home = Nowhere] /\ UNCHANGED <<hot, landed, jobs, read>>
    BY <1>7, <1>m DEF ClearHome
  <2>3. QED
    BY <1>t, <2>1, <2>2, TorrentMeta
<1>8. ASSUME NEW s \in {"boot", "ctl"}, StartLoads(s) PROVE TorrentOK'
  <2>1. [d EXCEPT !.want = TRUE] \in MetaRecs
    BY DEF MetaRecs
  <2>2. meta' \in {d, [d EXCEPT !.want = TRUE]} /\ UNCHANGED <<hot, landed, jobs, read>>
    BY <1>8, <1>m DEF StartLoads
  <2>3. QED
    BY <1>t, <2>1, <2>2, TorrentMeta
<1>9. ASSUME NEW s \in {"boot", "ctl"}, StartInserts(s) PROVE TorrentOK'
  <2>1. PICK y \in StartRecs : y = starter[s] /\ y.root \in Roots
    BY <1>t, <1>9 DEF StartersOK, GoodStart, StartInserts
  <2>2. /\ hot' = IF h.on THEN h ELSE [on |-> TRUE, root |-> y.root, have |-> y.have]
        /\ UNCHANGED <<meta, landed, jobs, read>>
    BY <1>9, <1>h, <2>1 DEF StartInserts
  <2>3. [on |-> TRUE, root |-> y.root, have |-> y.have] \in HotRecs
    BY <2>1 DEF HotRecs, StartRecs
  <2>4. hot' \in HotRecs /\ (hot'.on => hot'.root \in Roots) /\ (h.on => hot'.on)
    BY <1>h, <2>1, <2>2, <2>3
  <2>5. QED
    BY <1>t, <1>h, <2>2, <2>4 DEF TorrentOK
<1>10. CASE StopUnhots \/ CrashAndBoot
  <2>1. NotHot \in HotRecs /\ ~NotHot.on /\ NoRead \in ReadRecs /\ NoRead.pc = "idle"
    BY DEF NotHot, HotRecs, NoRead, ReadRecs, Files
  <2>2. [d EXCEPT !.want = FALSE] \in MetaRecs /\ Audited(d) \in MetaRecs
    BY DEF MetaRecs, Audited, Demoted
  <2>3. /\ meta' \in {[d EXCEPT !.want = FALSE], Audited(d)} /\ hot' = NotHot /\ jobs' = {} /\ read' = NoRead
        /\ landed' \in {landed, {}}
    BY <1>10, <1>m DEF StopUnhots, CrashAndBoot
  <2>4. QED
    BY <1>l, <2>1, <2>2, <2>3 DEF TorrentOK
<1>11. CASE SoftDeletes \/ Restores
  <2>1. [d EXCEPT !.deleted = TRUE] \in MetaRecs
    BY DEF MetaRecs
  <2>2. \A c \in Roots, e \in Roots \cup {Nowhere} :
            [d EXCEPT !.deleted = FALSE, !.want = TRUE, !.root = c, !.home = e] \in MetaRecs
    BY DEF MetaRecs
  <2>3. /\ \/ meta' = [d EXCEPT !.deleted = TRUE]
           \/ meta' = [d EXCEPT !.deleted = FALSE, !.want = TRUE, !.root = IF cache THEN "stage" ELSE "home",
                                !.home = IF cache THEN "home" ELSE Nowhere]
        /\ UNCHANGED <<hot, landed, jobs, read>>
    BY <1>11, <1>m DEF SoftDeletes, Restores
  <2>4. meta' \in MetaRecs
    BY <2>1, <2>2, <2>3 DEF Roots
  <2>5. QED
    BY <1>t, <2>3, <2>4, TorrentMeta
<1>12. ASSUME NEW f \in Files, JobTakes(f) PROVE TorrentOK'
  <2>1. h.root \in Roots /\ jobs' = jobs \cup {[f |-> f, root |-> h.root, written |-> FALSE]}
        /\ UNCHANGED <<meta, hot, landed, read>>
    BY <1>12, <1>h DEF JobTakes
  <2>2. [f |-> f, root |-> h.root, written |-> FALSE] \in [f : Files, root : Roots, written : BOOLEAN]
    BY <2>1
  <2>3. jobs' \subseteq [f : Files, root : Roots, written : BOOLEAN]
    BY <1>l, <2>1, <2>2
  <2>4. QED
    BY <1>t, <2>1, <2>3 DEF TorrentOK
<1>13. ASSUME NEW f \in Files, ReadBegins(f) PROVE TorrentOK'
  <2>1. h.on /\ h.root \in Roots /\ read' = [pc |-> "open", f |-> f, root |-> h.root, tries |-> 1, switched |-> 0]
        /\ UNCHANGED <<meta, hot, landed, jobs>>
    BY <1>13, <1>h DEF ReadBegins
  <2>2. read' \in ReadRecs /\ read'.root \in Roots
    BY <2>1 DEF ReadRecs
  <2>3. QED
    BY <1>t, <1>h, <2>1, <2>2 DEF TorrentOK
<1>14. ASSUME NEW j \in jobs, JobWrites(j) PROVE TorrentOK'
  <2>1. PICK y \in [f : Files, root : Roots, written : BOOLEAN] : y = j
    BY <1>l
  <2>2. [y EXCEPT !.written = TRUE] \in [f : Files, root : Roots, written : BOOLEAN]
    OBVIOUS
  <2>3. (jobs' = (jobs \ {j}) \cup {[y EXCEPT !.written = TRUE]} \/ jobs' = jobs \ {j})
        /\ UNCHANGED <<meta, hot, landed, read>>
    BY <1>14, <2>1 DEF JobWrites
  <2>4. jobs' \subseteq [f : Files, root : Roots, written : BOOLEAN]
    BY <1>l, <2>2, <2>3
  <2>5. QED
    BY <1>t, <2>3, <2>4 DEF TorrentOK
<1>15. ASSUME NEW j \in jobs, JobMarks(j) PROVE TorrentOK'
  <2>1. j.f \in Files
    BY <1>l
  <2>2. [h EXCEPT !.have = @ \cup {j.f}] \in HotRecs /\ [h EXCEPT !.have = @ \cup {j.f}].on = h.on
        /\ [h EXCEPT !.have = @ \cup {j.f}].root = h.root
    BY <2>1 DEF HotRecs
  <2>3. jobs' = jobs \ {j} /\ hot' = [h EXCEPT !.have = @ \cup {j.f}] /\ landed' = landed \cup {j.f}
        /\ UNCHANGED <<meta, read>>
    BY <1>15, <1>h DEF JobMarks
  <2>4. hot' \in HotRecs /\ hot'.on = h.on /\ hot'.root = h.root /\ landed' \subseteq Files
        /\ jobs' \subseteq [f : Files, root : Roots, written : BOOLEAN]
    BY <1>l, <2>1, <2>2, <2>3
  <2>5. QED
    BY <1>m, <1>h, <1>r, <2>3, <2>4 DEF TorrentOK
<1>16. CASE ReadOpens \/ ReadFailed
  <2>1. NoRead \in ReadRecs /\ NoRead.pc = "idle"
    BY DEF NoRead, ReadRecs, Files
  <2>2. UNCHANGED <<meta, hot, landed, jobs>>
    BY <1>16 DEF ReadOpens, ReadFailed
  <2>a. h.root \in Roots \cup {Nowhere}
    BY DEF HotRecs
  <2>3. /\ [x EXCEPT !.root = h.root, !.tries = 2] \in ReadRecs
        /\ h.on => [x EXCEPT !.root = h.root, !.tries = 2].root \in Roots
    <3>1. [x EXCEPT !.root = h.root] \in ReadRecs
      BY <2>a DEF ReadRecs
    <3>2. PICK y \in ReadRecs : y = [x EXCEPT !.root = h.root]
      BY <3>1
    <3>3. [y EXCEPT !.tries = 2] \in ReadRecs /\ [y EXCEPT !.tries = 2].root = y.root
      BY DEF ReadRecs
    <3>4. y.root = h.root /\ [y EXCEPT !.tries = 2] = [x EXCEPT !.root = h.root, !.tries = 2]
      BY <3>2 DEF ReadRecs
    <3>5. QED
      BY <1>h, <3>3, <3>4
  <2>4. \A n \in Nat : [x EXCEPT !.pc = "failed", !.switched = n] \in ReadRecs
                       /\ [x EXCEPT !.pc = "failed", !.switched = n].pc = "failed"
    BY DEF ReadRecs
  <2>5. [x EXCEPT !.pc = "failed"] \in ReadRecs /\ [x EXCEPT !.pc = "failed"].pc = "failed"
    BY DEF ReadRecs
  <2>6. \/ read' = NoRead
        \/ x.pc = "open" /\ read' \in {[x EXCEPT !.root = h.root, !.tries = 2],
                     [x EXCEPT !.pc = "failed", !.switched = x.switched + 1], [x EXCEPT !.pc = "failed"]}
    BY <1>16, <1>h, <1>r DEF ReadOpens, ReadFailed
  <2>7. x.switched \in Nat /\ x.switched + 1 \in Nat
    BY DEF ReadRecs
  <2>8. read' \in ReadRecs
    BY <2>1, <2>3, <2>4, <2>5, <2>6, <2>7
  <2>9. read'.pc = "open" => h.on /\ read'.root \in Roots
    BY <1>r, <2>1, <2>3, <2>4, <2>5, <2>6, <2>7
  <2>10. QED
    BY <1>t, <1>h, <2>2, <2>8, <2>9 DEF TorrentOK
<1>17. QED
  <2>1. ASSUME TickBoots \/ HandoffHome \/ StartCmd \/ RelocateRoot \/ RelocateChooses \/ RelocateLocks
        PROVE  UNCHANGED TorrentVars
    BY <2>1 DEF TorrentVars, TickBoots, HandoffHome, StartCmd, RelocateRoot, RelocateChooses, RelocateLocks
  <2>2. ASSUME NEW w \in Movers, Publish(w) \/ CopyEnds(w) \/ PublishFails(w) \/ Unpublish(w) \/ UnpublishEnds(w) PROVE UNCHANGED TorrentVars
    BY <2>2 DEF TorrentVars, Publish, CopyEnds, PublishFails, Unpublish, UnpublishEnds
  <2>3. ASSUME NEW s \in {"boot", "ctl"}, StartPrepares(s) PROVE UNCHANGED TorrentVars
    BY <2>3 DEF TorrentVars, StartPrepares
  <2>4. ASSUME NEW x0 \in Roots, RelocateHome(x0) PROVE UNCHANGED TorrentVars
    BY <2>4 DEF TorrentVars, RelocateHome
  <2>5. QED
    BY <1>1, <1>2, <1>3, <1>4, <1>5, <1>6, <1>7, <1>8, <1>9, <1>10, <1>11, <1>12, <1>13, <1>14, <1>15, <1>16, <2>1, <2>2, <2>3, <2>4
    DEF MoveNext, TickHands, Moves, CtlWorks, Movers

\* A relocate up to its move.
Relocates == RelocateRoot \/ RelocateRetargets \/ RelocateChooses \/ RelocateLocks

\* No action leaves the types of the files.
LEMMA FilesStep ==
  ASSUME MoveShape, MoveNext PROVE FilesOK'
<1>t. FilesOK /\ TorrentOK /\ MoversOK /\ StartersOK
  BY HandsAre DEF MoveShape
<1>1. CASE UNCHANGED FilesVars
  BY <1>t, <1>1, FilesSame
<1>2. ASSUME TickHands \/ StartCmd \/ StopFlushes \/ StopUnhots \/ SoftDeletes \/ Restores \/ CrashAndBoot
             \/ ReadOpens \/ ReadFailed \/ Relocates
      PROVE  UNCHANGED FilesVars
  BY <1>2 DEF FilesVars, TickHands, TickBoots, TickFlushes, HandoffHome, HandoffRoot, StartCmd, StopFlushes,
              StopUnhots, SoftDeletes, Restores, CrashAndBoot, ReadOpens, ReadFailed,
              Relocates, RelocateRoot, RelocateRetargets, RelocateChooses, RelocateLocks
<1>3. ASSUME NEW w \in Movers, SwitchRow(w) \/ SwitchLive(w) \/ ClearHome(w) \/ PublishFails(w)
      PROVE  UNCHANGED FilesVars
  BY <1>3 DEF FilesVars, SwitchRow, SwitchLive, ClearHome, PublishFails
<1>4. ASSUME NEW s \in {"boot", "ctl"}, StartLoads(s) \/ StartInserts(s) PROVE UNCHANGED FilesVars
  BY <1>4 DEF FilesVars, StartLoads, StartInserts
<1>5. ASSUME NEW f \in Files, JobTakes(f) \/ ReadBegins(f) PROVE UNCHANGED FilesVars
  BY <1>5 DEF FilesVars, JobTakes, ReadBegins
<1>6. ASSUME NEW j \in jobs, JobMarks(j) PROVE UNCHANGED FilesVars
  BY <1>6 DEF FilesVars, JobMarks
<1>7. ASSUME NEW r \in Roots, RelocateHome(r) PROVE UNCHANGED FilesVars
  BY <1>7 DEF FilesVars, RelocateHome
<1>8. QED
  BY <1>t, <1>1, <1>2, <1>3, <1>4, <1>5, <1>6, <1>7, PublishFiles, CopyFiles, UnpublishFiles, PrepareFiles, WriteFiles
  DEF MoveNext, Moves, CtlWorks, Relocates

\* What each action does to the movers.
LEMMA MoversStep ==
  ASSUME MoveShape, MoveNext PROVE MoversOK'
<1>t. MoversOK /\ meta \in MetaRecs /\ hot \in HotRecs /\ (hot.on => hot.root \in Roots)
  BY HandsAre DEF MoveShape, TorrentOK
<1>n. GoodMover(NoMove)
  BY NoMoveIs
<1>l. LiveRoot \in Roots
  BY <1>t DEF LiveRoot, MetaRecs
<1>w. "tick" \in Movers /\ "ctl" \in Movers
  BY DEF Movers
<1>1. CASE UNCHANGED mover
  BY <1>t, <1>1, MoversSame
<1>2. CASE TickBoots
  <2>1. CASE Goes("tick", "home")
    BY <1>t, <1>w, <2>1, MoverGoes DEF InMove
  <2>2. CASE Goes("tick", "idle")
    BY <1>t, <1>w, <2>2, MoverGoes DEF InMove
  <2>3. QED
    BY <1>2, <2>1, <2>2 DEF TickBoots
<1>3. CASE TickFlushes
  <2>1. CASE Goes("tick", "home")
    BY <1>t, <1>w, <2>1, MoverGoes DEF InMove
  <2>2. CASE Goes("tick", "idle")
    BY <1>t, <1>w, <2>2, MoverGoes DEF InMove
  <2>3. Goes("tick", "home") \/ Goes("tick", "idle")
    BY <1>3 DEF TickFlushes
  <2>4. QED
    BY <2>1, <2>2, <2>3
<1>4. CASE HandoffHome
  <2>1. meta.home # Nowhere => GoodMover([NoMove EXCEPT !.pc = "root", !.to = meta.home])
    BY <1>t DEF GoodMover, NoMove, MoverRecs, InMove, MetaRecs
  <2>2. QED
    BY <1>t, <1>n, <1>w, <1>4, <2>1, MoverSet DEF HandoffHome
<1>5. CASE HandoffRoot
  <2>1. PICK m \in MoverRecs : m = mover["tick"] /\ GoodMover(m)
    BY <1>t, <1>w, MoverIs
  <2>2. m.to \in Roots
    BY <1>5, <2>1 DEF HandoffRoot, GoodMover
  <2>3. GoodMover([m EXCEPT !.pc = "publish", !.from = LiveRoot, !.left = Files, !.clear = TRUE])
    BY <1>l, <2>2 DEF GoodMover, MoverRecs, InMove
  <2>4. \/ SetMover("tick", NoMove)
        \/ SetMover("tick", [m EXCEPT !.pc = "publish", !.from = LiveRoot, !.left = Files, !.clear = TRUE])
    BY <1>5, <2>1 DEF HandoffRoot
  <2>5. QED
    BY <1>t, <1>n, <1>w, <2>3, <2>4, MoverSet
<1>6. ASSUME NEW r \in Roots, RelocateHome(r) PROVE MoversOK'
  <2>1. GoodMover([NoMove EXCEPT !.pc = "root", !.from = meta.home, !.to = r])
    BY <1>t DEF GoodMover, NoMove, MoverRecs, InMove, MetaRecs
  <2>2. QED
    BY <1>t, <1>w, <1>6, <2>1, MoverSet DEF RelocateHome
<1>7. CASE Relocates
  <2>1. PICK m \in MoverRecs : m = mover["ctl"] /\ GoodMover(m)
    BY <1>t, <1>w, MoverIs
  <2>2. m.to \in Roots /\ (m.pc = "choose" => m.from \in Roots)
    BY <1>7, <2>1 DEF Relocates, RelocateRoot, RelocateRetargets, RelocateChooses, RelocateLocks, GoodMover
  <2>3. PICK r \in Roots : r = LiveRoot
    BY <1>l
  <2>4. PICK z \in Roots : z = meta.root
    BY <1>t DEF MetaRecs
  <2>5. /\ GoodMover([m EXCEPT !.pc = "retarget"]) /\ GoodMover([m EXCEPT !.pc = "choose", !.from = r])
        /\ GoodMover([m EXCEPT !.pc = "cold"])
    BY <2>2 DEF GoodMover, MoverRecs, InMove
  <2>6. /\ m.pc = "choose" => GoodMover([m EXCEPT !.pc = "publish", !.left = Files])
        /\ GoodMover([m EXCEPT !.pc = "publish", !.from = z, !.left = Files, !.locked = TRUE])
    BY <2>2 DEF GoodMover, MoverRecs, InMove
  <2>7. CASE RelocateRoot
    <3>1. \/ SetMover("ctl", NoMove) \/ SetMover("ctl", [m EXCEPT !.pc = "retarget"])
          \/ SetMover("ctl", [m EXCEPT !.pc = "choose", !.from = r])
      BY <2>1, <2>3, <2>7 DEF RelocateRoot
    <3>2. QED
      BY <1>t, <1>n, <1>w, <2>5, <3>1, MoverSet
  <2>8. CASE RelocateRetargets
    BY <1>t, <1>n, <1>w, <2>8, MoverSet DEF RelocateRetargets
  <2>9. CASE RelocateChooses
    <3>1. /\ m.pc = "choose"
          /\ \/ SetMover("ctl", [m EXCEPT !.pc = "publish", !.left = Files])
             \/ SetMover("ctl", [m EXCEPT !.pc = "cold"])
      BY <2>1, <2>9 DEF RelocateChooses
    <3>2. QED
      BY <1>t, <1>w, <2>5, <2>6, <3>1, MoverSet
  <2>10. CASE RelocateLocks
    <3>1. \/ SetMover("ctl", NoMove)
          \/ SetMover("ctl", [m EXCEPT !.pc = "publish", !.from = z, !.left = Files, !.locked = TRUE])
      BY <2>1, <2>4, <2>10 DEF RelocateLocks
    <3>2. QED
      BY <1>t, <1>n, <1>w, <2>6, <3>1, MoverSet
  <2>11. QED
    BY <1>7, <2>7, <2>8, <2>9, <2>10 DEF Relocates
<1>8. ASSUME NEW w \in Movers, Moves(w) \/ PublishFails(w) PROVE MoversOK'
  <2>1. PICK m \in MoverRecs : m = mover[w] /\ GoodMover(m)
    BY <1>t, MoverIs
  <2>2. \A s \in SUBSET Files, pc \in InMove : m.pc \in InMove =>
            GoodMover([m EXCEPT !.left = s]) /\ GoodMover([m EXCEPT !.pc = pc, !.left = s])
            /\ GoodMover([m EXCEPT !.pc = pc])
    BY <2>1, ZenonT(60) DEF GoodMover, MoverRecs, InMove
  <2>3. PICK f : f = First(m.left)
    OBVIOUS
  <2>4. PICK s \in SUBSET Files : s = m.left \ {f}
    BY DEF MoverRecs
  <2>5. CASE Publish(w)
    <3>1. m.pc \in InMove
      BY <2>1, <2>5 DEF Publish, InMove
    <3>2. \/ SetMover(w, [m EXCEPT !.left = s]) \/ SetMover(w, [m EXCEPT !.pc = "copy"])
      BY <2>1, <2>3, <2>4, <2>5 DEF Publish
    <3>3. QED
      BY <1>t, <2>2, <3>1, <3>2, MoverSet DEF InMove
  <2>6. CASE CopyEnds(w)
    <3>1. m.pc \in InMove /\ SetMover(w, [m EXCEPT !.pc = "publish", !.left = s])
      BY <2>1, <2>3, <2>4, <2>6 DEF CopyEnds, InMove
    <3>2. QED
      BY <1>t, <2>2, <3>1, MoverSet DEF InMove
  <2>7. CASE SwitchRow(w)
    <3>1. m.pc \in InMove
          /\ (SetMover(w, [m EXCEPT !.pc = "unpublish", !.left = Files]) \/ SetMover(w, [m EXCEPT !.pc = "live"]))
      BY <2>1, <2>7 DEF SwitchRow, InMove
    <3>2. QED
      BY <1>t, <2>2, <3>1, MoverSet DEF InMove
  <2>8. CASE SwitchLive(w)
    <3>1. m.pc \in InMove /\ SetMover(w, [m EXCEPT !.pc = "unpublish", !.left = Files])
      BY <2>1, <2>8 DEF SwitchLive, InMove
    <3>2. QED
      BY <1>t, <2>2, <3>1, MoverSet DEF InMove
  <2>9. CASE Unpublish(w)
    <3>1. m.pc \in InMove /\ SetMover(w, [m EXCEPT !.left = s])
      BY <2>1, <2>3, <2>4, <2>9 DEF Unpublish, InMove
    <3>2. QED
      BY <1>t, <2>2, <3>1, MoverSet DEF InMove
  <2>10. CASE UnpublishEnds(w)
    <3>1. m.pc \in InMove /\ (SetMover(w, [m EXCEPT !.pc = "clear"]) \/ SetMover(w, NoMove))
      BY <2>1, <2>10 DEF UnpublishEnds, InMove
    <3>2. QED
      BY <1>t, <1>n, <2>2, <3>1, MoverSet DEF InMove
  <2>11. CASE ClearHome(w) \/ PublishFails(w)
    BY <1>t, <1>n, <2>11, MoverSet DEF ClearHome, PublishFails
  <2>12. QED
    BY <1>8, <2>5, <2>6, <2>7, <2>8, <2>9, <2>10, <2>11 DEF Moves
<1>9. CASE CrashAndBoot
  <2>1. GoodMover([NoMove EXCEPT !.pc = "boot"])
    BY DEF GoodMover, NoMove, MoverRecs, InMove
  <2>2. QED
    BY <1>n, <1>9, <2>1 DEF CrashAndBoot, MoversOK, GoodMover
<1>10. QED
  <2>1. ASSUME StartCmd \/ StopFlushes \/ StopUnhots \/ SoftDeletes \/ Restores \/ ReadOpens \/ ReadFailed
        PROVE  UNCHANGED mover
    BY <2>1 DEF StartCmd, StopFlushes, StopUnhots, SoftDeletes, Restores, ReadOpens, ReadFailed
  <2>2. ASSUME NEW s \in {"boot", "ctl"}, StartLoads(s) \/ StartPrepares(s) \/ StartInserts(s) PROVE UNCHANGED mover
    BY <2>2 DEF StartLoads, StartPrepares, StartInserts
  <2>3. ASSUME NEW f \in Files, JobTakes(f) \/ ReadBegins(f) PROVE UNCHANGED mover
    BY <2>3 DEF JobTakes, ReadBegins
  <2>4. ASSUME NEW j \in jobs, JobWrites(j) \/ JobMarks(j) PROVE UNCHANGED mover
    BY <2>4 DEF JobWrites, JobMarks
  <2>5. QED
    BY <1>1, <1>2, <1>3, <1>4, <1>5, <1>6, <1>7, <1>8, <1>9, <2>1, <2>2, <2>3, <2>4
    DEF MoveNext, TickHands, CtlWorks, Relocates

\* What each action does to the activations.
LEMMA StartersStep ==
  ASSUME MoveShape, MoveNext PROVE StartersOK'
<1>t. StartersOK /\ meta \in MetaRecs
  BY HandsAre DEF MoveShape, TorrentOK
<1>n. GoodStart(NoStart)
  BY NoStartIs
<1>1. CASE UNCHANGED starter
  BY <1>t, <1>1, StartersSame
<1>2. CASE StartCmd
  BY <1>t, <1>2, StarterPc DEF StartCmd
<1>3. CASE Restores
  BY <1>t, <1>3, StarterPc DEF Restores
<1>4. ASSUME NEW s \in {"boot", "ctl"}, StartLoads(s) PROVE StartersOK'
  <2>1. GoodStart([pc |-> "prepare", root |-> meta.root, have |-> meta.have])
    BY <1>t DEF GoodStart, StartRecs, MetaRecs
  <2>2. QED
    BY <1>t, <1>n, <1>4, <2>1, StarterSet DEF StartLoads
<1>5. ASSUME NEW s \in {"boot", "ctl"}, StartPrepares(s) PROVE StartersOK'
  BY <1>t, <1>5, StarterPc DEF StartPrepares
<1>6. ASSUME NEW s \in {"boot", "ctl"}, StartInserts(s) PROVE StartersOK'
  BY <1>t, <1>n, <1>6, StarterSet DEF StartInserts
<1>7. CASE CrashAndBoot
  <2>1. GoodStart([NoStart EXCEPT !.pc = "load"])
    BY DEF GoodStart, NoStart, StartRecs
  <2>2. QED
    BY <1>n, <1>7, <2>1 DEF CrashAndBoot, StartersOK, GoodStart
<1>8. QED
  <2>1. ASSUME TickHands \/ StopFlushes \/ StopUnhots \/ SoftDeletes \/ ReadOpens \/ ReadFailed \/ Relocates
        PROVE  UNCHANGED starter
    BY <2>1 DEF TickHands, TickBoots, TickFlushes, HandoffHome, HandoffRoot, StopFlushes, StopUnhots, SoftDeletes,
                ReadOpens, ReadFailed, Relocates, RelocateRoot, RelocateRetargets, RelocateChooses, RelocateLocks
  <2>2. ASSUME NEW w \in Movers, Moves(w) \/ PublishFails(w) PROVE UNCHANGED starter
    BY <2>2 DEF Moves, Publish, CopyEnds, SwitchRow, SwitchLive, Unpublish, UnpublishEnds, ClearHome, PublishFails
  <2>3. ASSUME NEW f \in Files, JobTakes(f) \/ ReadBegins(f) PROVE UNCHANGED starter
    BY <2>3 DEF JobTakes, ReadBegins
  <2>4. ASSUME NEW j \in jobs, JobWrites(j) \/ JobMarks(j) PROVE UNCHANGED starter
    BY <2>4 DEF JobWrites, JobMarks
  <2>5. ASSUME NEW r \in Roots, RelocateHome(r) PROVE UNCHANGED starter
    BY <2>5 DEF RelocateHome
  <2>6. QED
    BY <1>1, <1>2, <1>3, <1>4, <1>5, <1>6, <1>7, <2>1, <2>2, <2>3, <2>4, <2>5 DEF MoveNext, CtlWorks, Relocates

\* A race is remembered, and no bound grows.
LEMMA RestStep ==
  ASSUME MoveShape, MoveNext
  PROVE  /\ RestOK' /\ (raced => raced')
         /\ \A x \in {"moves", "starts", "stops", "faults", "crashes", "readds"} : spare'[x] <= spare[x]
<1>t. RestOK
  BY HandsAre DEF MoveShape
<1>s. PICK z \in SpareRecs : z = spare
  BY <1>t DEF RestOK
<1>same. ASSUME UNCHANGED spare
         PROVE  spare' \in SpareRecs /\ \A x \in {"moves", "starts", "stops", "faults", "crashes", "readds"} : spare'[x] <= spare[x]
  BY <1>s, <1>same DEF SpareRecs
<1>1. CASE UNCHANGED <<raced, spare>>
  BY <1>t, <1>1, <1>same DEF RestOK
<1>2. ASSUME UNCHANGED raced,
             \E r \in {"moves", "starts", "stops", "faults", "crashes", "readds"} : Uses(r)
      PROVE  /\ RestOK' /\ (raced => raced')
             /\ \A x \in {"moves", "starts", "stops", "faults", "crashes", "readds"} : spare'[x] <= spare[x]
  BY <1>t, <1>2, UsesIs DEF RestOK
<1>3. ASSUME UNCHANGED spare, NEW b, b \in BOOLEAN, raced' = (raced \/ b)
      PROVE  /\ RestOK' /\ (raced => raced')
             /\ \A x \in {"moves", "starts", "stops", "faults", "crashes", "readds"} : spare'[x] <= spare[x]
  <2>1. raced' \in BOOLEAN /\ (raced => raced')
    BY <1>3
  <2>2. QED
    BY <2>1, <1>3, <1>same DEF RestOK
<1>4. ASSUME TickHands \/ StopUnhots \/ Restores \/ ReadOpens \/ ReadFailed \/ Relocates
      PROVE  UNCHANGED <<raced, spare>>
  BY <1>4 DEF TickHands, TickBoots, TickFlushes, HandoffHome, HandoffRoot, StopUnhots, Restores, ReadOpens, ReadFailed,
              Relocates, RelocateRoot, RelocateRetargets, RelocateChooses, RelocateLocks
<1>5. ASSUME NEW w \in Movers, Publish(w) \/ CopyEnds(w) \/ Unpublish(w) \/ ClearHome(w)
      PROVE  UNCHANGED <<raced, spare>>
  BY <1>5 DEF Publish, CopyEnds, Unpublish, ClearHome
<1>6. ASSUME NEW f \in Files, JobTakes(f) \/ ReadBegins(f) PROVE UNCHANGED <<raced, spare>>
  BY <1>6 DEF JobTakes, ReadBegins
<1>7. ASSUME NEW j \in jobs, JobWrites(j) \/ JobMarks(j) PROVE UNCHANGED <<raced, spare>>
  BY <1>7 DEF JobWrites, JobMarks
<1>8. ASSUME NEW s \in {"boot", "ctl"}, StartLoads(s) PROVE UNCHANGED <<raced, spare>>
  BY <1>8 DEF StartLoads
<1>9. ASSUME NEW r \in Roots, RelocateHome(r) PROVE UNCHANGED raced /\ Uses("moves")
  BY <1>9 DEF RelocateHome
<1>10. ASSUME StartCmd \/ StopFlushes \/ SoftDeletes \/ CrashAndBoot
       PROVE  UNCHANGED raced /\ \E r \in {"moves", "starts", "stops", "faults", "crashes", "readds"} : Uses(r)
  BY <1>10 DEF StartCmd, StopFlushes, SoftDeletes, CrashAndBoot
<1>11. ASSUME NEW w \in Movers, PublishFails(w) PROVE UNCHANGED raced /\ Uses("faults")
  BY <1>11 DEF PublishFails
<1>12. ASSUME NEW w \in Movers, UnpublishEnds(w)
       PROVE  UNCHANGED <<raced, spare>> \/ (UNCHANGED raced /\ Uses("faults"))
  BY <1>12 DEF UnpublishEnds
<1>13. ASSUME NEW w \in Movers, SwitchRow(w) PROVE UNCHANGED spare /\ \E b \in BOOLEAN : raced' = (raced \/ b)
  <2>1. PICK b \in BOOLEAN : b = (mover[w].locked /\ hot.on)
    OBVIOUS
  <2>2. QED
    BY <1>13, <2>1 DEF SwitchRow
<1>14. ASSUME NEW w \in Movers, SwitchLive(w) PROVE UNCHANGED spare /\ \E b \in BOOLEAN : raced' = (raced \/ b)
  <2>1. PICK b \in BOOLEAN : b = (hot.on /\ meta.root # mover[w].to)
    OBVIOUS
  <2>2. QED
    BY <1>14, <2>1 DEF SwitchLive
<1>15. ASSUME NEW s \in {"boot", "ctl"}, StartPrepares(s) PROVE UNCHANGED spare /\ \E b \in BOOLEAN : raced' = (raced \/ b)
  <2>1. PICK b \in BOOLEAN : b = (starter[s].root # meta.root)
    OBVIOUS
  <2>2. QED
    BY <1>15, <2>1 DEF StartPrepares
<1>16. ASSUME NEW s \in {"boot", "ctl"}, StartInserts(s) PROVE UNCHANGED spare /\ \E b \in BOOLEAN : raced' = (raced \/ b)
  <2>1. PICK b \in BOOLEAN : b = (~hot.on /\ starter[s].root # meta.root)
    OBVIOUS
  <2>2. QED
    BY <1>16, <2>1 DEF StartInserts
<1>17. QED
  BY <1>1, <1>2, <1>3, <1>4, <1>5, <1>6, <1>7, <1>8, <1>9, <1>10, <1>11, <1>12, <1>13, <1>14, <1>15, <1>16
  DEF MoveNext, Moves, CtlWorks, Relocates

\* The shape holds on.
LEMMA ShapeStep ==
  ASSUME MoveShape, [MoveNext]_moveVars PROVE MoveShape'
<1>1. CASE MoveNext
  <2>1. FilesOK' /\ TorrentOK' /\ MoversOK' /\ StartersOK' /\ RestOK'
    BY <1>1, FilesStep, TorrentStep, MoversStep, StartersStep, RestStep
  <2>2. HandsOK'
    BY <2>1 DEF HandsOK, MoversOK, StartersOK, RestOK
  <2>3. QED
    BY <2>1, <2>2 DEF MoveShape
<1>2. CASE UNCHANGED moveVars
  BY <1>2 DEF moveVars, MoveShape, FilesOK, TorrentOK, HandsOK
<1>3. QED
  BY <1>1, <1>2

\* The shape holds at first.
LEMMA ShapeInit == MoveInit => MoveShape
<1> SUFFICES ASSUME MoveInit PROVE MoveShape
  OBVIOUS
<1>1. PICK p \in Profile : /\ p \in MoveStarts
        /\ links = p.links
        /\ names = [r \in Roots |-> [f \in Files |-> IF r = (IF p.staged THEN "stage" ELSE "home") THEN 1 ELSE 0]]
        /\ bytes = [f \in Files |-> [i \in Inodes |-> IF f \in p.have THEN "good" ELSE "zero"]]
        /\ meta = [root |-> IF p.staged THEN "stage" ELSE "home", home |-> IF p.staged THEN "home" ELSE Nowhere,
                   have |-> p.have, want |-> p.want, deleted |-> FALSE]
        /\ hot = NotHot /\ landed = {} /\ jobs = {}
        /\ mover = [m \in Movers |-> IF m = "tick" THEN [NoMove EXCEPT !.pc = "boot"] ELSE NoMove]
        /\ starter = [s \in {"boot", "ctl"} |->
                        IF s = "boot" /\ p.want THEN [NoStart EXCEPT !.pc = "load"] ELSE NoStart]
        /\ read = NoRead /\ raced = FALSE
        /\ spare = [moves |-> p.moves, starts |-> p.starts, stops |-> p.stops,
                    faults |-> p.faults, crashes |-> p.crashes, readds |-> p.readds]
  BY MoveAssumption DEF MoveInit
<1>2. FilesOK
  BY <1>1, InodesAre DEF FilesOK, Profile, Contents
<1>3. TorrentOK
  BY <1>1 DEF TorrentOK, MetaRecs, HotRecs, ReadRecs, NotHot, NoRead, Profile, Roots, Files
<1>4. MoversOK
  <2>1. GoodMover([NoMove EXCEPT !.pc = "boot"]) /\ GoodMover(NoMove)
    BY DEF GoodMover, NoMove, MoverRecs, InMove
  <2>2. QED
    BY <1>1, <2>1 DEF MoversOK, GoodMover
<1>5. StartersOK
  <2>1. GoodStart([NoStart EXCEPT !.pc = "load"]) /\ GoodStart(NoStart)
    BY DEF GoodStart, NoStart, StartRecs
  <2>2. QED
    BY <1>1, <2>1 DEF StartersOK, GoodStart
<1>6. RestOK
  BY <1>1 DEF RestOK, SpareRecs, Profile
<1>7. QED
  BY <1>2, <1>3, <1>4, <1>5, <1>6, HandsAre DEF MoveShape

-----------------------------------------------------------------------------
(* One mover at a time: handoffs alone, or a complete torrent that the user  *)
(* moves.                                                                    *)

LoneMover ==
    /\ spare.readds = 0 /\ ~meta.deleted
    /\ \/ spare.moves = 0 /\ mover["ctl"].pc = "idle"
       \/ /\ meta.home = Nowhere /\ Complete(meta.have) /\ mover["tick"].pc \in {"boot", "idle"}
          /\ mover["ctl"].pc # "retarget"
          /\ mover["ctl"].pc = "root" => mover["ctl"].from = Nowhere

\* The directory in the catalog has every file at its length, and the pieces
\* that are claimed; another has no zeros, since only an activation makes them.
RootHolds == \A r \in Roots, f \in Files :
    /\ r = meta.root => /\ Content(r, f) \in {"zero", "good"}
                        /\ f \in meta.have \cup landed => Content(r, f) = "good"
    /\ r # meta.root => Content(r, f) # "zero"

\* A move is of a complete torrent, from one directory to another: up to the
\* catalog from the one it names, after it to that one, and whole where it was
\* until the HotTorrent has followed.
MoverHolds(m) ==
    /\ m.pc \in {"home", "root", "choose", "cold"} \cup InMove => Complete(meta.have)
    /\ m.pc \in InMove \cup {"choose"} => m.from # m.to
    /\ m.pc = "choose" => m.from = meta.root
    /\ m.pc \in {"publish", "copy"} =>
           m.from = meta.root /\ \A f \in Files \ m.left : Content(m.to, f) = "good"
    /\ m.pc = "copy" => m.left # {} /\ \A f \in Files : f = First(m.left) => Content(m.to, f) # "none"
    /\ m.pc \in {"live", "unpublish", "clear"} => m.to = meta.root
    /\ m.pc = "live" => \A f \in Files : Content(m.from, f) = "good"
MoversHold == \A w \in Movers, m \in MoverRecs : m = mover[w] => MoverHolds(m)

\* The HotTorrent has no more than the catalog and the pieces on their way to
\* it, and is where the catalog says, or a move is about to tell it.
HotHolds ==
    hot.on => /\ hot.have \subseteq meta.have \cup landed
              /\ hot.root = meta.root \/ \E w \in Movers : mover[w].pc = "live" /\ hot.root = mover[w].from
StartsHold == \A s \in {"boot", "ctl"} : starter[s].pc \in {"prepare", "insert"} => starter[s].have \subseteq meta.have

\* A job that writes elsewhere changes nothing any more.
JobsHold == \A j \in jobs :
    /\ j.root = meta.root \/ Complete(meta.have)
    /\ j.written => \A r \in Roots : r = meta.root => Content(r, j.f) = "good"

\* A read has the layout of now, or that of before a switch.
ReadHolds ==
    /\ read.pc = "open" =>
          /\ read.f \in hot.have /\ read.tries \in {1, 2}
          /\ read.tries = 1 /\ read.switched = 0 => read.root = hot.root
          /\ read.tries = 2 => read.switched > 0
          /\ read.tries = 2 /\ read.switched = 1 => read.root = hot.root
    /\ read.pc = "failed" => read.switched > 1

MoveSound == LoneMover /\ RootHolds /\ MoversHold /\ HotHolds /\ StartsHold /\ JobsHold /\ ReadHolds

-----------------------------------------------------------------------------
\* What keeps each part.  A content may become good anywhere.
Better == \A r \in Roots, f \in Files : Content(r, f)' = Content(r, f) \/ Content(r, f)' = "good"

\* What leaves names and bytes alone leaves every content.
LEMMA SameFiles == ASSUME UNCHANGED <<names, bytes>> PROVE Better
BY DEF Better, Content

\* The directory of the catalog stays whole while no content of it gets worse.
LEMMA RootKept ==
  ASSUME RootHolds, meta'.root = meta.root, meta'.have \cup landed' \subseteq meta.have \cup landed,
         \A r \in Roots, f \in Files : \/ Content(r, f)' = Content(r, f) \/ Content(r, f)' = "good"
                                       \/ r # meta.root /\ Content(r, f)' # "zero"
  PROVE  RootHolds'
BY DEF RootHolds

\* What a mover relies on stays true while no content gets worse.
LEMMA MoverKept ==
  ASSUME Better, NEW m \in MoverRecs, GoodMover(m), MoverHolds(m), meta'.root = meta.root,
         Complete(meta.have) => Complete(meta'.have)
  PROVE  MoverHolds(m)'
<1>1. m.pc \in InMove => m.from \in Roots /\ m.to \in Roots
  BY DEF GoodMover
<1>2. \A f \in Files : Content(m.to, f) = "good" /\ m.pc \in InMove => Content(m.to, f)' = "good"
  BY <1>1 DEF Better
<1>3. \A f \in Files : Content(m.from, f) = "good" /\ m.pc \in InMove => Content(m.from, f)' = "good"
  BY <1>1 DEF Better
<1>4. \A f \in Files : Content(m.to, f) # "none" /\ m.pc \in InMove => Content(m.to, f)' # "none"
  BY <1>1 DEF Better
<1>5. QED
  BY <1>2, <1>3, <1>4 DEF MoverHolds, InMove

\* A mover at rest relies on nothing.
LEMMA AtRest ==
  ASSUME NEW m, m.pc \in {"idle", "boot"}
  PROVE  MoverHolds(m) /\ MoverHolds(m)'
BY DEF MoverHolds, InMove

\* The movers, when only their surroundings change.
LEMMA MoversKept ==
  ASSUME Better, MoversOK, MoversHold, UNCHANGED mover, meta'.root = meta.root,
         Complete(meta.have) => Complete(meta'.have)
  PROVE  MoversHold'
<1> SUFFICES ASSUME NEW w \in Movers, NEW m \in MoverRecs, m = mover'[w] PROVE MoverHolds(m)'
  BY DEF MoversHold
<1>1. MoverHolds(m) /\ GoodMover(m)
  BY DEF MoversHold, MoversOK
<1>2. QED
  BY <1>1, MoverKept

\* The same, when one goes to another place.
LEMMA MoverMoved ==
  ASSUME Better, MoversOK, MoversHold, NEW w \in Movers, NEW x \in MoverRecs, GoodMover(x), SetMover(w, x),
         MoverHolds(x)', meta'.root = meta.root, Complete(meta.have) => Complete(meta'.have)
  PROVE  MoversHold'
<1> SUFFICES ASSUME NEW v \in Movers, NEW m \in MoverRecs, m = mover'[v] PROVE MoverHolds(m)'
  BY DEF MoversHold
<1>1. CASE v = w
  BY <1>1, MoverSet
<1>2. CASE v # w
  <2>1. m = mover[v] /\ MoverHolds(m) /\ GoodMover(m)
    BY <1>2, MoverSet DEF MoversHold, MoversOK
  <2>2. QED
    BY <2>1, MoverKept
<1>3. QED
  BY <1>1, <1>2

\* The same, when the other is at rest.
LEMMA MoverAlone ==
  ASSUME MoversOK, NEW w \in Movers, NEW x \in MoverRecs, GoodMover(x), SetMover(w, x), MoverHolds(x)',
         \A v \in Movers : v # w => mover[v].pc \in {"idle", "boot"}
  PROVE  MoversHold'
<1> SUFFICES ASSUME NEW v \in Movers, NEW m \in MoverRecs, m = mover'[v] PROVE MoverHolds(m)'
  BY DEF MoversHold
<1>1. CASE v = w
  BY <1>1, MoverSet
<1>2. CASE v # w
  <2>1. m.pc \in {"idle", "boot"}
    BY <1>2, MoverSet
  <2>2. QED
    BY <2>1, AtRest
<1>3. QED
  BY <1>1, <1>2

\* Where one is under way the other is at rest.
LEMMA Alone ==
  ASSUME LoneMover, NEW w \in Movers, mover[w].pc \notin {"idle", "boot"}
  PROVE  \A v \in Movers : v # w => mover[v].pc \in {"idle", "boot"}
BY DEF LoneMover, Movers

\* The HotTorrent of a torrent whose movers are not at the switch.
LEMMA HotRoot ==
  ASSUME HotHolds, \A w \in Movers : mover[w].pc # "live"
  PROVE  hot.on => hot.root = meta.root
BY DEF HotHolds

\* A HotTorrent that is left alone, beside movers that stay at their switch.
LEMMA HotKept ==
  ASSUME HotHolds, UNCHANGED hot, meta'.root = meta.root, meta.have \cup landed \subseteq meta'.have \cup landed',
         \A w \in Movers : mover[w].pc = "live" => mover'[w].pc = "live" /\ mover'[w].from = mover[w].from
  PROVE  HotHolds'
BY DEF HotHolds

\* The catalog only gains pieces under an activation.
LEMMA StartsKept ==
  ASSUME StartsHold, UNCHANGED starter, meta.have \subseteq meta'.have
  PROVE  StartsHold'
BY DEF StartsHold

\* Jobs that end or stay, where no content gets worse.
LEMMA JobsKept ==
  ASSUME JobsHold, TorrentOK, Better, jobs' \subseteq jobs, meta'.root = meta.root,
         Complete(meta.have) => Complete(meta'.have)
  PROVE  JobsHold'
<1>1. \A j \in jobs : j.f \in Files
  BY DEF TorrentOK
<1>2. QED
  BY <1>1 DEF JobsHold, Better

\* A read that is left alone.
LEMMA ReadKept ==
  ASSUME ReadHolds, UNCHANGED <<read, hot>>
  PROVE  ReadHolds'
BY DEF ReadHolds

\* A complete torrent's catalog has all there is.
LEMMA CompleteIs ==
  ASSUME TorrentOK, Complete(meta.have)
  PROVE  meta.have \cup landed = Files
BY DEF TorrentOK, Complete

\* No readds come back, nor moves.
LEMMA Bounds ==
  ASSUME MoveShape, MoveNext, spare.readds = 0
  PROVE  spare'.readds = 0 /\ (spare.moves = 0 => spare'.moves = 0)
<1>1. spare \in SpareRecs /\ spare' \in SpareRecs
  BY RestStep DEF MoveShape, HandsOK, RestOK
<1>2. spare'["readds"] <= spare["readds"] /\ spare'["moves"] <= spare["moves"]
  BY RestStep
<1>3. QED
  BY <1>1, <1>2 DEF SpareRecs

\* Still one mover, when none begins.
LEMMA LoneKept ==
  ASSUME LoneMover, MoveShape, MoveNext, meta'.deleted = meta.deleted, meta'.home \in {meta.home, Nowhere},
         Complete(meta.have) => Complete(meta'.have),
         mover["ctl"].pc = "idle" => mover'["ctl"].pc = "idle",
         mover["tick"].pc \in {"boot", "idle"} => mover'["tick"].pc \in {"boot", "idle"},
         mover'["ctl"].pc \in {"root", "retarget"} => mover'["ctl"] = mover["ctl"]
  PROVE  LoneMover'
BY Bounds DEF LoneMover

\* What the steps below begin with.
LEMMA Parts ==
  ASSUME MoveShape
  PROVE  /\ FilesOK /\ TorrentOK /\ MoversOK /\ StartersOK
         /\ meta \in MetaRecs /\ hot \in HotRecs /\ landed \subseteq Files
BY HandsAre DEF MoveShape, TorrentOK

\* tick_loop at boot keeps MoveSound.
LEMMA TickBootsSound ==
  ASSUME MoveShape, MoveNext, MoveSound, TickBoots PROVE MoveSound'
<1>p. MoversOK /\ TorrentOK /\ LoneMover /\ RootHolds /\ MoversHold /\ HotHolds /\ StartsHold /\ JobsHold /\ ReadHolds
  BY Parts DEF MoveSound
<1>u. UNCHANGED <<names, bytes, meta, hot, landed, jobs, starter, read>> /\ Better
  BY SameFiles DEF TickBoots
<1>1. PICK m \in MoverRecs : m = mover["tick"] /\ m.pc = "boot"
  BY <1>p, MoverIs DEF TickBoots, Movers
<1>2. PICK pc \in {"home", "idle"} : Goes("tick", pc) /\ (pc = "home" => Resumes)
  BY DEF TickBoots
<1>3. MoversOK' /\ mover'["tick"] = [m EXCEPT !.pc = pc] /\ \A v \in Movers : v # "tick" => mover'[v] = mover[v]
  BY <1>p, <1>1, <1>2, MoverGoes DEF Movers, InMove
<1>4. [m EXCEPT !.pc = pc].pc = pc /\ [m EXCEPT !.pc = pc] \in MoverRecs
  BY DEF MoverRecs, InMove
<1>5. LoneMover'
  BY <1>p, <1>u, <1>1, <1>2, <1>3, <1>4, Bounds DEF LoneMover, Resumes, Movers
<1>6. GoodMover([m EXCEPT !.pc = pc])
  BY <1>3 DEF MoversOK, Movers
<1>7. MoverHolds([m EXCEPT !.pc = pc])'
  BY <1>2, <1>4, <1>u DEF MoverHolds, Resumes, InMove
<1>8. SetMover("tick", [m EXCEPT !.pc = pc])
  BY <1>1, <1>2 DEF Goes
<1>9. MoversHold'
  BY <1>p, <1>u, <1>4, <1>6, <1>7, <1>8, MoverMoved DEF Movers
<1>10. HotHolds'
  <2>1. \A w \in Movers : mover[w].pc = "live" => mover'[w] = mover[w]
    BY <1>1, <1>3
  <2>2. QED
    BY <1>p, <1>u, <2>1, HotKept
<1>11. RootHolds' /\ StartsHold' /\ JobsHold' /\ ReadHolds'
  BY <1>p, <1>u, RootKept, StartsKept, JobsKept, ReadKept DEF Better
<1>12. QED
  BY <1>5, <1>9, <1>10, <1>11 DEF MoveSound

\* The flush of the tick keeps MoveSound.
LEMMA TickFlushesSound ==
  ASSUME MoveShape, MoveNext, MoveSound, TickFlushes PROVE MoveSound'
<1>p. /\ MoversOK /\ TorrentOK /\ LoneMover /\ RootHolds /\ MoversHold /\ HotHolds /\ StartsHold /\ JobsHold /\ ReadHolds
      /\ meta \in MetaRecs /\ landed \subseteq Files
  BY Parts DEF MoveSound
<1>u. UNCHANGED <<names, bytes, hot, jobs, starter, read>> /\ Better
  BY SameFiles DEF TickFlushes
<1>1. PICK m \in MoverRecs : m = mover["tick"] /\ m.pc = "idle"
  BY <1>p, MoverIs DEF TickFlushes, Movers
<1>2. /\ meta'.have = meta.have \cup landed /\ landed' = {} /\ meta'.root = meta.root
      /\ meta'.home = meta.home /\ meta'.deleted = meta.deleted
  BY <1>p DEF TickFlushes, MetaRecs
<1>3. Complete(meta.have) => Complete(meta'.have)
  BY <1>p, <1>2, CompleteIs DEF Complete
<1>4. PICK pc \in {"home", "idle"} : Goes("tick", pc) /\ (pc = "home" => Complete(meta'.have) /\ ~Complete(meta.have))
  BY DEF TickFlushes
<1>5. MoversOK' /\ mover'["tick"] = [m EXCEPT !.pc = pc] /\ \A v \in Movers : v # "tick" => mover'[v] = mover[v]
  BY <1>p, <1>1, <1>4, MoverGoes DEF Movers, InMove
<1>6. [m EXCEPT !.pc = pc].pc = pc /\ [m EXCEPT !.pc = pc] \in MoverRecs
  BY DEF MoverRecs, InMove
<1>7. LoneMover'
  BY <1>p, <1>1, <1>2, <1>3, <1>4, <1>5, <1>6, Bounds DEF LoneMover, Movers
<1>8. MoverHolds([m EXCEPT !.pc = pc])'
  BY <1>4, <1>6 DEF MoverHolds, InMove
<1>9. GoodMover([m EXCEPT !.pc = pc])
  BY <1>5 DEF MoversOK, Movers
<1>10. SetMover("tick", [m EXCEPT !.pc = pc])
  BY <1>1, <1>4 DEF Goes
<1>11. MoversHold'
  BY <1>p, <1>u, <1>2, <1>3, <1>6, <1>8, <1>9, <1>10, MoverMoved DEF Movers
<1>12. HotHolds'
  <2>1. \A w \in Movers : mover[w].pc = "live" => mover'[w] = mover[w]
    BY <1>1, <1>5
  <2>2. QED
    BY <1>p, <1>u, <1>2, <2>1, HotKept
<1>13. RootHolds' /\ StartsHold' /\ JobsHold' /\ ReadHolds'
  BY <1>p, <1>u, <1>2, <1>3, RootKept, StartsKept, JobsKept, ReadKept DEF Better
<1>14. QED
  BY <1>7, <1>11, <1>12, <1>13 DEF MoveSound

\* The first step of a handoff keeps MoveSound.
LEMMA HandoffHomeSound ==
  ASSUME MoveShape, MoveNext, MoveSound, HandoffHome PROVE MoveSound'
<1>p. MoversOK /\ TorrentOK /\ LoneMover /\ RootHolds /\ MoversHold /\ HotHolds /\ StartsHold /\ JobsHold /\ ReadHolds
      /\ meta \in MetaRecs
  BY Parts DEF MoveSound
<1>u. UNCHANGED <<names, bytes, meta, hot, landed, jobs, starter, read>> /\ Better
  BY SameFiles DEF HandoffHome
<1>1. PICK m \in MoverRecs : m = mover["tick"] /\ m.pc = "home"
  BY <1>p, MoverIs DEF HandoffHome, Movers
<1>2. Complete(meta.have)
  BY <1>p, <1>1 DEF MoversHold, MoverHolds, Movers
<1>3. PICK x \in MoverRecs : GoodMover(x) /\ SetMover("tick", x) /\ x.pc \in {"idle", "root"}
  <2>1. CASE meta.home = Nowhere
    BY <2>1, NoMoveIs DEF HandoffHome, GoodMover
  <2>2. CASE meta.home # Nowhere
    <3>1. GoodMover([NoMove EXCEPT !.pc = "root", !.to = meta.home])
          /\ [NoMove EXCEPT !.pc = "root", !.to = meta.home].pc = "root"
      BY <1>p, <2>2 DEF GoodMover, NoMove, MoverRecs, InMove, MetaRecs
    <3>2. QED
      BY <2>2, <3>1 DEF HandoffHome, GoodMover
  <2>3. QED
    BY <2>1, <2>2
<1>4. mover'["tick"] = x /\ \A v \in Movers : v # "tick" => mover'[v] = mover[v]
  BY <1>p, <1>3, MoverSet DEF Movers
<1>5. LoneMover'
  BY <1>p, <1>u, <1>1, <1>3, <1>4, LoneKept DEF Movers
<1>6. MoverHolds(x)'
  BY <1>2, <1>3, <1>u DEF MoverHolds, InMove
<1>7. MoversHold'
  BY <1>p, <1>u, <1>3, <1>6, MoverMoved DEF Movers
<1>8. HotHolds'
  <2>1. \A w \in Movers : mover[w].pc = "live" => mover'[w] = mover[w]
    BY <1>1, <1>4
  <2>2. QED
    BY <1>p, <1>u, <2>1, HotKept
<1>9. RootHolds' /\ StartsHold' /\ JobsHold' /\ ReadHolds'
  BY <1>p, <1>u, RootKept, StartsKept, JobsKept, ReadKept DEF Better
<1>10. QED
  BY <1>5, <1>7, <1>8, <1>9 DEF MoveSound

\* The second step of a handoff keeps MoveSound: it leaves from the directory of the catalog.
LEMMA HandoffRootSound ==
  ASSUME MoveShape, MoveNext, MoveSound, HandoffRoot PROVE MoveSound'
<1>p. MoversOK /\ TorrentOK /\ LoneMover /\ RootHolds /\ MoversHold /\ HotHolds /\ StartsHold /\ JobsHold /\ ReadHolds
      /\ meta \in MetaRecs
  BY Parts DEF MoveSound
<1>u. UNCHANGED <<names, bytes, hot, landed, jobs, starter, read>> /\ Better
  BY SameFiles DEF HandoffRoot
<1>1. PICK m \in MoverRecs : m = mover["tick"] /\ m.pc = "root" /\ GoodMover(m)
  BY <1>p, MoverIs DEF HandoffRoot, Movers
<1>2. /\ meta'.root = meta.root /\ meta'.have = meta.have /\ meta'.home \in {meta.home, Nowhere}
      /\ meta'.deleted = meta.deleted
  BY <1>p DEF HandoffRoot, MetaRecs
<1>3. Complete(meta.have)
  BY <1>p, <1>1 DEF MoversHold, MoverHolds, Movers
<1>4. \A v \in Movers : v # "tick" => mover[v].pc \in {"idle", "boot"}
  BY <1>p, <1>1, Alone DEF Movers
<1>5. LiveRoot = meta.root
  <2>1. \A w \in Movers : mover[w].pc # "live"
    BY <1>1, <1>4
  <2>2. QED
    BY <1>p, <2>1, HotRoot DEF LiveRoot
<1>6. PICK x \in MoverRecs : GoodMover(x) /\ SetMover("tick", x) /\ MoverHolds(x)' /\ x.pc \in {"idle", "publish"}
  <2>1. CASE SetMover("tick", NoMove)
    BY <2>1, NoMoveIs, AtRest DEF GoodMover
  <2>2. CASE LiveRoot # m.to /\ SetMover("tick", [m EXCEPT !.pc = "publish", !.from = LiveRoot, !.left = Files, !.clear = TRUE])
    <3>1. PICK r \in Roots : r = meta.root
      BY <1>p DEF MetaRecs
    <3>2. PICK x \in MoverRecs : x = [m EXCEPT !.pc = "publish", !.from = r, !.left = Files, !.clear = TRUE]
      BY <1>1, <3>1 DEF MoverRecs, InMove
    <3>3. x.pc = "publish" /\ x.from = r /\ x.left = Files /\ x.to = m.to
      BY <3>2 DEF MoverRecs
    <3>4. GoodMover(x)
      BY <1>1, <3>3 DEF GoodMover, InMove
    <3>5. MoverHolds(x)'
      BY <1>2, <1>3, <1>5, <2>2, <3>1, <3>3 DEF MoverHolds, InMove
    <3>6. QED
      BY <1>5, <2>2, <3>1, <3>2, <3>3, <3>4, <3>5
  <2>3. QED
    BY <1>1, <2>1, <2>2 DEF HandoffRoot
<1>7. mover'["tick"] = x /\ \A v \in Movers : v # "tick" => mover'[v] = mover[v]
  BY <1>p, <1>6, MoverSet DEF Movers
<1>8. LoneMover'
  BY <1>p, <1>1, <1>2, <1>6, <1>7, LoneKept DEF Movers
<1>9. MoversHold'
  BY <1>p, <1>u, <1>2, <1>6, MoverMoved DEF Movers
<1>10. HotHolds'
  <2>1. \A w \in Movers : mover[w].pc = "live" => mover'[w] = mover[w]
    BY <1>1, <1>7
  <2>2. QED
    BY <1>p, <1>u, <1>2, <2>1, HotKept
<1>11. RootHolds' /\ StartsHold' /\ JobsHold' /\ ReadHolds'
  BY <1>p, <1>u, <1>2, RootKept, StartsKept, JobsKept, ReadKept DEF Better
<1>12. QED
  BY <1>8, <1>9, <1>10, <1>11 DEF MoveSound

\* A relocate begins, and only where no handoff can be due.
LEMMA RelocateHomeSound ==
  ASSUME MoveShape, MoveNext, MoveSound, NEW r \in Roots, RelocateHome(r) PROVE MoveSound'
<1>p. MoversOK /\ TorrentOK /\ LoneMover /\ RootHolds /\ MoversHold /\ HotHolds /\ StartsHold /\ JobsHold /\ ReadHolds
      /\ meta \in MetaRecs /\ spare \in SpareRecs
  BY Parts DEF MoveSound, MoveShape, HandsOK
<1>u. UNCHANGED <<names, bytes, meta, hot, landed, jobs, starter, read>> /\ Better
  BY SameFiles DEF RelocateHome
<1>1. mover["ctl"].pc = "idle" /\ spare.moves > 0
  BY DEF RelocateHome, CtlFree, Uses
<1>2. meta.home = Nowhere /\ Complete(meta.have) /\ mover["tick"].pc \in {"boot", "idle"}
  BY <1>p, <1>1 DEF LoneMover, SpareRecs
<1>3. PICK x \in MoverRecs : x = [NoMove EXCEPT !.pc = "root", !.from = meta.home, !.to = r]
  BY <1>2 DEF NoMove, MoverRecs, InMove
<1>4. x.pc = "root" /\ x.from = Nowhere /\ x.to = r
  BY <1>2, <1>3 DEF NoMove
<1>5. GoodMover(x) /\ SetMover("ctl", x)
  BY <1>3, <1>4 DEF GoodMover, InMove, RelocateHome
<1>6. mover'["ctl"] = x /\ \A v \in Movers : v # "ctl" => mover'[v] = mover[v]
  BY <1>p, <1>5, MoverSet DEF Movers
<1>7. LoneMover'
  BY <1>p, <1>u, <1>2, <1>4, <1>6, Bounds DEF LoneMover, Movers
<1>8. MoverHolds(x)'
  BY <1>2, <1>4, <1>u DEF MoverHolds, InMove
<1>9. MoversHold'
  BY <1>p, <1>u, <1>5, <1>8, MoverMoved DEF Movers
<1>10. HotHolds'
  <2>1. \A w \in Movers : mover[w].pc = "live" => mover'[w] = mover[w]
    BY <1>1, <1>6
  <2>2. QED
    BY <1>p, <1>u, <2>1, HotKept
<1>11. RootHolds' /\ StartsHold' /\ JobsHold' /\ ReadHolds'
  BY <1>p, <1>u, RootKept, StartsKept, JobsKept, ReadKept DEF Better
<1>12. QED
  BY <1>7, <1>9, <1>10, <1>11 DEF MoveSound

\* A relocate that changes no more than its own record.
LEMMA RelocateOnly ==
  ASSUME MoveShape, MoveNext, MoveSound, UNCHANGED <<names, bytes, meta, hot, landed, jobs, starter, read>>,
         mover["ctl"].pc \in {"root", "choose", "cold"},
         NEW x \in MoverRecs, GoodMover(x), SetMover("ctl", x), MoverHolds(x)', x.pc \notin {"root", "retarget"}
  PROVE  MoveSound'
<1>p. MoversOK /\ TorrentOK /\ LoneMover /\ RootHolds /\ MoversHold /\ HotHolds /\ StartsHold /\ JobsHold /\ ReadHolds
  BY Parts DEF MoveSound
<1>b. Better
  BY SameFiles
<1>1. mover'["ctl"] = x /\ \A v \in Movers : v # "ctl" => mover'[v] = mover[v]
  BY <1>p, MoverSet DEF Movers
<1>2. LoneMover'
  BY <1>p, <1>1, LoneKept DEF Movers
<1>3. MoversHold'
  BY <1>p, <1>b, MoverMoved DEF Movers
<1>4. HotHolds'
  <2>1. \A w \in Movers : mover[w].pc = "live" => mover'[w] = mover[w]
    BY <1>1
  <2>2. QED
    BY <1>p, <2>1, HotKept
<1>5. RootHolds' /\ StartsHold' /\ JobsHold' /\ ReadHolds'
  BY <1>p, <1>b, RootKept, StartsKept, JobsKept, ReadKept DEF Better
<1>6. QED
  BY <1>2, <1>3, <1>4, <1>5 DEF MoveSound

\* A relocate goes on from the directory of the catalog.
LEMMA RelocatesSound ==
  ASSUME MoveShape, MoveNext, MoveSound, Relocates PROVE MoveSound'
<1>p. MoversOK /\ LoneMover /\ MoversHold /\ HotHolds /\ meta \in MetaRecs
  BY Parts DEF MoveSound
<1>1. PICK m \in MoverRecs : m = mover["ctl"] /\ GoodMover(m) /\ MoverHolds(m)
  BY <1>p, MoverIs DEF MoversHold, Movers
<1>2. m.pc \in {"root", "retarget", "choose", "cold"}
  BY <1>1 DEF Relocates, RelocateRoot, RelocateRetargets, RelocateChooses, RelocateLocks
<1>3. m.pc # "retarget" /\ m.pc \in {"root", "choose", "cold"} /\ (m.pc = "root" => m.from = Nowhere)
  BY <1>p, <1>1, <1>2 DEF LoneMover
<1>u. UNCHANGED <<names, bytes, meta, hot, landed, jobs, starter, read>>
  BY <1>1, <1>3 DEF Relocates, RelocateRoot, RelocateRetargets, RelocateChooses, RelocateLocks
<1>4. m.to \in Roots /\ Complete(meta.have)
  BY <1>1, <1>3 DEF GoodMover, MoverHolds
<1>5. LiveRoot = meta.root
  <2>1. \A w \in Movers : mover[w].pc # "live"
    BY <1>p, <1>1, <1>3, Alone DEF Movers
  <2>2. QED
    BY <1>p, <2>1, HotRoot DEF LiveRoot
<1>6. PICK r \in Roots : r = meta.root
  BY <1>p DEF MetaRecs
<1>7. ASSUME SetMover("ctl", NoMove) PROVE MoveSound'
  <2>1. GoodMover(NoMove) /\ NoMove \in MoverRecs /\ NoMove.pc = "idle" /\ MoverHolds(NoMove)'
    BY NoMoveIs, AtRest DEF GoodMover
  <2>2. QED
    BY <1>u, <1>1, <1>3, <1>7, <2>1, RelocateOnly
<1>8. ASSUME NEW x \in MoverRecs, SetMover("ctl", x), x.pc \in {"choose", "cold", "publish"}, x.to = m.to,
             x.from = r \/ x.pc = "cold", r # m.to \/ x.pc = "cold", x.pc = "publish" => x.left = Files
      PROVE  MoveSound'
  <2>1. GoodMover(x)
    BY <1>4, <1>8 DEF GoodMover, InMove
  <2>2. MoverHolds(x)'
    BY <1>u, <1>4, <1>6, <1>8 DEF MoverHolds, InMove
  <2>3. QED
    BY <1>u, <1>1, <1>3, <1>8, <2>1, <2>2, RelocateOnly
<1>9. CASE RelocateRoot
  <2>1. m.from = Nowhere
    BY <1>1, <1>3, <1>9 DEF RelocateRoot
  <2>2. \/ SetMover("ctl", NoMove)
        \/ r # m.to /\ SetMover("ctl", [m EXCEPT !.pc = "choose", !.from = r])
    BY <1>1, <1>5, <1>6, <1>9, <2>1 DEF RelocateRoot
  <2>3. PICK x \in MoverRecs : x = [m EXCEPT !.pc = "choose", !.from = r]
    BY DEF MoverRecs
  <2>4. x.pc = "choose" /\ x.from = r /\ x.to = m.to
    BY <2>3 DEF MoverRecs
  <2>5. QED
    BY <1>7, <1>8, <2>2, <2>3, <2>4
<1>10. CASE RelocateChooses
  <2>1. m.from = r /\ r # m.to
    BY <1>1, <1>6, <1>10 DEF RelocateChooses, MoverHolds
  <2>2. \/ SetMover("ctl", [m EXCEPT !.pc = "publish", !.left = Files])
        \/ SetMover("ctl", [m EXCEPT !.pc = "cold"])
    BY <1>1, <1>10 DEF RelocateChooses
  <2>3. PICK x \in MoverRecs : x = [m EXCEPT !.pc = "publish", !.left = Files]
    BY DEF MoverRecs, InMove
  <2>4. x.pc = "publish" /\ x.from = m.from /\ x.to = m.to /\ x.left = Files
    BY <2>3 DEF MoverRecs
  <2>5. PICK y \in MoverRecs : y = [m EXCEPT !.pc = "cold"]
    BY DEF MoverRecs
  <2>6. y.pc = "cold" /\ y.to = m.to
    BY <2>5 DEF MoverRecs
  <2>7. QED
    BY <1>8, <2>1, <2>2, <2>3, <2>4, <2>5, <2>6
<1>11. CASE RelocateLocks
  <2>1. \/ SetMover("ctl", NoMove)
        \/ r # m.to /\ SetMover("ctl", [m EXCEPT !.pc = "publish", !.from = r, !.left = Files, !.locked = TRUE])
    BY <1>1, <1>6, <1>11 DEF RelocateLocks
  <2>2. PICK x \in MoverRecs : x = [m EXCEPT !.pc = "publish", !.from = r, !.left = Files, !.locked = TRUE]
    BY DEF MoverRecs, InMove
  <2>3. x.pc = "publish" /\ x.from = r /\ x.to = m.to /\ x.left = Files
    BY <2>2 DEF MoverRecs
  <2>4. QED
    BY <1>7, <1>8, <2>1, <2>2, <2>3
<1>12. QED
  BY <1>1, <1>3, <1>9, <1>10, <1>11 DEF Relocates, RelocateRetargets

\* What publishing, copying and removing names do to the other parts: the
\* torrent is as it was, and one mover goes on or rests.
LEMMA MoverOnly ==
  ASSUME MoveShape, MoveNext, MoveSound, NEW w \in Movers, mover[w].pc \in InMove,
         UNCHANGED <<meta, hot, landed, jobs, starter, read>>,
         NEW x \in MoverRecs, GoodMover(x), SetMover(w, x), x.pc \in InMove \cup {"idle"},
         MoverHolds(x)', mover[w].pc # "live",
         \A r \in Roots, f \in Files : \/ Content(r, f)' = Content(r, f) \/ Content(r, f)' = "good"
                                       \/ r # meta.root /\ Content(r, f)' # "zero"
  PROVE  MoveSound'
<1>p. /\ MoversOK /\ TorrentOK /\ LoneMover /\ RootHolds /\ MoversHold /\ HotHolds /\ StartsHold /\ JobsHold /\ ReadHolds
      /\ meta \in MetaRecs
  BY Parts DEF MoveSound
<1>1. mover'[w] = x /\ \A v \in Movers : v # w => mover'[v] = mover[v]
  BY <1>p, MoverSet
<1>2. \A v \in Movers : v # w => mover[v].pc \in {"idle", "boot"}
  BY <1>p, Alone DEF InMove
<1>3. LoneMover'
  BY <1>p, <1>1, LoneKept DEF Movers, InMove
<1>4. MoversHold'
  BY <1>p, <1>2, MoverAlone
<1>5. HotHolds'
  <2>1. \A v \in Movers : mover[v].pc = "live" => mover'[v] = mover[v]
    BY <1>1
  <2>2. QED
    BY <1>p, <2>1, HotKept
<1>6. RootHolds' /\ StartsHold' /\ ReadHolds'
  BY <1>p, RootKept, StartsKept, ReadKept
<1>7. JobsHold'
  <2>1. \A j \in jobs : j.f \in Files
    BY <1>p DEF TorrentOK
  <2>2. \A r \in Roots, f \in Files : r = meta.root /\ Content(r, f) = "good" => Content(r, f)' = "good"
    OBVIOUS
  <2>3. QED
    BY <1>p, <2>1, <2>2 DEF JobsHold
<1>8. QED
  BY <1>3, <1>4, <1>5, <1>6, <1>7 DEF MoveSound

\* One file published, by a link or into a copy.
LEMMA PublishSound ==
  ASSUME MoveShape, MoveNext, MoveSound, NEW w \in Movers, Publish(w) PROVE MoveSound'
<1>p. FilesOK /\ MoversOK /\ TorrentOK /\ RootHolds /\ MoversHold /\ meta \in MetaRecs
  BY Parts DEF MoveSound
<1>1. PICK m \in MoverRecs : m = mover[w] /\ m.pc = "publish" /\ GoodMover(m) /\ MoverHolds(m)
  BY <1>p, MoverIs DEF Publish, MoversHold
<1>2. m.left # {} /\ m.left \subseteq Files /\ m.to \in Roots /\ m.from \in Roots
  BY <1>1 DEF Publish, GoodMover, MoverRecs, InMove
<1>3. PICK f \in Files : f = First(m.left) /\ f \in m.left
  BY <1>2, FirstIs
<1>4. /\ m.from = meta.root /\ m.from # m.to /\ Complete(meta.have)
      /\ \A g \in Files \ m.left : Content(m.to, g) = "good"
  BY <1>1 DEF MoverHolds, InMove
<1>5. PICK i \in Inodes : i = FreeInode(f) /\ \A r \in Roots : names[r][f] # i
  BY <1>p, FreeIs
<1>6. Content(m.from, f) = "good" /\ names[m.from][f] # 0
  <2>1. Content(m.from, f) = "good"
    BY <1>2, <1>3, <1>4, <1>p DEF RootHolds, Complete
  <2>2. QED
    BY <2>1 DEF Content
<1>u. UNCHANGED <<meta, hot, landed, jobs, starter, read>>
  BY DEF Publish
\* The file is there from now on, by its name or by a link.
<1>7. ASSUME NEW x, x = [m EXCEPT !.left = m.left \ {f}], SetMover(w, x), Better, Content(m.to, f)' = "good"
      PROVE  MoveSound'
  <2>1. x \in MoverRecs /\ x.pc = "publish" /\ x.left = m.left \ {f} /\ x.to = m.to /\ x.from = m.from
    BY <1>1, <1>7 DEF MoverRecs
  <2>2. GoodMover(x)
    BY <1>1, <1>2, <2>1 DEF GoodMover
  <2>3. \A g \in Files \ x.left : Content(m.to, g)' = "good"
    BY <1>2, <1>4, <1>7, <2>1 DEF Better
  <2>4. MoverHolds(x)'
    BY <1>4, <1>u, <2>1, <2>3 DEF MoverHolds, InMove
  <2>5. QED
    BY <1>1, <1>7, <1>u, <2>1, <2>2, <2>4, MoverOnly DEF Better, InMove
<1>8. CASE IsPublished(m, f)
  <2>1. UNCHANGED <<names, bytes>> /\ SetMover(w, [m EXCEPT !.left = m.left \ {f}])
    BY <1>1, <1>3, <1>6, <1>8 DEF Publish
  <2>2. Content(m.to, f)' = "good"
    BY <1>6, <1>8, <2>1 DEF Content, IsPublished
  <2>3. QED
    BY <1>7, <2>1, <2>2, SameFiles
<1>9. CASE ~IsPublished(m, f) /\ links
  <2>1. /\ names' = [names EXCEPT ![m.to][f] = names[m.from][f]] /\ bytes' = bytes
        /\ SetMover(w, [m EXCEPT !.left = m.left \ {f}])
    BY <1>1, <1>3, <1>6, <1>9 DEF Publish
  <2>2. \A r \in Roots, g \in Files : names'[r][g] = IF r = m.to /\ g = f THEN names[m.from][f] ELSE names[r][g]
    BY <1>p, <1>2, <2>1 DEF FilesOK
  <2>3. Content(m.to, f)' = "good"
    BY <1>2, <1>6, <2>1, <2>2 DEF Content
  <2>4. Better
    BY <2>1, <2>2, <2>3 DEF Better, Content
  <2>5. QED
    BY <1>7, <2>1, <2>3, <2>4
<1>10. CASE ~IsPublished(m, f) /\ ~links
  <2>1. /\ names' = [names EXCEPT ![m.to][f] = i] /\ bytes' = [bytes EXCEPT ![f][i] = "short"]
        /\ SetMover(w, [m EXCEPT !.pc = "copy"])
    BY <1>1, <1>3, <1>5, <1>6, <1>10 DEF Publish
  <2>2. \A r \in Roots, g \in Files : names'[r][g] = IF r = m.to /\ g = f THEN i ELSE names[r][g]
    BY <1>p, <1>2, <2>1 DEF FilesOK
  <2>3. \A g \in Files, k \in Inodes : bytes'[g][k] = IF g = f /\ k = i THEN "short" ELSE bytes[g][k]
    BY <1>p, <2>1 DEF FilesOK
  <2>4. i # 0
    BY InodesAre
  <2>5. Content(m.to, f)' = "short"
    BY <1>2, <2>2, <2>3, <2>4 DEF Content
  <2>6. \A r \in Roots, g \in Files : r # m.to \/ g # f => Content(r, g)' = Content(r, g)
    <3>1. SUFFICES ASSUME NEW r \in Roots, NEW g \in Files, r # m.to \/ g # f PROVE Content(r, g)' = Content(r, g)
      OBVIOUS
    <3>2. names'[r][g] = names[r][g] /\ names[r][g] \in {0} \cup Inodes
      BY <1>p, <2>2, <3>1 DEF FilesOK
    <3>3. names[r][g] # 0 => bytes'[g][names[r][g]] = bytes[g][names[r][g]]
      BY <1>5, <2>3, <3>2
    <3>4. QED
      BY <3>2, <3>3 DEF Content
  <2>7. PICK x \in MoverRecs : x = [m EXCEPT !.pc = "copy"]
    BY DEF MoverRecs, InMove
  <2>8. x.pc = "copy" /\ x.left = m.left /\ x.to = m.to /\ x.from = m.from
    BY <2>7 DEF MoverRecs
  <2>9. GoodMover(x)
    BY <1>2, <2>8 DEF GoodMover
  <2>10. \A g \in Files \ x.left : Content(m.to, g)' = "good"
    BY <1>2, <1>3, <1>4, <2>6, <2>8
  <2>11. MoverHolds(x)'
    BY <1>2, <1>3, <1>4, <1>u, <2>5, <2>8, <2>10 DEF MoverHolds, InMove
  <2>12. \A r \in Roots, g \in Files : Content(r, g)' = Content(r, g) \/ (r # meta.root /\ Content(r, g)' # "zero")
    BY <1>4, <2>5, <2>6
  <2>13. SetMover(w, x)
    BY <2>1, <2>7
  <2>14. QED
    BY <1>1, <1>u, <2>8, <2>9, <2>11, <2>12, <2>13, MoverOnly DEF InMove
<1>11. QED
  BY <1>8, <1>9, <1>10

\* One copy finished.
LEMMA CopyEndsSound ==
  ASSUME MoveShape, MoveNext, MoveSound, NEW w \in Movers, CopyEnds(w) PROVE MoveSound'
<1>p. FilesOK /\ MoversOK /\ TorrentOK /\ RootHolds /\ MoversHold /\ meta \in MetaRecs
  BY Parts DEF MoveSound
<1>1. PICK m \in MoverRecs : m = mover[w] /\ m.pc = "copy" /\ GoodMover(m) /\ MoverHolds(m)
  BY <1>p, MoverIs DEF CopyEnds, MoversHold
<1>2. m.left # {} /\ m.left \subseteq Files /\ m.to \in Roots /\ m.from \in Roots
  BY <1>1 DEF MoverHolds, GoodMover, MoverRecs, InMove
<1>3. PICK f \in Files : f = First(m.left) /\ f \in m.left
  BY <1>2, FirstIs
<1>4. /\ m.from = meta.root /\ m.from # m.to /\ Complete(meta.have)
      /\ \A g \in Files \ m.left : Content(m.to, g) = "good"
      /\ Content(m.to, f) # "none"
  BY <1>1, <1>3 DEF MoverHolds, InMove
<1>5. Content(m.from, f) = "good"
  BY <1>2, <1>3, <1>4, <1>p DEF RootHolds, Complete
<1>6. PICK i \in Inodes : i = names[m.to][f]
  BY <1>2, <1>4, <1>p, ContentIs
<1>u. UNCHANGED <<meta, hot, landed, jobs, starter, read>>
  BY DEF CopyEnds
<1>7. i # 0
  BY InodesAre
<1>8. /\ bytes' = [bytes EXCEPT ![f][i] = "good"] /\ names' = names
      /\ SetMover(w, [m EXCEPT !.pc = "publish", !.left = m.left \ {f}])
  BY <1>1, <1>3, <1>5, <1>6, <1>7 DEF CopyEnds
<1>9. \A g \in Files, k \in Inodes : bytes'[g][k] = IF g = f /\ k = i THEN "good" ELSE bytes[g][k]
  BY <1>p, <1>8 DEF FilesOK
<1>10. Content(m.to, f)' = "good"
  BY <1>6, <1>7, <1>8, <1>9 DEF Content
<1>11. Better
  <2>1. \A r \in Roots, g \in Files : names[r][g] \in {0} \cup Inodes
    BY <1>p DEF FilesOK
  <2>2. QED
    BY <1>8, <1>9, <2>1 DEF Better, Content
<1>12. PICK x \in MoverRecs : x = [m EXCEPT !.pc = "publish", !.left = m.left \ {f}]
  BY DEF MoverRecs, InMove
<1>13. x.pc = "publish" /\ x.left = m.left \ {f} /\ x.to = m.to /\ x.from = m.from
  BY <1>12 DEF MoverRecs
<1>14. GoodMover(x)
  BY <1>2, <1>13 DEF GoodMover
<1>15. \A g \in Files \ x.left : Content(m.to, g)' = "good"
  BY <1>2, <1>4, <1>10, <1>11, <1>13 DEF Better
<1>16. MoverHolds(x)'
  BY <1>4, <1>u, <1>13, <1>15 DEF MoverHolds, InMove
<1>17. SetMover(w, x)
  BY <1>8, <1>12
<1>18. QED
  BY <1>1, <1>u, <1>11, <1>13, <1>14, <1>16, <1>17, MoverOnly DEF Better, InMove

\* A move that fails before the catalog is written.
LEMMA PublishFailsSound ==
  ASSUME MoveShape, MoveNext, MoveSound, NEW w \in Movers, PublishFails(w) PROVE MoveSound'
<1>1. /\ UNCHANGED <<names, bytes, meta, hot, landed, jobs, starter, read>> /\ Better
      /\ mover[w].pc \in {"publish", "copy"} /\ SetMover(w, NoMove)
  BY SameFiles DEF PublishFails
<1>2. GoodMover(NoMove) /\ NoMove \in MoverRecs /\ NoMove.pc = "idle" /\ MoverHolds(NoMove)'
  BY NoMoveIs, AtRest DEF GoodMover
<1>3. QED
  BY <1>1, <1>2, MoverOnly DEF Better, InMove

\* Names removed where the catalog does not point any more.
LEMMA UnpublishSound ==
  ASSUME MoveShape, MoveNext, MoveSound, NEW w \in Movers, Unpublish(w) \/ UnpublishEnds(w) PROVE MoveSound'
<1>p. FilesOK /\ MoversOK /\ TorrentOK /\ RootHolds /\ MoversHold /\ meta \in MetaRecs
  BY Parts DEF MoveSound
<1>1. PICK m \in MoverRecs : m = mover[w] /\ m.pc = "unpublish" /\ GoodMover(m) /\ MoverHolds(m)
  BY <1>p, MoverIs DEF Unpublish, UnpublishEnds, MoversHold
<1>2. m.to \in Roots /\ m.from \in Roots /\ m.from # m.to /\ m.to = meta.root /\ Complete(meta.have)
  BY <1>1 DEF MoverHolds, GoodMover, InMove
<1>3. PICK f : f = First(m.left)
  OBVIOUS
<1>u. UNCHANGED <<bytes, meta, hot, landed, jobs, starter, read>>
  BY DEF Unpublish, UnpublishEnds
<1>4. \/ names' = names \/ names' = [names EXCEPT ![m.from][f] = 0]
      \/ names' = [names EXCEPT ![m.from] = [g \in Files |-> 0]]
  BY <1>1, <1>3 DEF Unpublish, UnpublishEnds
<1>5. \A r \in Roots, g \in Files : names'[r][g] = names[r][g] \/ (r = m.from /\ names'[r][g] = 0)
  <2>1. CASE names' = [names EXCEPT ![m.from][f] = 0]
    BY <1>p, <1>2, <2>1 DEF FilesOK
  <2>2. CASE names' = [names EXCEPT ![m.from] = [g \in Files |-> 0]]
    BY <1>p, <1>2, <2>2 DEF FilesOK
  <2>3. QED
    BY <1>4, <2>1, <2>2
<1>6. \A r \in Roots, g \in Files : Content(r, g)' = Content(r, g) \/ (r # meta.root /\ Content(r, g)' # "zero")
  BY <1>2, <1>5, <1>u DEF Content
<1>7. PICK x \in MoverRecs : GoodMover(x) /\ SetMover(w, x) /\ MoverHolds(x)' /\ x.pc \in {"idle", "unpublish", "clear"}
  <2>1. CASE SetMover(w, NoMove)
    BY <2>1, NoMoveIs, AtRest DEF GoodMover
  <2>2. ASSUME NEW x \in MoverRecs, SetMover(w, x), x.pc \in {"unpublish", "clear"}, x.from = m.from, x.to = m.to
        PROVE  GoodMover(x) /\ MoverHolds(x)'
    BY <1>2, <1>u, <2>2 DEF GoodMover, MoverHolds, InMove
  <2>3. CASE SetMover(w, [m EXCEPT !.pc = "clear"])
    <3>1. [m EXCEPT !.pc = "clear"] \in MoverRecs /\ [m EXCEPT !.pc = "clear"].pc = "clear"
          /\ [m EXCEPT !.pc = "clear"].from = m.from /\ [m EXCEPT !.pc = "clear"].to = m.to
      BY DEF MoverRecs, InMove
    <3>2. QED
      BY <2>2, <2>3, <3>1
  <2>4. CASE SetMover(w, [m EXCEPT !.left = m.left \ {f}])
    <3>1. [m EXCEPT !.left = m.left \ {f}] \in MoverRecs /\ [m EXCEPT !.left = m.left \ {f}].pc = m.pc
          /\ [m EXCEPT !.left = m.left \ {f}].from = m.from /\ [m EXCEPT !.left = m.left \ {f}].to = m.to
      BY DEF MoverRecs
    <3>2. QED
      BY <1>1, <2>2, <2>4, <3>1
  <2>5. QED
    BY <1>1, <1>3, <2>1, <2>3, <2>4 DEF Unpublish, UnpublishEnds
<1>8. QED
  BY <1>1, <1>6, <1>7, <1>u, MoverOnly DEF InMove

\* The catalog follows a move whose files are all there.
LEMMA SwitchRowSound ==
  ASSUME MoveShape, MoveNext, MoveSound, NEW w \in Movers, SwitchRow(w), ~raced' PROVE MoveSound'
<1>p. /\ FilesOK /\ MoversOK /\ TorrentOK /\ LoneMover /\ RootHolds /\ MoversHold /\ HotHolds /\ StartsHold
      /\ JobsHold /\ ReadHolds /\ meta \in MetaRecs
  BY Parts DEF MoveSound
<1>1. PICK m \in MoverRecs : m = mover[w] /\ m.pc = "publish" /\ m.left = {} /\ GoodMover(m) /\ MoverHolds(m)
  BY <1>p, MoverIs DEF SwitchRow, MoversHold
<1>2. /\ m.to \in Roots /\ m.from \in Roots /\ m.from = meta.root /\ m.from # m.to /\ Complete(meta.have)
      /\ \A g \in Files : Content(m.to, g) = "good"
  BY <1>1 DEF MoverHolds, GoodMover, InMove
<1>u. UNCHANGED <<names, bytes, hot, landed, jobs, starter, read>> /\ \A r \in Roots, f \in Files : Content(r, f)' = Content(r, f)
  BY DEF SwitchRow, Content
<1>3. /\ meta'.root = m.to /\ meta'.have = meta.have /\ meta'.home = meta.home /\ meta'.deleted = meta.deleted
  BY <1>p, <1>1 DEF SwitchRow, MetaRecs
<1>4. \A v \in Movers : v # w => mover[v].pc \in {"idle", "boot"}
  BY <1>p, <1>1, Alone
<1>5. \A f \in Files : Content(m.from, f) = "good"
  BY <1>p, <1>2 DEF RootHolds, Complete
<1>6. PICK x \in MoverRecs : /\ GoodMover(x) /\ SetMover(w, x) /\ MoverHolds(x)' /\ x.from = m.from
                             /\ \/ x.pc = "live"
                                \/ x.pc = "unpublish" /\ m.locked
  <2>1. ASSUME NEW x \in MoverRecs, x.pc \in {"live", "unpublish"}, x.from = m.from, x.to = m.to
        PROVE  GoodMover(x) /\ MoverHolds(x)'
    BY <1>u, <1>2, <1>3, <1>5, <2>1 DEF GoodMover, MoverHolds, InMove
  <2>2. CASE m.locked
    <3>1. SetMover(w, [m EXCEPT !.pc = "unpublish", !.left = Files])
      BY <1>1, <2>2 DEF SwitchRow
    <3>2. PICK x \in MoverRecs : x = [m EXCEPT !.pc = "unpublish", !.left = Files]
      BY DEF MoverRecs, InMove
    <3>3. x.pc = "unpublish" /\ x.from = m.from /\ x.to = m.to
      BY <3>2 DEF MoverRecs
    <3>4. QED
      BY <2>1, <2>2, <3>1, <3>2, <3>3
  <2>3. CASE ~m.locked
    <3>1. SetMover(w, [m EXCEPT !.pc = "live"])
      BY <1>1, <2>3 DEF SwitchRow
    <3>2. PICK x \in MoverRecs : x = [m EXCEPT !.pc = "live"]
      BY DEF MoverRecs, InMove
    <3>3. x.pc = "live" /\ x.from = m.from /\ x.to = m.to
      BY <3>2 DEF MoverRecs
    <3>4. QED
      BY <2>1, <3>1, <3>2, <3>3
  <2>4. QED
    BY <2>2, <2>3
<1>7. mover'[w] = x /\ \A v \in Movers : v # w => mover'[v] = mover[v]
  BY <1>p, <1>6, MoverSet
<1>8. LoneMover'
  BY <1>p, <1>1, <1>3, <1>6, <1>7, LoneKept DEF Movers
<1>9. MoversHold'
  BY <1>p, <1>4, <1>6, MoverAlone
<1>10. RootHolds'
  BY <1>p, <1>u, <1>2, <1>3, <1>5 DEF RootHolds
<1>11. HotHolds'
  <2>1. SUFFICES ASSUME hot.on PROVE HotHolds'
    BY <1>u DEF HotHolds
  <2>2. x.pc = "live"
    BY <1>1, <1>6, <2>1 DEF SwitchRow
  <2>3. hot.root = m.from
    <3>1. \A v \in Movers : mover[v].pc # "live"
      BY <1>1, <1>4
    <3>2. QED
      BY <1>p, <1>2, <2>1, <3>1, HotRoot
  <2>4. QED
    BY <1>p, <1>u, <1>3, <1>6, <1>7, <2>1, <2>2, <2>3 DEF HotHolds
<1>12. StartsHold' /\ ReadHolds'
  BY <1>p, <1>u, <1>3, StartsKept, ReadKept
<1>13. JobsHold'
  BY <1>p, <1>u, <1>2, <1>3 DEF JobsHold, TorrentOK
<1>14. QED
  BY <1>8, <1>9, <1>10, <1>11, <1>12, <1>13 DEF MoveSound

\* The HotTorrent follows the catalog, and a read under way is counted.
LEMMA SwitchLiveSound ==
  ASSUME MoveShape, MoveNext, MoveSound, NEW w \in Movers, SwitchLive(w) PROVE MoveSound'
<1>p. /\ FilesOK /\ MoversOK /\ TorrentOK /\ LoneMover /\ RootHolds /\ MoversHold /\ HotHolds /\ StartsHold
      /\ JobsHold /\ ReadHolds /\ meta \in MetaRecs /\ hot \in HotRecs /\ read \in ReadRecs
  BY Parts DEF MoveSound, TorrentOK
<1>1. PICK m \in MoverRecs : m = mover[w] /\ m.pc = "live" /\ GoodMover(m) /\ MoverHolds(m)
  BY <1>p, MoverIs DEF SwitchLive, MoversHold
<1>2. m.to \in Roots /\ m.from \in Roots /\ m.to = meta.root /\ m.from # m.to /\ Complete(meta.have)
  BY <1>1 DEF MoverHolds, GoodMover, InMove
<1>u. UNCHANGED <<names, bytes, meta, landed, jobs, starter>> /\ Better
  BY SameFiles DEF SwitchLive
<1>3. /\ hot'.on = hot.on /\ hot'.have = hot.have /\ (hot.on => hot'.root = meta.root) /\ (~hot.on => hot' = hot)
  BY <1>p, <1>1, <1>2 DEF SwitchLive, HotRecs
<1>4. \A v \in Movers : v # w => mover[v].pc \in {"idle", "boot"}
  BY <1>p, <1>1, Alone
<1>5. PICK x \in MoverRecs : x = [m EXCEPT !.pc = "unpublish", !.left = Files]
  BY DEF MoverRecs, InMove
<1>6. x.pc = "unpublish" /\ x.from = m.from /\ x.to = m.to /\ SetMover(w, x)
  BY <1>1, <1>5 DEF MoverRecs, SwitchLive
<1>7. GoodMover(x) /\ MoverHolds(x)'
  BY <1>u, <1>2, <1>6 DEF GoodMover, MoverHolds, InMove
<1>8. mover'[w] = x /\ \A v \in Movers : v # w => mover'[v] = mover[v]
  BY <1>p, <1>6, <1>7, MoverSet
<1>9. LoneMover'
  BY <1>p, <1>u, <1>1, <1>6, <1>8, LoneKept DEF Movers
<1>10. MoversHold'
  BY <1>p, <1>4, <1>6, <1>7, MoverAlone
<1>11. RootHolds' /\ StartsHold' /\ JobsHold'
  BY <1>p, <1>u, RootKept, StartsKept, JobsKept DEF Better
<1>12. HotHolds'
  BY <1>p, <1>u, <1>3 DEF HotHolds
<1>13. ReadHolds'
  <2>1. CASE hot.on /\ read.pc # "idle"
    <3>1. PICK y \in ReadRecs : y = read
      BY <1>p
    <3>2. read' = [y EXCEPT !.switched = @ + 1]
      BY <2>1, <3>1 DEF SwitchLive
    <3>3. /\ read'.pc = y.pc /\ read'.f = y.f /\ read'.root = y.root /\ read'.tries = y.tries
          /\ read'.switched = y.switched + 1 /\ y.switched \in Nat
      BY <3>2 DEF ReadRecs
    <3>4. y.pc = "failed" => y.switched > 1
      BY <1>p, <3>1 DEF ReadHolds
    <3>5. y.pc = "open" => y.f \in hot.have /\ y.tries \in {1, 2} /\ (y.tries = 2 => y.switched > 0)
      BY <1>p, <3>1 DEF ReadHolds
    <3>6. QED
      BY <1>3, <3>3, <3>4, <3>5 DEF ReadHolds
  <2>2. CASE ~(hot.on /\ read.pc # "idle")
    <3>1. read' = read /\ read.pc # "open"
      <4>1. read.pc = "open" => hot.on
        BY <1>p DEF TorrentOK
      <4>2. QED
        BY <2>2, <4>1 DEF SwitchLive
    <3>2. QED
      BY <1>p, <3>1 DEF ReadHolds
  <2>3. QED
    BY <2>1, <2>2
<1>14. QED
  BY <1>9, <1>10, <1>11, <1>12, <1>13 DEF MoveSound

\* The home is forgotten.
LEMMA ClearHomeSound ==
  ASSUME MoveShape, MoveNext, MoveSound, NEW w \in Movers, ClearHome(w) PROVE MoveSound'
<1>p. /\ FilesOK /\ MoversOK /\ TorrentOK /\ LoneMover /\ RootHolds /\ MoversHold /\ HotHolds /\ StartsHold
      /\ JobsHold /\ ReadHolds /\ meta \in MetaRecs
  BY Parts DEF MoveSound
<1>u. UNCHANGED <<names, bytes, hot, landed, jobs, starter, read>> /\ Better
  BY SameFiles DEF ClearHome
<1>1. mover[w].pc = "clear" /\ SetMover(w, NoMove)
  BY DEF ClearHome
<1>2. meta'.root = meta.root /\ meta'.have = meta.have /\ meta'.home = Nowhere /\ meta'.deleted = meta.deleted
  BY <1>p DEF ClearHome, MetaRecs
<1>3. GoodMover(NoMove) /\ NoMove \in MoverRecs /\ NoMove.pc = "idle" /\ MoverHolds(NoMove)'
  BY NoMoveIs, AtRest DEF GoodMover
<1>4. mover'[w] = NoMove /\ \A v \in Movers : v # w => mover'[v] = mover[v]
  BY <1>p, <1>1, <1>3, MoverSet
<1>5. LoneMover'
  BY <1>p, <1>1, <1>2, <1>3, <1>4, LoneKept DEF Movers
<1>6. MoversHold'
  BY <1>p, <1>u, <1>1, <1>2, <1>3, MoverMoved
<1>7. HotHolds'
  <2>1. \A v \in Movers : mover[v].pc = "live" => mover'[v] = mover[v]
    BY <1>1, <1>4
  <2>2. QED
    BY <1>p, <1>u, <1>2, <2>1, HotKept
<1>8. RootHolds' /\ StartsHold' /\ JobsHold' /\ ReadHolds'
  BY <1>p, <1>u, <1>2, RootKept, StartsKept, JobsKept, ReadKept DEF Better
<1>9. QED
  BY <1>5, <1>6, <1>7, <1>8 DEF MoveSound

\* What no mover takes part in.
LEMMA MoversStill ==
  ASSUME MoveShape, MoveNext, MoveSound, UNCHANGED mover, Better, meta'.root = meta.root, meta'.home = meta.home,
         meta'.deleted = meta.deleted, Complete(meta.have) => Complete(meta'.have)
  PROVE  LoneMover' /\ MoversHold'
BY Parts, LoneKept, MoversKept DEF MoveSound

\* A start, up to its load.
LEMMA StartSound ==
  ASSUME MoveShape, MoveNext, MoveSound, NEW s \in {"boot", "ctl"}, StartCmd \/ StartLoads(s) PROVE MoveSound'
<1>p. /\ TorrentOK /\ StartersOK /\ RootHolds /\ HotHolds /\ StartsHold /\ JobsHold /\ ReadHolds /\ meta \in MetaRecs
  BY Parts DEF MoveSound
<1>u. UNCHANGED <<names, bytes, hot, landed, jobs, mover, read>> /\ Better
  BY SameFiles DEF StartCmd, StartLoads
<1>1. meta'.root = meta.root /\ meta'.have = meta.have /\ meta'.home = meta.home /\ meta'.deleted = meta.deleted
  BY <1>p DEF StartCmd, StartLoads, MetaRecs
<1>2. LoneMover' /\ MoversHold'
  BY <1>u, <1>1, MoversStill
<1>3. StartsHold'
  <2>1. CASE StartCmd
    BY <1>p, <1>1, <2>1, StarterPc DEF StartCmd, StartsHold
  <2>2. CASE StartLoads(s)
    <3>1. PICK x : x \in {NoStart, [pc |-> "prepare", root |-> meta.root, have |-> meta.have]}
                   /\ starter' = [starter EXCEPT ![s] = x]
      BY <2>2 DEF StartLoads
    <3>2. GoodStart(x)
      BY <1>p, <3>1, NoStartIs DEF GoodStart, StartRecs, MetaRecs
    <3>3. x.pc \in {"prepare", "insert"} => x.have \subseteq meta.have
      BY <3>1, NoStartIs
    <3>4. QED
      BY <1>p, <1>1, <3>1, <3>2, <3>3, StarterSet DEF StartsHold
  <2>3. QED
    BY <2>1, <2>2
<1>4. RootHolds' /\ HotHolds' /\ JobsHold' /\ ReadHolds'
  BY <1>p, <1>u, <1>1, RootKept, HotKept, JobsKept, ReadKept DEF Better
<1>5. QED
  BY <1>2, <1>3, <1>4 DEF MoveSound

\* In the directory of the catalog nothing is missing and nothing is short.
LEMMA StartPreparesSound ==
  ASSUME MoveShape, MoveNext, MoveSound, NEW s \in {"boot", "ctl"}, StartPrepares(s), ~raced' PROVE MoveSound'
<1>p. /\ FilesOK /\ TorrentOK /\ StartersOK /\ RootHolds /\ HotHolds /\ StartsHold /\ JobsHold /\ ReadHolds /\ meta \in MetaRecs
  BY Parts DEF MoveSound
<1>1. starter[s].root = meta.root /\ starter[s].pc = "prepare"
  BY DEF StartPrepares
<1>2. PICK r \in Roots : r = meta.root
  BY <1>p DEF MetaRecs
<1>3. \A f \in Files : names[r][f] # 0 /\ Content(r, f) # "short"
  <2>1. \A f \in Files : Content(r, f) \in {"zero", "good"}
    BY <1>p, <1>2 DEF RootHolds
  <2>2. QED
    BY <2>1 DEF Content
<1>4. names' = names /\ bytes' = bytes
  <2>1. names' = [names EXCEPT ![r] = [f \in Files |-> names[r][f]]]
    BY <1>1, <1>2, <1>3 DEF StartPrepares
  <2>2. bytes' = [f \in Files |-> bytes[f]]
    BY <1>1, <1>2, <1>3 DEF StartPrepares
  <2>3. QED
    BY <1>p, <2>1, <2>2 DEF FilesOK
<1>u. UNCHANGED <<meta, hot, landed, jobs, mover, read>> /\ Better
  BY <1>4, SameFiles DEF StartPrepares
<1>5. StartsHold'
  <2>1. starter' = [starter EXCEPT ![s].pc = "insert"]
    BY DEF StartPrepares
  <2>2. starter'[s] = [starter[s] EXCEPT !.pc = "insert"] /\ \A v \in {"boot", "ctl"} : v # s => starter'[v] = starter[v]
    BY <1>p, <1>1, <2>1, StarterPc
  <2>3. starter'[s].have = starter[s].have
    BY <1>p, <2>2 DEF StartersOK, StartRecs
  <2>4. QED
    BY <1>p, <1>u, <1>1, <2>2, <2>3 DEF StartsHold
<1>6. RootHolds' /\ HotHolds' /\ JobsHold' /\ ReadHolds'
  BY <1>p, <1>u, RootKept, HotKept, JobsKept, ReadKept DEF Better
<1>7. QED
  BY <1>u, <1>5, <1>6, MoversStill DEF MoveSound

\* An activation that is published.
LEMMA StartInsertsSound ==
  ASSUME MoveShape, MoveNext, MoveSound, NEW s \in {"boot", "ctl"}, StartInserts(s), ~raced' PROVE MoveSound'
<1>p. /\ TorrentOK /\ StartersOK /\ RootHolds /\ HotHolds /\ StartsHold /\ JobsHold /\ ReadHolds /\ meta \in MetaRecs
  BY Parts DEF MoveSound
<1>u. UNCHANGED <<names, bytes, meta, landed, jobs, mover, read>> /\ Better
  BY SameFiles DEF StartInserts
<1>1. starter[s].have \subseteq meta.have
  BY <1>p DEF StartInserts, StartsHold
<1>2. \/ hot.on /\ hot' = hot
      \/ ~hot.on /\ hot'.on /\ hot'.root = meta.root /\ hot'.have = starter[s].have
  BY DEF StartInserts
<1>3. HotHolds'
  BY <1>p, <1>u, <1>1, <1>2 DEF HotHolds
<1>4. ReadHolds'
  <2>1. read.pc = "open" => hot.on
    BY <1>p DEF TorrentOK
  <2>2. QED
    BY <1>p, <1>u, <1>2, <2>1 DEF ReadHolds
<1>5. StartsHold'
  <2>1. starter' = [starter EXCEPT ![s] = NoStart]
    BY DEF StartInserts
  <2>2. QED
    BY <1>p, <1>u, <2>1, StarterSet, NoStartIs DEF StartsHold
<1>6. RootHolds' /\ JobsHold'
  BY <1>p, <1>u, RootKept, JobsKept DEF Better
<1>7. QED
  BY <1>u, <1>3, <1>4, <1>5, <1>6, MoversStill DEF MoveSound

\* A stop.
LEMMA StopSound ==
  ASSUME MoveShape, MoveNext, MoveSound, StopFlushes \/ StopUnhots PROVE MoveSound'
<1>p. /\ TorrentOK /\ StartersOK /\ RootHolds /\ HotHolds /\ StartsHold /\ JobsHold /\ ReadHolds /\ meta \in MetaRecs
      /\ landed \subseteq Files
  BY Parts DEF MoveSound
<1>u. UNCHANGED <<names, bytes, starter, mover>> /\ Better
  BY SameFiles DEF StopFlushes, StopUnhots
<1>1. /\ meta'.root = meta.root /\ meta'.home = meta.home /\ meta'.deleted = meta.deleted
      /\ meta.have \subseteq meta'.have /\ meta'.have \cup landed' = meta.have \cup landed
      /\ jobs' \subseteq jobs
  BY <1>p DEF StopFlushes, StopUnhots, MetaRecs
<1>2. Complete(meta.have) => Complete(meta'.have)
  BY <1>p, <1>1, CompleteIs DEF Complete
<1>3. LoneMover' /\ MoversHold'
  BY <1>u, <1>1, <1>2, MoversStill
<1>4. HotHolds' /\ ReadHolds'
  <2>1. CASE StopFlushes
    BY <1>p, <1>u, <1>1, <2>1, HotKept, ReadKept DEF StopFlushes
  <2>2. CASE StopUnhots
    BY <2>2 DEF StopUnhots, HotHolds, ReadHolds, NotHot, NoRead
  <2>3. QED
    BY <2>1, <2>2
<1>5. RootHolds' /\ StartsHold' /\ JobsHold'
  BY <1>p, <1>u, <1>1, <1>2, RootKept, StartsKept, JobsKept DEF Better
<1>6. QED
  BY <1>3, <1>4, <1>5 DEF MoveSound

\* The audit finds nothing.
LEMMA CrashSound ==
  ASSUME MoveShape, MoveNext, MoveSound, CrashAndBoot PROVE MoveSound'
<1>p. /\ TorrentOK /\ LoneMover /\ RootHolds /\ meta \in MetaRecs
  BY Parts DEF MoveSound
<1>1. meta' = meta
  <2>1. PICK r \in Roots : r = meta.root
    BY <1>p DEF MetaRecs
  <2>2. \A f \in Files : Content(r, f) \notin {"none", "short"}
    BY <1>p, <2>1 DEF RootHolds
  <2>3. ~LayoutProblem(meta)
    BY <2>1, <2>2 DEF LayoutProblem
  <2>4. QED
    BY <2>3 DEF CrashAndBoot, Audited
<1>u. /\ UNCHANGED <<names, bytes>> /\ Better /\ hot' = NotHot /\ landed' = {} /\ jobs' = {} /\ read' = NoRead
      /\ mover' = [m \in Movers |-> IF m = "tick" THEN [NoMove EXCEPT !.pc = "boot"] ELSE NoMove]
      /\ starter' = [s \in {"boot", "ctl"} |->
                       IF s = "boot" /\ meta.want THEN [NoStart EXCEPT !.pc = "load"] ELSE NoStart]
  BY <1>1, SameFiles DEF CrashAndBoot
<1>2. mover'["tick"].pc = "boot" /\ mover'["ctl"].pc = "idle"
  BY <1>u DEF Movers, NoMove
<1>3. LoneMover'
  BY <1>p, <1>1, <1>2, Bounds DEF LoneMover
<1>4. MoversHold'
  <2>1. \A w \in Movers : mover'[w].pc \in {"idle", "boot"}
    BY <1>2 DEF Movers
  <2>2. QED
    BY <2>1, AtRest DEF MoversHold
<1>5. StartsHold'
  BY <1>u DEF StartsHold, NoStart
<1>6. RootHolds'
  BY <1>p, <1>1, <1>u, RootKept DEF Better
<1>7. HotHolds' /\ JobsHold' /\ ReadHolds'
  BY <1>u DEF HotHolds, JobsHold, ReadHolds, NotHot, NoRead
<1>8. QED
  BY <1>3, <1>4, <1>5, <1>6, <1>7 DEF MoveSound

\* A job takes the layout of now.
LEMMA JobTakesSound ==
  ASSUME MoveShape, MoveNext, MoveSound, NEW f \in Files, JobTakes(f) PROVE MoveSound'
<1>p. /\ TorrentOK /\ MoversOK /\ RootHolds /\ MoversHold /\ HotHolds /\ StartsHold /\ JobsHold /\ ReadHolds
  BY Parts DEF MoveSound
<1>u. UNCHANGED <<names, bytes, meta, hot, landed, mover, starter, read>> /\ \A r \in Roots, g \in Files : Content(r, g)' = Content(r, g)
  BY DEF JobTakes, Content
<1>1. hot.root = meta.root \/ Complete(meta.have)
  <2>1. CASE \E w \in Movers : mover[w].pc = "live"
    BY <1>p, <2>1 DEF MoversHold, MoverHolds, InMove, MoversOK
  <2>2. CASE ~\E w \in Movers : mover[w].pc = "live"
    BY <1>p, <2>2, HotRoot DEF JobTakes
  <2>3. QED
    BY <2>1, <2>2
<1>2. JobsHold'
  <2>1. jobs' = jobs \cup {[f |-> f, root |-> hot.root, written |-> FALSE]}
    BY DEF JobTakes
  <2>2. SUFFICES ASSUME NEW j \in jobs'
                 PROVE  (j.root = meta.root \/ Complete(meta.have)) /\ (j.written => j \in jobs)
    BY <1>p, <1>u, <2>2 DEF JobsHold, TorrentOK
  <2>3. QED
    BY <1>p, <1>1, <2>1 DEF JobsHold
<1>3. RootHolds' /\ HotHolds' /\ StartsHold' /\ ReadHolds'
  BY <1>p, <1>u, RootKept, HotKept, StartsKept, ReadKept
<1>4. QED
  BY <1>u, <1>2, <1>3, MoversStill DEF MoveSound, Better

\* A job writes: nothing that was good gets worse.
LEMMA JobWritesSound ==
  ASSUME MoveShape, MoveNext, MoveSound, NEW j \in jobs, JobWrites(j) PROVE MoveSound'
<1>p. /\ FilesOK /\ TorrentOK /\ RootHolds /\ HotHolds /\ StartsHold /\ JobsHold /\ ReadHolds /\ meta \in MetaRecs
  BY Parts DEF MoveSound
<1>u. UNCHANGED <<meta, hot, landed, mover, starter, read>>
  BY DEF JobWrites
<1>1. PICK f \in Files, r \in Roots : f = j.f /\ r = j.root
  BY <1>p DEF TorrentOK
<1>2. PICK i \in Inodes : i = FreeInode(f) /\ \A q \in Roots : names[q][f] # i
  BY <1>p, FreeIs
<1>3. \A q \in Roots, g \in Files : names[q][g] \in {0} \cup Inodes
  BY <1>p DEF FilesOK
\* What is written is good by every name of its inode; the rest is as it was.
<1>4. Better /\ (Content(r, f)' = "good" \/ (jobs' = jobs \ {j} /\ UNCHANGED <<names, bytes>>))
  <2>1. CASE names[r][f] # 0 /\ bytes' = [bytes EXCEPT ![f][names[r][f]] = "good"] /\ names' = names
    <3>1. PICK k \in Inodes : k = names[r][f] /\ k # 0
      BY <1>3, <2>1
    <3>2. \A g \in Files, n \in Inodes : bytes'[g][n] = IF g = f /\ n = k THEN "good" ELSE bytes[g][n]
      BY <1>p, <2>1, <3>1 DEF FilesOK
    <3>3. Content(r, f)' = "good"
      BY <2>1, <3>1, <3>2 DEF Content
    <3>4. Better
      BY <1>3, <2>1, <3>2 DEF Better, Content
    <3>5. QED
      BY <3>3, <3>4
  <2>2. CASE names[r][f] = 0 /\ names' = [names EXCEPT ![r][f] = i] /\ bytes' = [bytes EXCEPT ![f][i] = "good"]
    <3>1. \A q \in Roots, g \in Files : names'[q][g] = IF q = r /\ g = f THEN i ELSE names[q][g]
      BY <1>p, <2>2 DEF FilesOK
    <3>2. \A g \in Files, n \in Inodes : bytes'[g][n] = IF g = f /\ n = i THEN "good" ELSE bytes[g][n]
      BY <1>p, <2>2 DEF FilesOK
    <3>3. i # 0
      BY InodesAre
    <3>4. Content(r, f)' = "good"
      BY <3>1, <3>2, <3>3 DEF Content
    <3>5. Better
      BY <1>2, <1>3, <3>1, <3>2, <3>4 DEF Better, Content
    <3>6. QED
      BY <3>4, <3>5
  <2>3. CASE jobs' = jobs \ {j} /\ UNCHANGED <<names, bytes>>
    BY <2>3, SameFiles
  <2>4. QED
    BY <1>1, <1>2, <2>1, <2>2, <2>3 DEF JobWrites
<1>5. jobs' \subseteq jobs \/ (jobs' = (jobs \ {j}) \cup {[j EXCEPT !.written = TRUE]} /\ Content(r, f)' = "good")
  BY <1>1, <1>4 DEF JobWrites
<1>6. JobsHold'
  <2>1. CASE jobs' \subseteq jobs
    BY <1>p, <1>u, <1>4, <2>1, JobsKept
  <2>2. CASE jobs' = (jobs \ {j}) \cup {[j EXCEPT !.written = TRUE]} /\ Content(r, f)' = "good"
    <3>1. PICK k \in [f : Files, root : Roots, written : BOOLEAN] : k = [j EXCEPT !.written = TRUE]
      BY <1>p DEF TorrentOK
    <3>2. k.f = f /\ k.root = r
      BY <1>1, <1>p, <3>1 DEF TorrentOK
    <3>3. \A q \in Roots : q = meta.root => Content(q, f)' = "good"
      <4>1. CASE r = meta.root
        BY <2>2, <4>1
      <4>2. CASE Complete(meta.have)
        BY <1>p, <1>4, <4>2 DEF RootHolds, Complete, Better
      <4>3. QED
        BY <1>p, <1>1, <4>1, <4>2 DEF JobsHold
    <3>4. \A x \in jobs : /\ x.root = meta.root \/ Complete(meta.have)
                          /\ x.written => \A q \in Roots : q = meta.root => Content(q, x.f)' = "good"
      <4>1. \A x \in jobs : x.f \in Files
        BY <1>p DEF TorrentOK
      <4>2. QED
        BY <1>p, <1>4, <4>1 DEF JobsHold, Better
    <3>5. r = meta.root \/ Complete(meta.have)
      BY <1>p, <1>1 DEF JobsHold
    <3>6. QED
      BY <1>u, <2>2, <3>1, <3>2, <3>3, <3>4, <3>5 DEF JobsHold
  <2>3. QED
    BY <1>5, <2>1, <2>2
<1>7. RootHolds' /\ HotHolds' /\ StartsHold' /\ ReadHolds'
  BY <1>p, <1>u, <1>4, RootKept, HotKept, StartsKept, ReadKept DEF Better
<1>8. QED
  BY <1>u, <1>4, <1>6, <1>7, MoversStill DEF MoveSound

\* A job that has written marks its piece.
LEMMA JobMarksSound ==
  ASSUME MoveShape, MoveNext, MoveSound, NEW j \in jobs, JobMarks(j) PROVE MoveSound'
<1>p. /\ TorrentOK /\ RootHolds /\ HotHolds /\ StartsHold /\ JobsHold /\ ReadHolds /\ hot \in HotRecs
  BY Parts DEF MoveSound
<1>u. UNCHANGED <<names, bytes, meta, mover, starter, read>> /\ \A r \in Roots, g \in Files : Content(r, g)' = Content(r, g)
  BY DEF JobMarks, Content
<1>1. /\ hot'.on = hot.on /\ hot'.root = hot.root /\ hot'.have = hot.have \cup {j.f} /\ landed' = landed \cup {j.f}
      /\ jobs' \subseteq jobs
  BY <1>p DEF JobMarks, HotRecs
<1>2. \A r \in Roots : r = meta.root => Content(r, j.f) = "good"
  BY <1>p DEF JobMarks, JobsHold
<1>3. RootHolds'
  BY <1>p, <1>u, <1>1, <1>2 DEF RootHolds
<1>4. HotHolds' /\ ReadHolds'
  BY <1>p, <1>u, <1>1 DEF HotHolds, ReadHolds
<1>5. StartsHold' /\ JobsHold'
  BY <1>p, <1>u, <1>1, StartsKept, JobsKept DEF Better
<1>6. QED
  BY <1>u, <1>3, <1>4, <1>5, MoversStill DEF MoveSound, Better

\* What the HotTorrent has is whole where its layout points.
LEMMA HotGood ==
  ASSUME MoveShape, MoveSound, hot.on, NEW f \in hot.have
  PROVE  f \in Files /\ hot.root \in Roots /\ Content(hot.root, f) = "good"
<1>p. TorrentOK /\ MoversOK /\ RootHolds /\ MoversHold /\ HotHolds
  BY Parts DEF MoveSound
<1>1. PICK r \in Roots : r = hot.root
  BY <1>p DEF TorrentOK
<1>2. f \in Files
  BY <1>p DEF TorrentOK, HotRecs
<1>3. CASE r = meta.root
  BY <1>p, <1>1, <1>2, <1>3 DEF HotHolds, RootHolds
<1>4. CASE \E w \in Movers : mover[w].pc = "live" /\ hot.root = mover[w].from
  BY <1>p, <1>1, <1>2, <1>4 DEF MoversHold, MoverHolds, MoversOK
<1>5. QED
  BY <1>p, <1>1, <1>2, <1>3, <1>4 DEF HotHolds

\* A seed read from beginning to end.
LEMMA ReadsSound ==
  ASSUME MoveShape, MoveNext, MoveSound, ReadOpens \/ ReadFailed \/ \E f \in Files : ReadBegins(f) PROVE MoveSound'
<1>p. /\ FilesOK /\ TorrentOK /\ RootHolds /\ HotHolds /\ StartsHold /\ JobsHold /\ ReadHolds /\ read \in ReadRecs
  BY Parts DEF MoveSound, TorrentOK
<1>u. UNCHANGED <<names, bytes, meta, hot, landed, jobs, mover, starter>> /\ Better
  BY SameFiles DEF ReadOpens, ReadFailed, ReadBegins
<1>1. RootHolds' /\ HotHolds' /\ StartsHold' /\ JobsHold'
  BY <1>p, <1>u, RootKept, HotKept, StartsKept, JobsKept DEF Better
<1>2. ReadHolds'
  <2>1. CASE read' = NoRead
    BY <2>1 DEF ReadHolds, NoRead
  <2>2. CASE \E f \in Files : ReadBegins(f)
    BY <1>u, <2>2 DEF ReadHolds, ReadBegins
  <2>3. CASE ReadOpens
    <3>1. PICK y \in ReadRecs : y = read /\ y.pc = "open" /\ hot.on /\ y.root \in Roots
      BY <1>p, <2>3 DEF ReadOpens, TorrentOK
    <3>2. PICK c : c = Content(y.root, y.f)
      OBVIOUS
    <3>3. /\ y.f \in hot.have /\ y.tries \in {1, 2}
          /\ y.tries = 1 /\ y.switched = 0 => y.root = hot.root
          /\ y.tries = 2 => y.switched > 0
          /\ y.tries = 2 /\ y.switched = 1 => y.root = hot.root
      BY <1>p, <3>1 DEF ReadHolds
    <3>4. y.f \in Files /\ hot.root \in Roots /\ (y.root = hot.root => c = "good")
      BY <3>1, <3>2, <3>3, HotGood
    <3>5. c \in Contents /\ c # "zero"
      <4>1. y.f \in meta.have \cup landed
        BY <1>p, <3>1, <3>3 DEF HotHolds
      <4>2. QED
        BY <1>p, <3>1, <3>2, <3>4, <4>1, ContentIs DEF RootHolds
    <3>6. y.switched \in Nat
      BY DEF ReadRecs
    <3>7. CASE c = "good"
      BY <2>1, <2>3, <3>1, <3>2, <3>7 DEF ReadOpens
    <3>8. CASE c = "none" /\ y.tries = 1
      <4>1. PICK q \in Roots : q = hot.root
        BY <3>4
      <4>2. read' = [y EXCEPT !.root = q, !.tries = 2]
        BY <2>3, <3>1, <3>2, <3>8, <4>1 DEF ReadOpens, Retries
      <4>3. read'.pc = "open" /\ read'.f = y.f /\ read'.root = q /\ read'.tries = 2 /\ read'.switched = y.switched
        BY <3>1, <4>2 DEF ReadRecs
      <4>4. y.switched > 0
        BY <3>3, <3>4, <3>6, <3>8
      <4>5. QED
        BY <1>u, <3>3, <4>1, <4>3, <4>4 DEF ReadHolds
    <3>9. CASE c = "short"
      <4>1. read' = [y EXCEPT !.pc = "failed", !.switched = @ + 1]
        BY <2>3, <3>1, <3>2, <3>9 DEF ReadOpens
      <4>2. read'.pc = "failed" /\ read'.switched = y.switched + 1
        BY <4>1 DEF ReadRecs
      <4>3. y.switched > 0
        BY <3>3, <3>4, <3>6, <3>9
      <4>4. QED
        BY <3>6, <4>2, <4>3 DEF ReadHolds
    <3>10. CASE c = "none" /\ y.tries = 2
      <4>1. read' = [y EXCEPT !.pc = "failed"]
        BY <2>3, <3>1, <3>2, <3>10 DEF ReadOpens, Retries
      <4>2. read'.pc = "failed" /\ read'.switched = y.switched
        BY <4>1 DEF ReadRecs
      <4>3. y.switched > 1
        BY <3>3, <3>4, <3>6, <3>10
      <4>4. QED
        BY <4>2, <4>3 DEF ReadHolds
    <3>11. QED
      BY <3>3, <3>5, <3>7, <3>8, <3>9, <3>10 DEF Contents
  <2>4. QED
    BY <2>1, <2>2, <2>3 DEF ReadFailed
<1>3. QED
  BY <1>u, <1>1, <1>2, MoversStill DEF MoveSound

\* MoveSound holds until a race is noted, and then for ever raced.
LEMMA MoveSoundStep ==
  ASSUME MoveShape, raced \/ MoveSound, [MoveNext]_moveVars
  PROVE  (raced \/ MoveSound)'
<1>1. CASE UNCHANGED moveVars
  <2>1. UNCHANGED <<names, bytes, meta, hot, landed, jobs, mover, starter, read, raced, spare>>
    BY <1>1 DEF moveVars
  <2>2. \A r \in Roots, f \in Files : Content(r, f)' = Content(r, f)
    BY <2>1 DEF Content
  <2>3. ASSUME MoveSound PROVE MoveSound'
    <3>1. LoneMover' /\ StartsHold' /\ ReadHolds' /\ HotHolds'
      BY <2>1, <2>3 DEF MoveSound, LoneMover, StartsHold, ReadHolds, HotHolds
    <3>2. RootHolds' /\ JobsHold' /\ MoversHold'
      BY <2>1, <2>2, <2>3, Parts, RootKept, JobsKept, MoversKept DEF MoveSound, Better
    <3>3. QED
      BY <3>1, <3>2 DEF MoveSound
  <2>4. QED
    BY <2>1, <2>3
<1>2. CASE MoveNext /\ (raced \/ raced')
  BY <1>2, RestStep
<1>3. CASE MoveNext /\ MoveSound /\ ~raced'
  <2>1. spare.readds = 0 /\ ~meta.deleted /\ spare \in SpareRecs
    BY <1>3 DEF MoveSound, LoneMover, MoveShape, HandsOK
  <2>2. ~SoftDeletes /\ ~Restores
    BY <2>1 DEF SoftDeletes, Restores, Uses
  <2>3. ASSUME NEW w \in Movers, Moves(w) \/ PublishFails(w) PROVE MoveSound'
    BY <1>3, <2>3, PublishSound, CopyEndsSound, SwitchRowSound, SwitchLiveSound, UnpublishSound, ClearHomeSound,
       PublishFailsSound DEF Moves
  <2>4. ASSUME TickHands PROVE MoveSound'
    BY <1>3, <2>4, TickBootsSound, TickFlushesSound, HandoffHomeSound, HandoffRootSound DEF TickHands
  <2>5. ASSUME NEW s \in {"boot", "ctl"}, StartLoads(s) \/ StartPrepares(s) \/ StartInserts(s) PROVE MoveSound'
    BY <1>3, <2>5, StartSound, StartPreparesSound, StartInsertsSound
  <2>6. ASSUME StartCmd \/ StopFlushes \/ StopUnhots \/ CrashAndBoot \/ Relocates PROVE MoveSound'
    BY <1>3, <2>6, StartSound, StopSound, CrashSound, RelocatesSound
  <2>7. ASSUME NEW r \in Roots, RelocateHome(r) PROVE MoveSound'
    BY <1>3, <2>7, RelocateHomeSound
  <2>8. ASSUME NEW f \in Files, JobTakes(f) \/ ReadBegins(f) PROVE MoveSound'
    BY <1>3, <2>8, JobTakesSound, ReadsSound
  <2>9. ASSUME NEW j \in jobs, JobWrites(j) \/ JobMarks(j) PROVE MoveSound'
    BY <1>3, <2>9, JobWritesSound, JobMarksSound
  <2>10. ASSUME ReadOpens \/ ReadFailed PROVE MoveSound'
    BY <1>3, <2>10, ReadsSound
  <2>11. QED
    BY <1>3, <2>2, <2>3, <2>4, <2>5, <2>6, <2>7, <2>8, <2>9, <2>10 DEF MoveNext, CtlWorks, Relocates
<1>4. QED
  BY <1>1, <1>2, <1>3

\* Nothing is removed and added again, and the user moves only what is
\* complete and not staged.
MovesOneAtATime == \A p \in MoveStarts :
    p.readds = 0 /\ (p.moves = 0 \/ (~p.staged /\ Complete(p.have)))

\* MoveSound holds at first.
LEMMA MoveSoundInit == ASSUME MovesOneAtATime, MoveInit PROVE MoveSound
<1>1. PICK p \in Profile : /\ p.readds = 0 /\ (p.moves = 0 \/ (~p.staged /\ Complete(p.have)))
        /\ names = [r \in Roots |-> [f \in Files |-> IF r = (IF p.staged THEN "stage" ELSE "home") THEN 1 ELSE 0]]
        /\ bytes = [f \in Files |-> [i \in Inodes |-> IF f \in p.have THEN "good" ELSE "zero"]]
        /\ meta = [root |-> IF p.staged THEN "stage" ELSE "home", home |-> IF p.staged THEN "home" ELSE Nowhere,
                   have |-> p.have, want |-> p.want, deleted |-> FALSE]
        /\ hot = NotHot /\ landed = {} /\ jobs = {}
        /\ mover = [m \in Movers |-> IF m = "tick" THEN [NoMove EXCEPT !.pc = "boot"] ELSE NoMove]
        /\ starter = [s \in {"boot", "ctl"} |->
                        IF s = "boot" /\ p.want THEN [NoStart EXCEPT !.pc = "load"] ELSE NoStart]
        /\ read = NoRead
        /\ spare = [moves |-> p.moves, starts |-> p.starts, stops |-> p.stops,
                    faults |-> p.faults, crashes |-> p.crashes, readds |-> p.readds]
  BY MoveAssumption DEF MoveInit, MovesOneAtATime
<1>2. mover["tick"].pc = "boot" /\ mover["ctl"].pc = "idle"
  BY <1>1 DEF Movers, NoMove
<1>3. LoneMover
  BY <1>1, <1>2 DEF LoneMover
<1>4. MoversHold
  <2>1. \A w \in Movers : mover[w].pc \in {"idle", "boot"}
    BY <1>2 DEF Movers
  <2>2. QED
    BY <2>1, AtRest DEF MoversHold
<1>5. RootHolds
  BY <1>1, InodesAre DEF RootHolds, Content, Roots
<1>6. StartsHold
  BY <1>1 DEF StartsHold, NoStart
<1>7. HotHolds /\ JobsHold /\ ReadHolds
  BY <1>1 DEF HotHolds, JobsHold, ReadHolds, NotHot, NoRead
<1>8. QED
  BY <1>3, <1>4, <1>5, <1>6, <1>7 DEF MoveSound

\* The inductive invariant of the moves.
LEMMA MoveInvariant ==
  ASSUME MovesOneAtATime
  PROVE  MoveSpec => [](MoveShape /\ (raced \/ MoveSound))
<1>1. MoveInit => MoveShape /\ (raced \/ MoveSound)
  BY ShapeInit, MoveSoundInit
<1>2. MoveShape /\ (raced \/ MoveSound) /\ [MoveNext]_moveVars => (MoveShape /\ (raced \/ MoveSound))'
  BY ShapeStep, MoveSoundStep
<1>3. QED
  BY <1>1, <1>2, PTL DEF MoveSpec

\* PayloadFollows (disk/relocate.rs: "publish dest before unpublishing source"):
\* with one mover at a time, the pieces the catalog has are whole in the
\* directory it names, through every publish, copy, switch, unpublish, failure,
\* stop, start and crash, until a layout is used that a move had left.
THEOREM PayloadFollowsTheCatalog ==
  ASSUME MovesOneAtATime
  PROVE  MoveSpec => []PayloadFollows
<1>1. MoveShape /\ (raced \/ MoveSound) => PayloadFollows
  <2> SUFFICES ASSUME MoveShape, MoveSound, NEW f \in meta.have PROVE Content(meta.root, f) = "good"
    BY DEF PayloadFollows
  <2>1. PICK r \in Roots : r = meta.root
    BY Parts DEF MetaRecs
  <2>2. f \in Files
    BY Parts DEF MetaRecs
  <2>3. QED
    BY <2>1, <2>2 DEF MoveSound, RootHolds
<1>2. QED
  BY <1>1, MoveInvariant, PTL

\* ReadsThroughMoves (design.md: "ENOENT retries once with a fresh layout"): with
\* one mover at a time a seed read fails only when two switches passed it.
THEOREM ReadsFindTheirBytes ==
  ASSUME MovesOneAtATime
  PROVE  MoveSpec => []ReadsThroughMoves
<1>1. MoveShape /\ (raced \/ MoveSound) => ReadsThroughMoves
  BY DEF MoveSound, ReadHolds, ReadsThroughMoves
<1>2. QED
  BY <1>1, MoveInvariant, PTL

-----------------------------------------------------------------------------
(* Console.                                                                *)

USE ConsoleAssumption

\* A finite set of naturals has a greatest element.
LEMMA GreatestOf ==
  ASSUME NEW T \in SUBSET Nat, IsFiniteSet(T), T # {}
  PROVE  \E m \in T : \A n \in T : n <= m
<1> DEFINE Topless(U) == \A m \in U : \E n \in U : n > m
           Off == {c \in Nat : \E U \in SUBSET Nat :
                      IsFiniteSet(U) /\ U # {} /\ Cardinality(U) = c /\ Topless(U)}
<1>1. SUFFICES ASSUME Topless(T) PROVE FALSE
  OBVIOUS
<1>2. Cardinality(T) \in Off
  BY <1>1, FS_CardinalityType
<1>3. PICK c \in Off : \A d \in Off : c <= d
  <2> HIDE DEF Off
  <2>1. Off \subseteq Nat
    BY DEF Off
  <2>2. QED
    BY <1>2, <2>1, LeastOf
<1>4. PICK U \in SUBSET Nat : IsFiniteSet(U) /\ U # {} /\ Cardinality(U) = c /\ Topless(U)
  BY <1>3
<1>5. PICK u \in U : TRUE
  BY <1>4
<1> DEFINE V == U \ {u}
<1>6. IsFiniteSet(V) /\ Cardinality(V) = c - 1 /\ V \in SUBSET Nat /\ c \in Nat /\ c - 1 \in Nat
  <2>1. IsFiniteSet(V) /\ Cardinality(V) = Cardinality(U) - 1
    BY <1>4, <1>5, FS_RemoveElement
  <2>2. Cardinality(V) \in Nat
    BY <2>1, FS_CardinalityType
  <2>3. c \in Nat
    BY <1>4, FS_CardinalityType
  <2>4. QED
    BY <1>4, <2>1, <2>2, <2>3
<1>7. V # {}
  BY <1>4, <1>5
<1>8. ~Topless(V)
  <2>1. SUFFICES ASSUME Topless(V) PROVE FALSE
    OBVIOUS
  <2>2. c - 1 \in Off
    <3> HIDE DEF Topless, V
    <3>1. QED
      BY <1>6, <1>7, <2>1
  <2> HIDE DEF Off
  <2>3. QED
    BY <1>3, <1>6, <2>2
<1>9. PICK m \in V : \A n \in V : ~(n > m)
  BY <1>8
<1>10. QED
  BY <1>4, <1>5, <1>9

\* Some element of a finite set of naturals stands on each of its lines.
LEMMA LineOf ==
  ASSUME NEW V \in SUBSET Nat, IsFiniteSet(V), NEW k \in Nat, k < Cardinality(V)
  PROVE  \E x \in V : Cardinality({y \in V : y < x}) = k
<1> DEFINE B(x) == {y \in V : y < x}
           C == {x \in V : Cardinality(B(x)) >= k}
<1>1. \A x \in V : IsFiniteSet(B(x)) /\ Cardinality(B(x)) \in Nat
  BY FS_Subset, FS_CardinalityType
<1>2. \A x, z \in V : z < x /\ (\A y \in B(x) : y <= z) => Cardinality(B(z)) = Cardinality(B(x)) - 1
  <2> TAKE x, z \in V
  <2>1. HAVE z < x /\ \A y \in B(x) : y <= z
  <2>2. B(z) = B(x) \ {z} /\ z \in B(x)
    <3>1. x \in Nat /\ z \in Nat /\ \A y \in V : y \in Nat
      OBVIOUS
    <3>2. \A y \in V : y < z <=> y < x /\ y # z
      BY <2>1, <3>1
    <3>3. z \in B(x)
      BY <2>1
    <3>4. \A y : y \in B(z) <=> y \in B(x) \ {z}
      BY <3>2
    <3>5. B(z) = B(x) \ {z}
      <4> HIDE DEF B
      <4>1. QED
        BY <3>4
    <3>6. QED
      BY <3>3, <3>5
  <2>3. IsFiniteSet(B(x))
    BY <1>1
  <2>4. Cardinality(B(x) \ {z}) = Cardinality(B(x)) - 1
    <3> HIDE DEF B
    <3>1. QED
      BY <2>2, <2>3, FS_RemoveElement
  <2> HIDE DEF B
  <2>5. QED
    BY <2>2, <2>4
<1>3. PICK m \in V : \A n \in V : n <= m
  <2>1. V # {}
    BY FS_EmptySet
  <2>2. QED
    BY <2>1, GreatestOf
<1>4. m \in C
  <2>1. B(m) = V \ {m}
    <3>1. m \in Nat /\ \A y \in V : y \in Nat
      OBVIOUS
    <3>2. \A y \in V : y < m <=> y # m
      BY <1>3, <3>1
    <3>3. \A y : y \in B(m) <=> y \in V \ {m}
      BY <3>2
    <3>4. QED
      <4> HIDE DEF B
      <4>1. QED
        BY <3>3
  <2>2. Cardinality(V \ {m}) = Cardinality(V) - 1 /\ Cardinality(V) \in Nat
    BY <1>3, FS_RemoveElement, FS_CardinalityType
  <2>3. m \in V /\ Cardinality(B(m)) >= k
    <3> HIDE DEF B
    <3>1. QED
      BY <2>1, <2>2
  <2>4. QED
    BY <2>3
<1>5. PICK x \in C : \A n \in C : x <= n
  <2>1. C \subseteq Nat
    OBVIOUS
  <2> HIDE DEF C
  <2>2. QED
    BY <1>4, <2>1, LeastOf
<1>6. ~(Cardinality(B(x)) > k)
  <2>1. SUFFICES ASSUME Cardinality(B(x)) > k PROVE FALSE
    OBVIOUS
  <2>2. B(x) # {}
    <3>1. SUFFICES ASSUME B(x) = {} PROVE FALSE
      OBVIOUS
    <3>2. Cardinality({}) = 0
      BY FS_EmptySet
    <3> HIDE DEF B
    <3>3. Cardinality(B(x)) = 0
      BY <3>1, <3>2
    <3>4. QED
      BY <2>1, <3>3
  <2>3. PICK z \in B(x) : \A y \in B(x) : y <= z
    <3>1. B(x) \in SUBSET Nat /\ IsFiniteSet(B(x))
      BY <1>1, <1>5
    <3> HIDE DEF B
    <3>2. QED
      BY <2>2, <3>1, GreatestOf
  <2>4. z \in V /\ z < x
    BY <2>3
  <2>5. Cardinality(B(z)) = Cardinality(B(x)) - 1
    <3> HIDE DEF B
    <3>1. QED
      BY <1>2, <1>5, <2>3, <2>4 DEF C
  <2>6. z \in C
    <3> HIDE DEF B
    <3>1. QED
      BY <1>1, <1>5, <2>1, <2>4, <2>5 DEF C
  <2>7. x \in Nat /\ z \in Nat
    BY <1>5, <2>4
  <2> HIDE DEF C, B
  <2>8. QED
    BY <1>5, <2>4, <2>6, <2>7
<1>7. x \in V /\ Cardinality(B(x)) = k
  <2> HIDE DEF B
  <2>1. QED
    BY <1>1, <1>5, <1>6 DEF C
<1>8. QED
  BY <1>7

\* The cursor is on a row that is there, or there is none.
LEMMA UnderIs ==
  ASSUME NEW s, NEW old, NEW sel \in Ids \cup {0}
  PROVE  Under(s, old, sel) \in Visible(s) \cup {0}
<1> DEFINE V == Visible(s)
           B(x) == {y \in V : y < x}
           line == Cardinality({x \in Visible(old) : x < sel})
           k == IF line < Cardinality(V) THEN line ELSE Cardinality(V) - 1
<1>1. V \in SUBSET Nat /\ IsFiniteSet(V) /\ Cardinality(V) \in Nat
  <2>1. V \subseteq Ids
    BY DEF Visible
  <2>2. QED
    BY <2>1, FS_Subset, FS_CardinalityType DEF ConsoleAssumption
<1>2. line \in Nat
  <2>1. {x \in Visible(old) : x < sel} \subseteq Ids
    BY DEF Visible
  <2>2. QED
    BY <2>1, FS_Subset, FS_CardinalityType DEF ConsoleAssumption
<1>3. CASE sel = 0 \/ V = {} \/ sel \in V
  BY <1>3 DEF Under
<1>4. CASE ~(sel = 0 \/ V = {} \/ sel \in V)
  <2>1. k \in Nat /\ k < Cardinality(V)
    <3>1. Cardinality(V) # 0
      BY <1>1, <1>4, FS_EmptySet
    <3> HIDE DEF V, line
    <3>2. QED
      BY <1>1, <1>2, <3>1
  <2>2. \E x \in V : Cardinality(B(x)) = k
    <3> HIDE DEF V, k
    <3>1. QED
      BY <1>1, <2>1, LineOf
  <2>3. (CHOOSE x \in V : Cardinality(B(x)) = k) \in V
    <3> HIDE DEF V, k, B
    <3>1. QED
      BY <2>2
  <2>4. Under(s, old, sel) = CHOOSE x \in V : Cardinality(B(x)) = k
    BY <1>4 DEF Under
  <2>5. QED
    BY <2>3, <2>4
<1>5. QED
  BY <1>3, <1>4

\* What travels in the channels.
Live == {"stopped", "started"}
JobOps == {"start", "stop", "softDelete", "remove"}
Jobs == [op : JobOps, id : Ids]
ListReqs == [op : {"list"}, seq : Nat, filter : SUBSET Ids]
Quits == [op : {"shutdown"}]
RowMaps == [Ids -> {"no", "stopped", "started"}]
JobAnswers == [op : JobOps, id : Ids, ok : BOOLEAN]
ListAnswers == [op : {"list"}, ok : {TRUE}, seq : Nat, filter : SUBSET Ids, rows : RowMaps]
ListFails == [op : {"list"}, ok : {FALSE}, seq : Nat, filter : SUBSET Ids]
Commands == Jobs \cup ListReqs \cup Quits
Mutations == Jobs \cup Quits
Reads == ListReqs \cup Quits
Events == JobAnswers \cup ListAnswers \cup ListFails

ScreenOK ==
    /\ shown \in RowMaps /\ selected \in Visible(shown) \cup {0} /\ filter \in SUBSET Ids
    /\ tomb \in [Ids -> Nat \cup {NoTomb, HideFromAll}] /\ sent \in Nat
    /\ quit \in {"no", "asked", "joins", "done"} /\ budget \in ConsoleProfile
ChannelsOK ==
    /\ commands \in Seq(Commands) /\ mutations \in Seq(Mutations)
    /\ reads \in Seq(Reads) /\ events \in Seq(Events)
PlaneOK ==
    /\ row \in [Ids -> {"none", "stopped", "started", "deleted"}]
    /\ control \in {"boots", "runs", "readerJoins", "mutatorJoins", "stops", "ended"} /\ slot \in BOOLEAN
    /\ mutator \in [pc : {"idle", "answers", "ended"}, answer : JobAnswers \cup {NoAnswer}]
    /\ mutator.pc = "answers" => mutator.answer \in JobAnswers
    /\ reader \in [pc : {"idle", "selects", "answers", "ended"}, seq : Nat,
                   filter : SUBSET Ids, rows : RowMaps]
ConsoleShape == ScreenOK /\ ChannelsOK /\ PlaneOK

\* A delete of x in a channel, lists in a channel by their generations, and
\* the lists that have a row for x.
IsDelete(m, x) == m.op \in Deleters /\ m.id = x
DeleteIn(q, x) == \E i \in DOMAIN q : IsDelete(q[i], x)
OnceIn(q, x) == \A i, j \in DOMAIN q : IsDelete(q[i], x) /\ IsDelete(q[j], x) => i = j
Answered(q, x, ok) == \E i \in DOMAIN q : IsDelete(q[i], x) /\ q[i].ok = ok
Gens(q) == {q[i].seq : i \in {k \in DOMAIN q : q[k].op = "list"}}
Rising(q) == \A i, j \in DOMAIN q :
                 i < j /\ q[i].op = "list" /\ q[j].op = "list" => q[i].seq < q[j].seq
HasRow(m, x) == m.op = "list" /\ m.ok /\ m.rows[x] # "no"
RowIn(q, x) == {q[i].seq : i \in {k \in DOMAIN q : HasRow(q[k], x)}}

\* What is sent on a channel.
LEMMA Sent ==
  ASSUME NEW S, NEW q \in Seq(S), NEW m \in S
  PROVE  /\ Append(q, m) \in Seq(S)
         /\ \A x : DeleteIn(Append(q, m), x) <=> DeleteIn(q, x) \/ IsDelete(m, x)
         /\ \A x : OnceIn(q, x) /\ (IsDelete(m, x) => ~DeleteIn(q, x)) => OnceIn(Append(q, m), x)
         /\ \A x, ok : Answered(Append(q, m), x, ok) <=> Answered(q, x, ok) \/ (IsDelete(m, x) /\ m.ok = ok)
         /\ Gens(Append(q, m)) = Gens(q) \cup (IF m.op = "list" THEN {m.seq} ELSE {})
         /\ Rising(q) /\ (m.op = "list" => \A n \in Gens(q) : n < m.seq) => Rising(Append(q, m))
         /\ \A x : RowIn(Append(q, m), x) = RowIn(q, x) \cup (IF HasRow(m, x) THEN {m.seq} ELSE {})
<1> DEFINE a == Append(q, m)
           n == Len(q)
<1>1. /\ a \in Seq(S) /\ n \in Nat /\ DOMAIN q = 1..n /\ DOMAIN a = 1..(n + 1)
      /\ \A i \in 1..n : a[i] = q[i]
      /\ a[n + 1] = m /\ n + 1 \notin 1..n
      /\ \A i : i \in 1..(n + 1) <=> i \in 1..n \/ i = n + 1
  OBVIOUS
<1> HIDE DEF a, n
<1>2. \A x : DeleteIn(a, x) <=> DeleteIn(q, x) \/ IsDelete(m, x)
  BY <1>1 DEF DeleteIn
<1>3. \A x : OnceIn(q, x) /\ (IsDelete(m, x) => ~DeleteIn(q, x)) => OnceIn(a, x)
  BY <1>1 DEF DeleteIn, OnceIn
<1>4. \A x, ok : Answered(a, x, ok) <=> Answered(q, x, ok) \/ (IsDelete(m, x) /\ m.ok = ok)
  BY <1>1 DEF Answered
<1>5. Gens(a) = Gens(q) \cup (IF m.op = "list" THEN {m.seq} ELSE {})
  BY <1>1 DEF Gens
<1>6. Rising(q) /\ (m.op = "list" => \A k \in Gens(q) : k < m.seq) => Rising(a)
  <2>1. SUFFICES ASSUME Rising(q), m.op = "list" => \A k \in Gens(q) : k < m.seq,
                        NEW i \in 1..(n + 1), NEW j \in 1..(n + 1), i < j,
                        a[i].op = "list", a[j].op = "list"
                 PROVE  a[i].seq < a[j].seq
    BY <1>1 DEF Rising
  <2>2. i \in 1..n
    BY <1>1, <2>1
  <2>3. CASE j \in 1..n
    BY <1>1, <2>1, <2>2, <2>3 DEF Rising
  <2>4. CASE j = n + 1
    <3>1. q[i].seq \in Gens(q)
      BY <1>1, <2>1, <2>2 DEF Gens
    <3>2. QED
      BY <1>1, <2>1, <2>2, <2>4, <3>1
  <2>5. QED
    BY <1>1, <2>3, <2>4
<1>7. \A x : RowIn(a, x) = RowIn(q, x) \cup (IF HasRow(m, x) THEN {m.seq} ELSE {})
  BY <1>1 DEF RowIn
<1>8. QED
  BY <1>1, <1>2, <1>3, <1>4, <1>5, <1>6, <1>7 DEF a

\* What is taken from a channel.
LEMMA Taken ==
  ASSUME NEW S, NEW q \in Seq(S), q # <<>>
  PROVE  /\ Tail(q) \in Seq(S) /\ Head(q) \in S
         /\ \A x : DeleteIn(q, x) <=> DeleteIn(Tail(q), x) \/ IsDelete(Head(q), x)
         /\ \A x : OnceIn(q, x) => OnceIn(Tail(q), x) /\ (IsDelete(Head(q), x) => ~DeleteIn(Tail(q), x))
         /\ \A x, ok : Answered(q, x, ok) <=> Answered(Tail(q), x, ok) \/ (IsDelete(Head(q), x) /\ Head(q).ok = ok)
         /\ Gens(q) = Gens(Tail(q)) \cup (IF Head(q).op = "list" THEN {Head(q).seq} ELSE {})
         /\ Rising(q) => /\ Rising(Tail(q))
                         /\ Head(q).op = "list" => \A n \in Gens(Tail(q)) : Head(q).seq < n
         /\ \A x : RowIn(q, x) = RowIn(Tail(q), x) \cup (IF HasRow(Head(q), x) THEN {Head(q).seq} ELSE {})
<1> DEFINE t == Tail(q)
           n == Len(q)
           h == Head(q)
<1>1. /\ t \in Seq(S) /\ h \in S /\ n \in Nat \ {0} /\ DOMAIN q = 1..n /\ DOMAIN t = 1..(n - 1)
      /\ \A i \in 1..(n - 1) : t[i] = q[i + 1] /\ i + 1 \in 1..n /\ i + 1 # 1
      /\ h = q[1] /\ 1 \in 1..n
      /\ \A i \in 1..n : i = 1 \/ (i - 1 \in 1..(n - 1) /\ t[i - 1] = q[i])
      /\ \A i, j \in 1..(n - 1) : i + 1 = j + 1 => i = j
  OBVIOUS
<1> HIDE DEF t, n, h
<1>2. \A x : DeleteIn(q, x) <=> DeleteIn(t, x) \/ IsDelete(h, x)
  BY <1>1 DEF DeleteIn
<1>3. ASSUME NEW x, OnceIn(q, x) PROVE OnceIn(t, x) /\ (IsDelete(h, x) => ~DeleteIn(t, x))
  <2>1. OnceIn(t, x)
    <3>1. SUFFICES ASSUME NEW i \in 1..(n - 1), NEW j \in 1..(n - 1),
                          IsDelete(t[i], x), IsDelete(t[j], x)
                   PROVE  i = j
      BY <1>1 DEF OnceIn
    <3>2. i + 1 = j + 1
      BY <1>1, <1>3, <3>1 DEF OnceIn
    <3>3. QED
      BY <1>1, <3>2
  <2>2. ASSUME IsDelete(h, x), NEW i \in 1..(n - 1), IsDelete(t[i], x) PROVE FALSE
    <3>1. i + 1 = 1
      BY <1>1, <1>3, <2>2 DEF OnceIn
    <3>2. QED
      BY <1>1, <3>1
  <2>3. QED
    BY <1>1, <2>1, <2>2 DEF DeleteIn
<1>4. \A x, ok : Answered(q, x, ok) <=> Answered(t, x, ok) \/ (IsDelete(h, x) /\ h.ok = ok)
  BY <1>1 DEF Answered
<1>5. Gens(q) = Gens(t) \cup (IF h.op = "list" THEN {h.seq} ELSE {})
  <2>1. ASSUME NEW g \in Gens(t) PROVE g \in Gens(q)
    <3>1. PICK i \in 1..(n - 1) : t[i].op = "list" /\ g = t[i].seq
      BY <1>1 DEF Gens
    <3>2. i + 1 \in 1..n /\ q[i + 1].op = "list" /\ g = q[i + 1].seq
      BY <1>1, <3>1
    <3>3. QED
      BY <1>1, <3>2 DEF Gens
  <2>2. h.op = "list" => h.seq \in Gens(q)
    BY <1>1 DEF Gens
  <2>3. ASSUME NEW g \in Gens(q) PROVE g \in Gens(t) \/ (h.op = "list" /\ g = h.seq)
    <3>1. PICK i \in 1..n : q[i].op = "list" /\ g = q[i].seq
      BY <1>1 DEF Gens
    <3>2. CASE i = 1
      BY <1>1, <3>1, <3>2
    <3>3. CASE i # 1
      <4>1. i - 1 \in DOMAIN t /\ t[i - 1] = q[i]
        BY <1>1, <3>3
      <4>2. QED
        BY <3>1, <4>1 DEF Gens
    <3>4. QED
      BY <3>2, <3>3
  <2>4. QED
    BY <2>1, <2>2, <2>3
<1>6. Rising(q) => Rising(t) /\ (h.op = "list" => \A k \in Gens(t) : h.seq < k)
  <2>1. SUFFICES ASSUME Rising(q) PROVE Rising(t) /\ (h.op = "list" => \A k \in Gens(t) : h.seq < k)
    OBVIOUS
  <2>2. ASSUME NEW i \in 1..(n - 1), NEW j \in 1..(n - 1), i < j, t[i].op = "list", t[j].op = "list"
        PROVE  t[i].seq < t[j].seq
    <3>1. i + 1 < j + 1 /\ i + 1 \in DOMAIN q /\ j + 1 \in DOMAIN q
      BY <1>1, <2>2
    <3>2. q[i + 1] = t[i] /\ q[j + 1] = t[j]
      BY <1>1
    <3>3. QED
      BY <2>1, <2>2, <3>1, <3>2 DEF Rising
  <2>3. ASSUME h.op = "list", NEW k \in Gens(t) PROVE h.seq < k
    <3>1. PICK i \in 1..(n - 1) : t[i].op = "list" /\ k = t[i].seq
      BY <1>1 DEF Gens
    <3>2. 1 < i + 1 /\ q[i + 1] = t[i] /\ i + 1 \in 1..n
      BY <1>1, <3>1
    <3>3. QED
      BY <1>1, <2>1, <2>3, <3>1, <3>2 DEF Rising
  <2>4. Rising(t)
    BY <1>1, <2>2 DEF Rising
  <2>5. QED
    BY <2>3, <2>4
<1>7. \A x : RowIn(q, x) = RowIn(t, x) \cup (IF HasRow(h, x) THEN {h.seq} ELSE {})
  <2> TAKE x
  <2>1. ASSUME NEW g \in RowIn(t, x) PROVE g \in RowIn(q, x)
    <3>1. PICK i \in 1..(n - 1) : HasRow(t[i], x) /\ g = t[i].seq
      BY <1>1 DEF RowIn
    <3>2. i + 1 \in 1..n /\ HasRow(q[i + 1], x) /\ g = q[i + 1].seq
      BY <1>1, <3>1
    <3>3. QED
      BY <1>1, <3>2 DEF RowIn
  <2>2. HasRow(h, x) => h.seq \in RowIn(q, x)
    BY <1>1 DEF RowIn
  <2>3. ASSUME NEW g \in RowIn(q, x) PROVE g \in RowIn(t, x) \/ (HasRow(h, x) /\ g = h.seq)
    <3>1. PICK i \in 1..n : HasRow(q[i], x) /\ g = q[i].seq
      BY <1>1 DEF RowIn
    <3>2. CASE i = 1
      BY <1>1, <3>1, <3>2
    <3>3. CASE i # 1
      <4>1. i - 1 \in DOMAIN t /\ t[i - 1] = q[i]
        BY <1>1, <3>3
      <4>2. QED
        BY <3>1, <4>1 DEF RowIn
    <3>4. QED
      BY <3>2, <3>3
  <2>4. QED
    BY <2>1, <2>2, <2>3
<1>8. QED
  BY <1>1, <1>2, <1>3, <1>4, <1>5, <1>6, <1>7 DEF t, h

\* The newest of what waits.
LEMMA Newest ==
  ASSUME NEW S, NEW q \in Seq(S), q # <<>>
  PROVE  Last(q) \in S /\ (Last(q).op = "list" => Last(q).seq \in Gens(q))
<1>1. Len(q) \in DOMAIN q
  OBVIOUS
<1>2. QED
  BY <1>1 DEF Last, Gens

\* An empty channel.
LEMMA NothingIn ==
  /\ \A x : ~DeleteIn(<<>>, x) /\ OnceIn(<<>>, x) /\ RowIn(<<>>, x) = {}
  /\ \A x, ok : ~Answered(<<>>, x, ok)
  /\ Gens(<<>>) = {} /\ Rising(<<>>)
BY DEF DeleteIn, OnceIn, Answered, Gens, RowIn, Rising

\* Generations of a channel are numbers, and a list with a row for x is a list.
LEMMA RowsAreGens == \A q, x : RowIn(q, x) \subseteq Gens(q)
BY DEF RowIn, Gens, HasRow

\* A delete of x under way: on its way to the worker, or on its way back.
Answering(x) == mutator.pc = "answers" /\ IsDelete(mutator.answer, x)
Coming(x) == DeleteIn(commands, x) \/ DeleteIn(mutations, x)
Underway(x) == Coming(x) \/ Answering(x) \/ DeleteIn(events, x)
\* It has not been done, or has.
Undone(x) == Coming(x) \/ (Answering(x) /\ ~mutator.answer.ok) \/ Answered(events, x, FALSE)
Done(x) == (Answering(x) /\ mutator.answer.ok) \/ Answered(events, x, TRUE)

HiddenPends == \A x \in Ids : tomb[x] = HideFromAll => Underway(x)

\* Generations rise along the way of a list, from its answer to its request.
ReaderGens == IF reader.pc \in {"selects", "answers"} THEN {reader.seq} ELSE {}
UpTo(T, n) == \A k \in T : k \in Nat /\ k <= n
Below(T, U) == \A n \in T, m \in U : n < m
ListsRise ==
    /\ Rising(events) /\ Rising(reads) /\ Rising(commands)
    /\ UpTo(Gens(events), sent) /\ UpTo(ReaderGens, sent)
    /\ UpTo(Gens(reads), sent) /\ UpTo(Gens(commands), sent)
    /\ Below(Gens(events), ReaderGens) /\ Below(Gens(events), Gens(reads))
    /\ Below(Gens(events), Gens(commands)) /\ Below(ReaderGens, Gens(reads))
    /\ Below(ReaderGens, Gens(commands)) /\ Below(Gens(reads), Gens(commands))

\* A row is deleted once at a time, hidden meanwhile, and there until then.
OneDelete(x) ==
    /\ OnceIn(commands, x) /\ OnceIn(mutations, x) /\ OnceIn(events, x)
    /\ DeleteIn(commands, x) => ~DeleteIn(mutations, x) /\ ~Answering(x) /\ ~DeleteIn(events, x)
    /\ DeleteIn(mutations, x) => ~Answering(x) /\ ~DeleteIn(events, x)
    /\ Answering(x) => ~DeleteIn(events, x)
DeletesHide == \A x \in Ids :
    /\ OneDelete(x)
    /\ Underway(x) => tomb[x] = HideFromAll /\ shown[x] = "no"
    /\ Undone(x) => row[x] \in Live
    /\ shown[x] # "no" => row[x] \in Live

\* A list that has a row is true of the row, or the row's tombstone hides it.
ReaderRows(x) == IF reader.pc = "answers" /\ reader.rows[x] # "no" THEN {reader.seq} ELSE {}
ListsTrue == \A x \in Ids :
    row[x] \in Live \/ Done(x) \/ \A n \in RowIn(events, x) \cup ReaderRows(x) : n <= tomb[x]

ConsoleInv == ConsoleShape /\ HiddenPends /\ ListsRise /\ (~budget.typed => DeletesHide /\ ListsTrue)

\* What the bounds allow.
LEMMA PaysIs ==
  ASSUME budget \in ConsoleProfile,
         NEW b \in {"presses", "kicks", "restores", "faults", "filters"}, Pays(b)
  PROVE  budget' \in ConsoleProfile /\ budget'.typed = budget.typed
<1>1. PICK p \in Nat, k \in Nat, r \in Nat, f \in Nat, g \in Nat, t \in BOOLEAN :
         budget = [presses |-> p, kicks |-> k, restores |-> r, faults |-> f, filters |-> g, typed |-> t]
  BY DEF ConsoleProfile
<1>2. CASE b = "presses"
  BY <1>1, <1>2 DEF Pays, ConsoleProfile
<1>3. CASE b = "kicks"
  BY <1>1, <1>3 DEF Pays, ConsoleProfile
<1>4. CASE b = "restores"
  BY <1>1, <1>4 DEF Pays, ConsoleProfile
<1>5. CASE b = "faults"
  BY <1>1, <1>5 DEF Pays, ConsoleProfile
<1>6. CASE b = "filters"
  BY <1>1, <1>6 DEF Pays, ConsoleProfile
<1>7. QED
  BY <1>2, <1>3, <1>4, <1>5, <1>6

\* What is in a channel says what it is.
LEMMA MessagesAre ==
  /\ \A m \in Commands : m.op \in JobOps \cup {"list", "shutdown"}
  /\ \A m \in Commands : m.op = "list" => m \in Reads /\ m.seq \in Nat /\ m.filter \in SUBSET Ids
  /\ \A m \in Commands : m.op = "shutdown" => m \in Reads /\ m \in Mutations
  /\ \A m \in Commands : m.op \in JobOps => m \in Mutations /\ m.id \in Ids
  /\ \A m \in Reads : m.op \in {"list", "shutdown"}
  /\ \A m \in Reads : m.op = "list" => m.seq \in Nat /\ m.filter \in SUBSET Ids
  /\ \A m \in Mutations : m.op \in JobOps \cup {"shutdown"} /\ (m.op # "shutdown" => m \in Jobs)
  /\ \A m \in Events : m.op \in JobOps \cup {"list"} /\ m.ok \in BOOLEAN
  /\ \A m \in Events : m.op = "list" => m.seq \in Nat /\ m.filter \in SUBSET Ids
                                        /\ (m.ok => m.rows \in RowMaps)
  /\ \A m \in Events : m.op # "list" => m \in JobAnswers
  /\ [op |-> "shutdown"] \in Mutations /\ [op |-> "shutdown"] \in Commands
BY DEF Commands, Reads, Mutations, Events, Jobs, ListReqs, Quits, JobAnswers, ListAnswers, ListFails, JobOps

\* A request for a list.
LEMMA RequestIs ==
  ASSUME NEW n \in Nat, NEW f \in SUBSET Ids
  PROVE  LET m == [op |-> "list", seq |-> n, filter |-> f]
         IN m \in Commands /\ m \in Reads /\ \A x : ~IsDelete(m, x)
BY DEF Commands, Reads, ListReqs, IsDelete, Deleters

\* What neither moves a message nor changes a row or the screen.
LEMMA QuietStep ==
  ASSUME ConsoleInv, UNCHANGED <<row, commands, mutations, reads, mutator, reader, events>>,
         UNCHANGED <<shown, filter, tomb, sent>>, selected' \in Visible(shown) \cup {0},
         (control \in {"boots", "runs", "readerJoins", "mutatorJoins", "stops", "ended"})', slot' \in BOOLEAN,
         (quit \in {"no", "asked", "joins", "done"})',
         budget' \in ConsoleProfile /\ budget'.typed = budget.typed
  PROVE  ConsoleInv'
<1>1. ConsoleShape'
  BY DEF ConsoleInv, ConsoleShape, ScreenOK, ChannelsOK, PlaneOK, Visible
<1>2. HiddenPends'
  BY DEF ConsoleInv, HiddenPends, Underway, Coming, Answering
<1>3. ListsRise'
  BY DEF ConsoleInv, ListsRise, ReaderGens
<1>4. ASSUME ~budget.typed PROVE DeletesHide' /\ ListsTrue'
  <2>1. DeletesHide'
    BY <1>4 DEF ConsoleInv, DeletesHide, OneDelete, Underway, Undone, Coming, Answering
  <2>2. ListsTrue'
    BY <1>4 DEF ConsoleInv, ListsTrue, ReaderRows, Done, Answering
  <2>3. QED
    BY <2>1, <2>2
<1>5. QED
  BY <1>1, <1>2, <1>3, <1>4 DEF ConsoleInv

LEMMA QuietSteps ==
  ASSUME ConsoleInv, ControlBoots \/ ControlJoins \/ ControlEnds \/ UiEnds \/ \E x \in Ids : UserSelects(x)
  PROVE  ConsoleInv'
<1>1. /\ ScreenOK /\ budget \in ConsoleProfile /\ slot \in BOOLEAN
      /\ control \in {"boots", "runs", "readerJoins", "mutatorJoins", "stops", "ended"}
      /\ selected \in Visible(shown) \cup {0} /\ quit \in {"no", "asked", "joins", "done"}
  BY DEF ConsoleInv, ConsoleShape, ScreenOK, PlaneOK
<1>2. CASE ControlBoots
  <2>1. budget' \in ConsoleProfile /\ budget'.typed = budget.typed
    BY <1>1, <1>2, PaysIs DEF ControlBoots
  <2>2. QED
    BY <1>1, <1>2, <2>1, QuietStep DEF ControlBoots, uiVars
<1>3. CASE ControlJoins
  BY <1>1, <1>3, QuietStep DEF ControlJoins, uiVars
<1>4. CASE ControlEnds
  BY <1>1, <1>4, QuietStep DEF ControlEnds, uiVars
<1>5. CASE UiEnds
  BY <1>1, <1>5, QuietStep DEF UiEnds, uiVars, planeVars
<1>6. CASE \E x \in Ids : UserSelects(x)
  BY <1>1, <1>6, QuietStep DEF UserSelects, planeVars
<1>7. QED
  BY <1>2, <1>3, <1>4, <1>5, <1>6

LEMMA InvIs ==
  ASSUME ConsoleInv
  PROVE  /\ ScreenOK /\ ChannelsOK /\ PlaneOK /\ HiddenPends /\ ListsRise
         /\ ~budget.typed => DeletesHide /\ ListsTrue
         /\ budget \in ConsoleProfile
BY DEF ConsoleInv, ConsoleShape, ScreenOK

LEMMA ControlTakesKeeps == ASSUME ConsoleInv, ControlTakes PROVE ConsoleInv'
<1> DEFINE c == Head(commands)
<1>1. /\ ScreenOK /\ ChannelsOK /\ PlaneOK /\ HiddenPends /\ ListsRise
      /\ ~budget.typed => DeletesHide /\ ListsTrue
  BY InvIs
<1>2. /\ commands # <<>> /\ commands' = Tail(commands)
      /\ UNCHANGED <<row, slot, mutator, reader, events, shown, selected, filter, tomb, sent, quit, budget>>
  BY DEF ControlTakes, uiVars
<1>3. /\ commands \in Seq(Commands) /\ mutations \in Seq(Mutations) /\ reads \in Seq(Reads)
  BY <1>1 DEF ChannelsOK
<1>4. c \in Commands /\ commands' \in Seq(Commands)
  BY <1>2, <1>3, Taken
<1>5. /\ \A x : DeleteIn(commands, x) <=> DeleteIn(commands', x) \/ IsDelete(c, x)
      /\ \A x : OnceIn(commands, x) => OnceIn(commands', x) /\ (IsDelete(c, x) => ~DeleteIn(commands', x))
      /\ Gens(commands) = Gens(commands') \cup (IF c.op = "list" THEN {c.seq} ELSE {})
      /\ Rising(commands) => Rising(commands') /\ (c.op = "list" => \A n \in Gens(commands') : c.seq < n)
  BY <1>2, <1>3, Taken
<1>6. ScreenOK'
  BY <1>1, <1>2 DEF ScreenOK, Visible
<1> HIDE DEF c
<1>7. CASE c.op \in {"list", "shutdown"}
  <2>1. c \in Reads /\ reads' = Append(reads, c) /\ ~(\E x : IsDelete(c, x))
    BY <1>4, <1>7, MessagesAre DEF ControlTakes, c, IsDelete, Deleters
  <2>2. mutations' = mutations \/ mutations' = Append(mutations, [op |-> "shutdown"])
    BY <1>7 DEF ControlTakes, ShutdownMutator, c
  <2>3. control' = control \/ control' = "readerJoins"
    BY <1>7 DEF ControlTakes, c
  <2>4. /\ reads' \in Seq(Reads)
        /\ Gens(reads') = Gens(reads) \cup (IF c.op = "list" THEN {c.seq} ELSE {})
        /\ Rising(reads) /\ (c.op = "list" => \A n \in Gens(reads) : n < c.seq) => Rising(reads')
    BY <1>3, <2>1, Sent
  <2>5. /\ mutations' \in Seq(Mutations)
        /\ \A x : DeleteIn(mutations', x) <=> DeleteIn(mutations, x)
        /\ \A x : OnceIn(mutations, x) => OnceIn(mutations', x)
    <3>1. [op |-> "shutdown"] \in Mutations /\ \A x : ~IsDelete([op |-> "shutdown"], x)
      BY MessagesAre DEF IsDelete, Deleters
    <3>2. CASE mutations' = mutations
      BY <1>3, <3>2
    <3>3. CASE mutations' = Append(mutations, [op |-> "shutdown"])
      BY <1>3, <3>1, <3>3, Sent
    <3>4. QED
      BY <2>2, <3>2, <3>3
  <2>6. ChannelsOK' /\ PlaneOK'
    BY <1>1, <1>2, <1>4, <2>3, <2>4, <2>5 DEF ChannelsOK, PlaneOK
  <2>7. \A x : /\ DeleteIn(commands', x) <=> DeleteIn(commands, x)
               /\ OnceIn(commands, x) => OnceIn(commands', x)
    BY <1>5, <2>1
  <2>8. HiddenPends'
    BY <1>1, <1>2, <2>5, <2>7 DEF HiddenPends, Underway, Coming, Answering
  <2>9. ListsRise'
    <3>1. ReaderGens' = ReaderGens /\ Gens(events)' = Gens(events) /\ sent' = sent
      BY <1>2 DEF ReaderGens
    <3>2. Rising(reads)' /\ Rising(commands)' /\ Rising(events)'
      BY <1>1, <1>2, <1>5, <2>4 DEF ListsRise, Below
    <3>3. UpTo(Gens(reads)', sent) /\ UpTo(Gens(commands)', sent)
      BY <1>1, <1>5, <2>4 DEF ListsRise, UpTo
    <3>4. /\ Below(Gens(events), Gens(reads)') /\ Below(Gens(events), Gens(commands)')
          /\ Below(ReaderGens, Gens(reads)') /\ Below(ReaderGens, Gens(commands)')
      BY <1>1, <1>5, <2>4 DEF ListsRise, Below
    <3>5. Below(Gens(reads)', Gens(commands)')
      BY <1>1, <1>5, <2>4 DEF ListsRise, Below
    <3>6. QED
      BY <1>1, <1>2, <3>1, <3>2, <3>3, <3>4, <3>5 DEF ListsRise
  <2>10. ASSUME ~budget.typed PROVE DeletesHide' /\ ListsTrue'
    <3>1. DeletesHide'
      BY <1>1, <1>2, <2>5, <2>7, <2>10 DEF DeletesHide, OneDelete, Underway, Undone, Coming, Answering
    <3>2. ListsTrue'
      BY <1>1, <1>2, <2>10 DEF ListsTrue, ReaderRows, Done, Answering
    <3>3. QED
      BY <3>1, <3>2
  <2>11. QED
    BY <1>2, <1>6, <2>6, <2>8, <2>9, <2>10 DEF ConsoleInv, ConsoleShape
<1>8. CASE c.op \in JobOps
  <2>1. c \in Mutations /\ mutations' = Append(mutations, c) /\ reads' = reads /\ control' = control
    BY <1>4, <1>8, MessagesAre DEF ControlTakes, c, JobOps
  <2>2. /\ mutations' \in Seq(Mutations)
        /\ \A x : DeleteIn(mutations', x) <=> DeleteIn(mutations, x) \/ IsDelete(c, x)
        /\ \A x : OnceIn(mutations, x) /\ (IsDelete(c, x) => ~DeleteIn(mutations, x)) => OnceIn(mutations', x)
    BY <1>3, <2>1, Sent
  <2>3. ChannelsOK' /\ PlaneOK'
    BY <1>1, <1>2, <1>4, <2>1, <2>2 DEF ChannelsOK, PlaneOK
  <2>4. Gens(commands') = Gens(commands) /\ (Rising(commands) => Rising(commands'))
    BY <1>5, <1>8 DEF JobOps
  <2>5. HiddenPends'
    BY <1>1, <1>2, <1>5, <2>2 DEF HiddenPends, Underway, Coming, Answering
  <2>6. ListsRise'
    BY <1>1, <1>2, <2>1, <2>4 DEF ListsRise, ReaderGens
  <2>7. ASSUME ~budget.typed PROVE DeletesHide' /\ ListsTrue'
    <3>1. ASSUME NEW x \in Ids PROVE OneDelete(x)'
      <4>1. OneDelete(x)
        BY <1>1, <2>7 DEF DeletesHide
      <4>2. QED
        BY <1>2, <1>5, <2>2, <4>1 DEF OneDelete, Answering
    <3>2. \A x : (Underway(x)' => Underway(x)) /\ (Undone(x)' => Undone(x))
      BY <1>2, <1>5, <2>2 DEF Underway, Undone, Coming, Answering
    <3>3. DeletesHide'
      BY <1>1, <1>2, <2>7, <3>1, <3>2 DEF DeletesHide
    <3>4. ListsTrue'
      BY <1>1, <1>2, <2>7 DEF ListsTrue, ReaderRows, Done, Answering
    <3>5. QED
      BY <3>3, <3>4
  <2>8. QED
    BY <1>2, <1>6, <2>3, <2>5, <2>6, <2>7 DEF ConsoleInv, ConsoleShape
<1>9. QED
  BY <1>4, <1>7, <1>8, MessagesAre

\* What a job makes of a row.
LEMMA OutcomeIs ==
  ASSUME NEW op \in JobOps, NEW r \in {"none", "stopped", "started", "deleted"}
  PROVE  LET o == Outcome(op, r)
         IN /\ o \in {"none", "stopped", "started", "deleted", "failed"}
            /\ o # "failed" => (o \in Live <=> op \notin Deleters)
            /\ o # "failed" /\ op \notin Deleters => r \in Live
BY DEF Outcome, JobOps, Live, Deleters

LEMMA MutatorWorksKeeps == ASSUME ConsoleInv, MutatorWorks PROVE ConsoleInv'
<1> DEFINE j == Head(mutations)
<1>1. /\ ScreenOK /\ ChannelsOK /\ PlaneOK /\ HiddenPends /\ ListsRise
      /\ ~budget.typed => DeletesHide /\ ListsTrue
      /\ budget \in ConsoleProfile
  BY InvIs
<1>2. /\ mutator.pc = "idle" /\ mutations # <<>> /\ mutations' = Tail(mutations)
      /\ UNCHANGED <<control, slot, commands, reads, reader, events, shown, selected, filter, tomb, sent, quit>>
  BY DEF MutatorWorks, uiVars
<1>3. /\ mutations \in Seq(Mutations) /\ \A x : ~Answering(x)
  BY <1>1, <1>2 DEF ChannelsOK, Answering
<1>4. j \in Mutations /\ mutations' \in Seq(Mutations)
  BY <1>2, <1>3, Taken
<1>5. /\ \A x : DeleteIn(mutations, x) <=> DeleteIn(mutations', x) \/ IsDelete(j, x)
      /\ \A x : OnceIn(mutations, x) => OnceIn(mutations', x) /\ (IsDelete(j, x) => ~DeleteIn(mutations', x))
  BY <1>2, <1>3, Taken
<1>6. ListsRise'
  BY <1>1, <1>2 DEF ListsRise, ReaderGens
<1> HIDE DEF j
<1>7. CASE j.op = "shutdown"
  <2>1. mutator' = [mutator EXCEPT !.pc = "ended"] /\ UNCHANGED <<row, budget>>
    BY <1>7 DEF MutatorWorks, j
  <2>2. mutator' \in [pc : {"idle", "answers", "ended"}, answer : JobAnswers \cup {NoAnswer}] /\ mutator'.pc = "ended"
    BY <1>1, <2>1 DEF PlaneOK
  <2>3. \A x : /\ ~Answering(x)'
               /\ DeleteIn(mutations', x) <=> DeleteIn(mutations, x)
               /\ OnceIn(mutations, x) => OnceIn(mutations', x)
    BY <1>5, <1>7, <2>2 DEF Answering, IsDelete, Deleters
  <2>4. ConsoleShape'
    BY <1>1, <1>2, <1>4, <2>1, <2>2 DEF ConsoleShape, ScreenOK, ChannelsOK, PlaneOK, Visible
  <2>5. HiddenPends'
    BY <1>1, <1>2, <1>3, <2>3 DEF HiddenPends, Underway, Coming
  <2>6. ASSUME ~budget.typed PROVE DeletesHide' /\ ListsTrue'
    <3>1. DeletesHide'
      <4>1. ASSUME NEW x \in Ids PROVE OneDelete(x)'
        BY <1>1, <1>2, <2>3, <2>6 DEF DeletesHide, OneDelete
      <4>2. \A x : (Underway(x)' => Underway(x)) /\ (Undone(x)' => Undone(x))
        BY <1>2, <2>3 DEF Underway, Undone, Coming
      <4>3. QED
        BY <1>1, <1>2, <2>1, <2>6, <4>1, <4>2 DEF DeletesHide
    <3>2. ListsTrue'
      BY <1>1, <1>2, <1>3, <2>1, <2>3, <2>6 DEF ListsTrue, ReaderRows, Done
    <3>3. QED
      BY <3>1, <3>2
  <2>7. QED
    BY <1>6, <2>1, <2>4, <2>5, <2>6 DEF ConsoleInv
<1>8. CASE j.op # "shutdown"
  <2>1. j \in Jobs /\ j.op \in JobOps /\ j.id \in Ids
    BY <1>4, <1>8, MessagesAre DEF Jobs
  <2>2. PICK o \in {Outcome(j.op, row[j.id]), "failed"} :
           /\ IF o # "failed" THEN row' = [row EXCEPT ![j.id] = o] ELSE row' = row
           /\ IF o = Outcome(j.op, row[j.id]) THEN budget' = budget ELSE Pays("faults")
           /\ mutator' = [pc |-> "answers", answer |-> [op |-> j.op, id |-> j.id, ok |-> o # "failed"]]
    BY <1>8 DEF MutatorWorks, j
  <2>3. row[j.id] \in {"none", "stopped", "started", "deleted"}
    BY <1>1, <2>1 DEF PlaneOK
  <2>4. /\ o \in {"none", "stopped", "started", "deleted", "failed"}
        /\ o # "failed" => (o \in Live <=> j.op \notin Deleters)
        /\ o # "failed" /\ j.op \notin Deleters => row[j.id] \in Live
    BY <2>1, <2>2, <2>3, OutcomeIs
  <2>5. budget' \in ConsoleProfile /\ budget'.typed = budget.typed
    BY <1>1, <2>2, PaysIs
  <2>6. mutator'.answer \in JobAnswers /\ mutator' \in [pc : {"idle", "answers", "ended"}, answer : JobAnswers \cup {NoAnswer}]
    BY <2>1, <2>2 DEF JobAnswers
  <2>7. /\ mutator'.pc = "answers" /\ mutator'.answer.ok = (o # "failed")
        /\ \A x : IsDelete(mutator'.answer, x) <=> IsDelete(j, x)
    BY <2>2 DEF IsDelete
  <2>8. row' \in [Ids -> {"none", "stopped", "started", "deleted"}]
    BY <1>1, <2>2, <2>4 DEF PlaneOK
  <2>9. ConsoleShape'
    BY <1>1, <1>2, <1>4, <2>5, <2>6, <2>8 DEF ConsoleShape, ScreenOK, ChannelsOK, PlaneOK, Visible
  <2>10. \A x : (Underway(x)' <=> Underway(x)) /\ (Answering(x)' <=> IsDelete(j, x))
    BY <1>2, <1>3, <1>5, <2>7 DEF Underway, Coming, Answering
  <2>11. HiddenPends'
    BY <1>1, <1>2, <2>10 DEF HiddenPends
  <2>12. ASSUME ~budget.typed PROVE DeletesHide' /\ ListsTrue'
    <3>1. ASSUME NEW x \in Ids PROVE OneDelete(x)'
      <4>1. OneDelete(x)
        BY <1>1, <2>12 DEF DeletesHide
      <4>2. QED
        BY <1>2, <1>5, <2>10, <4>1 DEF OneDelete
    <3>2. ASSUME NEW x \in Ids PROVE row'[x] \in Live \/ (IsDelete(j, x) /\ o # "failed") \/ row[x] \notin Live
      <4>1. CASE o = "failed"
        BY <2>2, <4>1
      <4>2. CASE o # "failed"
        <5>1. row' = [row EXCEPT ![j.id] = o] /\ row \in [Ids -> {"none", "stopped", "started", "deleted"}]
          BY <1>1, <2>2, <4>2 DEF PlaneOK
        <5>2. CASE x = j.id
          BY <2>4, <4>2, <5>1, <5>2 DEF IsDelete
        <5>3. CASE x # j.id
          BY <5>1, <5>3
        <5>4. QED
          BY <5>2, <5>3
      <4>3. QED
        BY <4>1, <4>2
    <3>3. ASSUME NEW x \in Ids PROVE (Undone(x)' => row'[x] \in Live) /\ (shown'[x] # "no" => row'[x] \in Live)
      <4>1. OneDelete(x) /\ (Underway(x) => shown[x] = "no") /\ (Undone(x) => row[x] \in Live)
            /\ (shown[x] # "no" => row[x] \in Live)
        BY <1>1, <2>12 DEF DeletesHide
      <4>2. IsDelete(j, x) => DeleteIn(mutations, x) /\ Underway(x) /\ Undone(x) /\ ~DeleteIn(commands, x)
                              /\ ~DeleteIn(mutations', x) /\ ~DeleteIn(events, x)
        BY <1>5, <4>1 DEF Underway, Undone, Coming, OneDelete
      <4>3. Answered(events, x, FALSE) => DeleteIn(events, x)
        BY DEF Answered, DeleteIn
      <4>4. shown'[x] # "no" => row'[x] \in Live
        BY <1>2, <3>2, <4>1, <4>2
      <4>5. CASE ~IsDelete(j, x)
        <5>1. Undone(x)' => Undone(x)
          BY <1>2, <1>5, <2>10, <4>5 DEF Undone, Coming
        <5>2. QED
          BY <3>2, <4>1, <4>4, <4>5, <5>1
      <4>6. CASE IsDelete(j, x) /\ o = "failed"
        BY <2>2, <4>1, <4>2, <4>4, <4>6
      <4>7. CASE IsDelete(j, x) /\ o # "failed"
        <5>1. ~Undone(x)'
          BY <1>2, <2>7, <4>2, <4>3, <4>7 DEF Undone, Coming
        <5>2. QED
          BY <4>4, <5>1
      <4>8. QED
        BY <4>5, <4>6, <4>7
    <3>4. DeletesHide'
      BY <1>1, <1>2, <2>10, <2>12, <3>1, <3>3 DEF DeletesHide
    <3>5. ASSUME NEW x \in Ids
          PROVE  row'[x] \in Live \/ Done(x)' \/ \A n \in RowIn(events, x)' \cup ReaderRows(x)' : n <= tomb'[x]
      <4>1. row[x] \in Live \/ Done(x) \/ \A n \in RowIn(events, x) \cup ReaderRows(x) : n <= tomb[x]
        BY <1>1, <2>12 DEF ListsTrue
      <4>2. Done(x) => Done(x)'
        BY <1>2, <1>3 DEF Done
      <4>3. IsDelete(j, x) /\ o # "failed" => Done(x)'
        BY <2>7 DEF Done, Answering
      <4>4. UNCHANGED <<RowIn(events, x), ReaderRows(x), tomb>>
        BY <1>2 DEF ReaderRows
      <4>5. QED
        BY <3>2, <4>1, <4>2, <4>3, <4>4
    <3>6. ListsTrue'
      BY <3>5 DEF ListsTrue
    <3>7. QED
      BY <3>4, <3>6
  <2>13. QED
    BY <1>6, <2>5, <2>9, <2>11, <2>12 DEF ConsoleInv
<1>9. QED
  BY <1>7, <1>8

LEMMA MutatorAnswersKeeps == ASSUME ConsoleInv, MutatorAnswers PROVE ConsoleInv'
<1> DEFINE a == mutator.answer
<1>1. /\ ScreenOK /\ ChannelsOK /\ PlaneOK /\ HiddenPends /\ ListsRise
      /\ ~budget.typed => DeletesHide /\ ListsTrue
  BY InvIs
<1>2. /\ mutator.pc = "answers" /\ events' = Append(events, a)
      /\ mutator' = [pc |-> "idle", answer |-> NoAnswer]
      /\ UNCHANGED <<row, control, slot, commands, mutations, reads, reader, shown, selected, filter, tomb, sent, quit, budget>>
  BY DEF MutatorAnswers, uiVars
<1>3. a \in JobAnswers /\ a \in Events /\ a.op # "list" /\ a.ok \in BOOLEAN /\ events \in Seq(Events)
  BY <1>1, <1>2 DEF PlaneOK, ChannelsOK, Events, JobAnswers, JobOps
<1> HIDE DEF a
<1>4. /\ events' \in Seq(Events)
      /\ \A x : DeleteIn(events', x) <=> DeleteIn(events, x) \/ IsDelete(a, x)
      /\ \A x : OnceIn(events, x) /\ (IsDelete(a, x) => ~DeleteIn(events, x)) => OnceIn(events', x)
      /\ \A x, ok : Answered(events', x, ok) <=> Answered(events, x, ok) \/ (IsDelete(a, x) /\ a.ok = ok)
      /\ Gens(events') = Gens(events) /\ (Rising(events) => Rising(events'))
      /\ \A x : RowIn(events', x) = RowIn(events, x)
  <2>1. ~(\E x : HasRow(a, x))
    BY <1>3 DEF HasRow
  <2>2. /\ Gens(events') = Gens(events) \cup (IF a.op = "list" THEN {a.seq} ELSE {})
        /\ \A x : RowIn(events', x) = RowIn(events, x) \cup (IF HasRow(a, x) THEN {a.seq} ELSE {})
        /\ Rising(events) => Rising(events')
    BY <1>2, <1>3, Sent
  <2>3. Gens(events') = Gens(events) /\ \A x : RowIn(events', x) = RowIn(events, x)
    BY <1>3, <2>1, <2>2
  <2>4. QED
    BY <1>2, <1>3, <2>2, <2>3, Sent
<1>5. \A x : ~Answering(x)' /\ (Answering(x) <=> IsDelete(a, x))
  BY <1>2 DEF Answering, a
<1>6. ConsoleShape'
  BY <1>1, <1>2, <1>4 DEF ConsoleShape, ScreenOK, ChannelsOK, PlaneOK, Visible
<1>7. \A x : Underway(x)' <=> Underway(x)
  BY <1>2, <1>4, <1>5 DEF Underway, Coming
<1>8. HiddenPends'
  BY <1>1, <1>2, <1>7 DEF HiddenPends
<1>9. ListsRise'
  BY <1>1, <1>2, <1>4 DEF ListsRise, ReaderGens
<1>10. ASSUME ~budget.typed PROVE DeletesHide' /\ ListsTrue'
  <2>1. \A x : (Undone(x)' <=> Undone(x)) /\ (Done(x)' <=> Done(x))
    BY <1>2, <1>3, <1>4, <1>5 DEF Undone, Done, Coming, a
  <2>2. ASSUME NEW x \in Ids PROVE OneDelete(x)'
    <3>1. OneDelete(x)
      BY <1>1, <1>10 DEF DeletesHide
    <3>2. QED
      BY <1>2, <1>4, <1>5, <3>1 DEF OneDelete
  <2>3. DeletesHide'
    BY <1>1, <1>2, <1>7, <1>10, <2>1, <2>2 DEF DeletesHide
  <2>4. ListsTrue'
    BY <1>1, <1>2, <1>4, <1>10, <2>1 DEF ListsTrue, ReaderRows
  <2>5. QED
    BY <2>3, <2>4
<1>11. QED
  BY <1>2, <1>6, <1>8, <1>9, <1>10 DEF ConsoleInv

LEMMA ReaderTakesKeeps == ASSUME ConsoleInv, ReaderTakes PROVE ConsoleInv'
<1> DEFINE c == Last(reads)
<1>1. /\ ScreenOK /\ ChannelsOK /\ PlaneOK /\ HiddenPends /\ ListsRise
      /\ ~budget.typed => DeletesHide /\ ListsTrue
  BY InvIs
<1>2. /\ reader.pc = "idle" /\ reads # <<>> /\ reads' = <<>>
      /\ reader' = IF c.op = "shutdown" THEN [reader EXCEPT !.pc = "ended"]
                   ELSE [pc |-> "selects", seq |-> c.seq, filter |-> c.filter, rows |-> Hidden]
      /\ UNCHANGED <<row, control, slot, commands, mutations, mutator, events, shown, selected, filter, tomb, sent, quit, budget>>
  BY DEF ReaderTakes, uiVars
<1>3. reads \in Seq(Reads) /\ reads' \in Seq(Reads)
  BY <1>1, <1>2 DEF ChannelsOK
<1>4. c \in Reads /\ (c.op = "list" => c.seq \in Gens(reads) /\ c.seq \in Nat /\ c.filter \in SUBSET Ids)
      /\ c.op \in {"list", "shutdown"}
  BY <1>2, <1>3, Newest, MessagesAre
<1> HIDE DEF c
<1>5. /\ reader' \in [pc : {"idle", "selects", "answers", "ended"}, seq : Nat, filter : SUBSET Ids, rows : RowMaps]
      /\ reader'.pc \in {"selects", "ended"}
      /\ reader'.pc = "selects" => c.op = "list" /\ reader'.seq = c.seq
  BY <1>1, <1>2, <1>4 DEF PlaneOK, RowMaps, Hidden
<1>6. ConsoleShape'
  BY <1>1, <1>2, <1>3, <1>5 DEF ConsoleShape, ScreenOK, ChannelsOK, PlaneOK, Visible
<1>7. HiddenPends'
  BY <1>1, <1>2 DEF HiddenPends, Underway, Coming, Answering
<1>8. Gens(reads)' = {} /\ Rising(reads)' /\ ReaderGens' \subseteq Gens(reads)
  BY <1>2, <1>4, <1>5, NothingIn DEF ReaderGens
<1>9. ListsRise'
  BY <1>1, <1>2, <1>8 DEF ListsRise, UpTo, Below
<1>10. ASSUME ~budget.typed PROVE DeletesHide' /\ ListsTrue'
  <2>1. DeletesHide'
    BY <1>1, <1>2, <1>10 DEF DeletesHide, OneDelete, Underway, Undone, Coming, Answering
  <2>2. \A x : ReaderRows(x)' = {}
    BY <1>5 DEF ReaderRows
  <2>3. ListsTrue'
    BY <1>1, <1>2, <1>10, <2>2 DEF ListsTrue, Done, Answering
  <2>4. QED
    BY <2>1, <2>3
<1>11. QED
  BY <1>2, <1>6, <1>7, <1>9, <1>10 DEF ConsoleInv

LEMMA ReaderSelectsKeeps == ASSUME ConsoleInv, ReaderSelects PROVE ConsoleInv'
<1>1. /\ ScreenOK /\ ChannelsOK /\ PlaneOK /\ HiddenPends /\ ListsRise
      /\ ~budget.typed => DeletesHide /\ ListsTrue
  BY InvIs
<1>2. /\ reader.pc = "selects"
      /\ reader' = [reader EXCEPT !.pc = "answers", !.rows = Listed(reader.filter)]
      /\ UNCHANGED <<row, control, slot, commands, mutations, reads, mutator, events, shown, selected, filter, tomb, sent, quit, budget>>
  BY DEF ReaderSelects, uiVars
<1>3. Listed(reader.filter) \in RowMaps /\ \A x \in Ids : Listed(reader.filter)[x] # "no" => row[x] \in Live
  BY DEF Listed, RowMaps, Live
<1>4. /\ reader' \in [pc : {"idle", "selects", "answers", "ended"}, seq : Nat, filter : SUBSET Ids, rows : RowMaps]
      /\ reader'.pc = "answers" /\ reader'.seq = reader.seq /\ reader'.rows = Listed(reader.filter)
  BY <1>1, <1>2, <1>3 DEF PlaneOK
<1>5. ConsoleShape'
  BY <1>1, <1>2, <1>4 DEF ConsoleShape, ScreenOK, ChannelsOK, PlaneOK, Visible
<1>6. HiddenPends'
  BY <1>1, <1>2 DEF HiddenPends, Underway, Coming, Answering
<1>7. ReaderGens' = ReaderGens
  BY <1>2, <1>4 DEF ReaderGens
<1>8. ListsRise'
  BY <1>1, <1>2, <1>7 DEF ListsRise
<1>9. ASSUME ~budget.typed PROVE DeletesHide' /\ ListsTrue'
  <2>1. DeletesHide'
    BY <1>1, <1>2, <1>9 DEF DeletesHide, OneDelete, Underway, Undone, Coming, Answering
  <2>2. \A x \in Ids : row[x] \in Live \/ ReaderRows(x)' = {}
    BY <1>3, <1>4 DEF ReaderRows
  <2>3. ListsTrue'
    BY <1>1, <1>2, <1>9, <2>2 DEF ListsTrue, Done, Answering
  <2>4. QED
    BY <2>1, <2>3
<1>10. QED
  BY <1>2, <1>5, <1>6, <1>8, <1>9 DEF ConsoleInv

LEMMA ReaderAnswersKeeps == ASSUME ConsoleInv, ReaderAnswers PROVE ConsoleInv'
<1>1. /\ ScreenOK /\ ChannelsOK /\ PlaneOK /\ HiddenPends /\ ListsRise
      /\ ~budget.typed => DeletesHide /\ ListsTrue
      /\ budget \in ConsoleProfile
  BY InvIs
<1>2. /\ reader.pc \in {"answers", "selects"} /\ reader' = [reader EXCEPT !.pc = "idle", !.rows = Hidden]
      /\ UNCHANGED <<row, control, slot, commands, mutations, reads, mutator, shown, selected, filter, tomb, sent, quit>>
  BY DEF ReaderAnswers, uiVars
<1>3. /\ reader.seq \in Nat /\ reader.filter \in SUBSET Ids /\ reader.rows \in RowMaps
      /\ ReaderGens = {reader.seq} /\ events \in Seq(Events)
  BY <1>1, <1>2 DEF PlaneOK, ReaderGens, ChannelsOK
<1>4. PICK e \in Events :
        /\ events' = Append(events, e) /\ e.op = "list" /\ e.seq = reader.seq
        /\ e.ok => reader.pc = "answers" /\ e.rows = reader.rows
  <2>1. CASE reader.pc = "answers" /\ events' = Append(events, [op |-> "list", ok |-> TRUE, seq |-> reader.seq,
                                       filter |-> reader.filter, rows |-> reader.rows])
    <3>1. [op |-> "list", ok |-> TRUE, seq |-> reader.seq, filter |-> reader.filter, rows |-> reader.rows] \in Events
      BY <1>3 DEF Events, ListAnswers
    <3>2. QED
      BY <2>1, <3>1
  <2>2. CASE events' = Append(events, [op |-> "list", ok |-> FALSE, seq |-> reader.seq, filter |-> reader.filter])
    <3>1. [op |-> "list", ok |-> FALSE, seq |-> reader.seq, filter |-> reader.filter] \in Events
      BY <1>3 DEF Events, ListFails
    <3>2. QED
      BY <2>2, <3>1
  <2>3. QED
    BY <2>1, <2>2 DEF ReaderAnswers
<1>5. budget' \in ConsoleProfile /\ budget'.typed = budget.typed
  BY <1>1, PaysIs DEF ReaderAnswers
<1>6. \A x : ~IsDelete(e, x)
  BY <1>4 DEF IsDelete, Deleters
<1>7. /\ events' \in Seq(Events)
      /\ \A x : DeleteIn(events', x) <=> DeleteIn(events, x)
      /\ \A x : OnceIn(events, x) => OnceIn(events', x)
      /\ \A x, ok : Answered(events', x, ok) <=> Answered(events, x, ok)
      /\ Gens(events') = Gens(events) \cup {reader.seq}
      /\ Rising(events) /\ (\A n \in Gens(events) : n < reader.seq) => Rising(events')
      /\ \A x : RowIn(events', x) = RowIn(events, x) \cup (IF HasRow(e, x) THEN {reader.seq} ELSE {})
  BY <1>3, <1>4, <1>6, Sent
<1>8. /\ reader' \in [pc : {"idle", "selects", "answers", "ended"}, seq : Nat, filter : SUBSET Ids, rows : RowMaps]
      /\ reader'.pc = "idle"
  BY <1>1, <1>2 DEF PlaneOK, RowMaps, Hidden
<1>9. ConsoleShape'
  BY <1>1, <1>2, <1>5, <1>7, <1>8 DEF ConsoleShape, ScreenOK, ChannelsOK, PlaneOK, Visible
<1>10. HiddenPends'
  BY <1>1, <1>2, <1>7 DEF HiddenPends, Underway, Coming, Answering
<1>11. ReaderGens' = {}
  BY <1>8 DEF ReaderGens
<1>12. Rising(events')
  BY <1>1, <1>3, <1>7 DEF ListsRise, Below
<1>13. ListsRise'
  <2>1. UpTo(Gens(events'), sent) /\ Below(Gens(events'), Gens(reads)) /\ Below(Gens(events'), Gens(commands))
    BY <1>1, <1>3, <1>7 DEF ListsRise, UpTo, Below
  <2>2. UpTo({}, sent) /\ Below(Gens(events'), {}) /\ Below({}, Gens(reads)) /\ Below({}, Gens(commands))
    BY DEF UpTo, Below
  <2>3. QED
    BY <1>1, <1>2, <1>11, <1>12, <2>1, <2>2 DEF ListsRise
<1>14. ASSUME ~budget.typed PROVE DeletesHide' /\ ListsTrue'
  <2>1. ASSUME NEW x \in Ids PROVE OneDelete(x)'
    <3>1. OneDelete(x)
      BY <1>1, <1>14 DEF DeletesHide
    <3>2. QED
      BY <1>2, <1>7, <3>1 DEF OneDelete, Answering
  <2>2. \A x : (Underway(x)' <=> Underway(x)) /\ (Undone(x)' <=> Undone(x)) /\ (Done(x)' <=> Done(x))
    BY <1>2, <1>7 DEF Underway, Undone, Done, Coming, Answering
  <2>3. DeletesHide'
    BY <1>1, <1>2, <1>14, <2>1, <2>2 DEF DeletesHide
  <2>4. \A x : RowIn(events', x) \cup ReaderRows(x)' \subseteq RowIn(events, x) \cup ReaderRows(x)
    BY <1>4, <1>7, <1>8 DEF ReaderRows, HasRow
  <2>5. ListsTrue'
    BY <1>1, <1>2, <1>14, <2>2, <2>4 DEF ListsTrue
  <2>6. QED
    BY <2>3, <2>5
<1>15. QED
  BY <1>5, <1>9, <1>10, <1>13, <1>14 DEF ConsoleInv

\* A kick: a request of the next generation is sent.
LEMMA KicksIs ==
  ASSUME ScreenOK, ChannelsOK, ListsRise, NEW f \in SUBSET Ids, Kicks(f, commands)
  PROVE  /\ sent' = sent + 1 /\ sent' \in Nat /\ commands' \in Seq(Commands)
         /\ \A x : DeleteIn(commands', x) <=> DeleteIn(commands, x)
         /\ \A x : OnceIn(commands, x) => OnceIn(commands', x)
         /\ Gens(commands') = Gens(commands) \cup {sent + 1} /\ Rising(commands')
<1> DEFINE m == [op |-> "list", seq |-> sent + 1, filter |-> f]
<1>1. sent \in Nat /\ sent + 1 \in Nat /\ sent' = sent + 1 /\ commands \in Seq(Commands) /\ commands' = Append(commands, m)
  BY DEF ScreenOK, ChannelsOK, Kicks
<1>2. m \in Commands /\ (\A x : ~IsDelete(m, x)) /\ m.op = "list" /\ m.seq = sent + 1
  BY <1>1, RequestIs
<1>3. \A n \in Gens(commands) : n < sent + 1
  BY <1>1 DEF ListsRise, UpTo
<1> HIDE DEF m
<1>4. /\ commands' \in Seq(Commands)
      /\ \A x : DeleteIn(commands', x) <=> DeleteIn(commands, x) \/ IsDelete(m, x)
      /\ \A x : OnceIn(commands, x) /\ (IsDelete(m, x) => ~DeleteIn(commands, x)) => OnceIn(commands', x)
      /\ Gens(commands') = Gens(commands) \cup (IF m.op = "list" THEN {m.seq} ELSE {})
      /\ Rising(commands) /\ (m.op = "list" => \A n \in Gens(commands) : n < m.seq) => Rising(commands')
  BY <1>1, <1>2, Sent
<1>5. QED
  BY <1>1, <1>2, <1>3, <1>4 DEF ListsRise

LEMMA KickRises ==
  ASSUME ScreenOK, ChannelsOK, ListsRise, NEW f \in SUBSET Ids, Kicks(f, commands),
         UNCHANGED <<reader, reads>>, Gens(events') \subseteq Gens(events), Rising(events')
  PROVE  ListsRise'
<1>1. /\ sent' = sent + 1 /\ sent \in Nat
      /\ Gens(commands') = Gens(commands) \cup {sent + 1} /\ Rising(commands')
  BY KicksIs DEF ScreenOK
<1>2. ReaderGens' = ReaderGens /\ Gens(reads)' = Gens(reads) /\ Rising(reads)'
  BY DEF ReaderGens, ListsRise
<1>3. UpTo(Gens(events'), sent + 1) /\ UpTo(ReaderGens, sent + 1) /\ UpTo(Gens(reads), sent + 1)
      /\ UpTo(Gens(commands'), sent + 1)
  BY <1>1 DEF ListsRise, UpTo
<1>4. Below(Gens(events'), ReaderGens) /\ Below(Gens(events'), Gens(reads)) /\ Below(ReaderGens, Gens(reads))
  BY DEF ListsRise, Below
<1>5. Below(Gens(events'), Gens(commands')) /\ Below(ReaderGens, Gens(commands'))
      /\ Below(Gens(reads), Gens(commands'))
  BY <1>1 DEF ListsRise, Below, UpTo
<1>6. QED
  BY <1>1, <1>2, <1>3, <1>4, <1>5 DEF ListsRise

\* A job is sent.
LEMMA JobSent ==
  ASSUME ChannelsOK, NEW j \in Jobs, commands' = Append(commands, j)
  PROVE  /\ commands' \in Seq(Commands)
         /\ \A x : DeleteIn(commands', x) <=> DeleteIn(commands, x) \/ IsDelete(j, x)
         /\ \A x : OnceIn(commands, x) /\ (IsDelete(j, x) => ~DeleteIn(commands, x)) => OnceIn(commands', x)
         /\ Gens(commands') = Gens(commands) /\ (Rising(commands) => Rising(commands'))
<1>1. j \in Commands /\ j.op # "list" /\ commands \in Seq(Commands)
  BY DEF Commands, Jobs, JobOps, ChannelsOK
<1>2. Gens(commands') = Gens(commands) \cup (IF j.op = "list" THEN {j.seq} ELSE {})
  BY <1>1, Sent
<1>3. Gens(commands') = Gens(commands)
  BY <1>1, <1>2
<1>4. QED
  BY <1>1, <1>3, Sent

\* A kick that changes nothing else of the rows: a refresh, another filter.
LEMMA KickKeeps ==
  ASSUME ConsoleInv, NEW f \in SUBSET Ids, Kicks(f, commands), filter' = f,
         selected' \in Visible(shown) \cup {0}, budget' \in ConsoleProfile, budget'.typed = budget.typed,
         UNCHANGED <<row, control, slot, mutations, reads, mutator, reader, events, shown, tomb, quit>>
  PROVE  ConsoleInv'
<1>1. /\ ScreenOK /\ ChannelsOK /\ PlaneOK /\ HiddenPends /\ ListsRise
      /\ ~budget.typed => DeletesHide /\ ListsTrue
  BY InvIs
<1>2. /\ sent' \in Nat /\ commands' \in Seq(Commands)
      /\ \A x : DeleteIn(commands', x) <=> DeleteIn(commands, x)
      /\ \A x : OnceIn(commands, x) => OnceIn(commands', x)
  BY <1>1, KicksIs
<1>3. ListsRise'
  <2>1. Gens(events') \subseteq Gens(events) /\ Rising(events')
    BY <1>1 DEF ListsRise
  <2>2. QED
    BY <1>1, <2>1, KickRises
<1>4. ConsoleShape'
  BY <1>1, <1>2 DEF ConsoleShape, ScreenOK, ChannelsOK, PlaneOK, Visible
<1>5. HiddenPends'
  BY <1>1, <1>2 DEF HiddenPends, Underway, Coming, Answering
<1>6. ASSUME ~budget.typed PROVE DeletesHide' /\ ListsTrue'
  <2>1. ASSUME NEW x \in Ids PROVE OneDelete(x)'
    <3>1. OneDelete(x)
      BY <1>1, <1>6 DEF DeletesHide
    <3>2. QED
      BY <1>2, <3>1 DEF OneDelete, Answering
  <2>2. \A x : (Underway(x)' <=> Underway(x)) /\ (Undone(x)' <=> Undone(x))
    BY <1>2 DEF Underway, Undone, Coming, Answering
  <2>3. DeletesHide'
    BY <1>1, <1>6, <2>1, <2>2 DEF DeletesHide
  <2>4. ListsTrue'
    BY <1>1, <1>6 DEF ListsTrue, ReaderRows, Done, Answering
  <2>5. QED
    BY <2>3, <2>4
<1>7. QED
  BY <1>3, <1>4, <1>5, <1>6 DEF ConsoleInv

LEMMA KickSteps ==
  ASSUME ConsoleInv, UiRefreshes \/ \E f \in Filters : UserFilters(f)
  PROVE  ConsoleInv'
<1>1. /\ ScreenOK /\ budget \in ConsoleProfile /\ filter \in SUBSET Ids
      /\ selected \in Visible(shown) \cup {0}
  BY InvIs DEF ScreenOK
<1>2. CASE UiRefreshes
  <2>1. budget' \in ConsoleProfile /\ budget'.typed = budget.typed
    BY <1>1, <1>2, PaysIs DEF UiRefreshes
  <2>2. QED
    BY <1>1, <1>2, <2>1, KickKeeps DEF UiRefreshes
<1>3. CASE \E f \in Filters : UserFilters(f)
  <2>1. PICK f \in Filters : UserFilters(f)
    BY <1>3
  <2>2. f \in SUBSET Ids
    BY DEF ConsoleAssumption
  <2>3. budget' \in ConsoleProfile /\ budget'.typed = budget.typed
    BY <1>1, <2>1, PaysIs DEF UserFilters
  <2>4. QED
    BY <1>1, <2>1, <2>2, <2>3, KickKeeps DEF UserFilters
<1>4. QED
  BY <1>2, <1>3

\* Quitting sends the shutdown.
LEMMA UserQuitsKeeps == ASSUME ConsoleInv, UserQuits PROVE ConsoleInv'
<1> DEFINE m == [op |-> "shutdown"]
<1>1. /\ ScreenOK /\ ChannelsOK /\ PlaneOK /\ HiddenPends /\ ListsRise
      /\ ~budget.typed => DeletesHide /\ ListsTrue
  BY InvIs
<1>2. /\ commands' = commands \/ commands' = Append(commands, m)
      /\ quit' = "asked" /\ slot' \in BOOLEAN
      /\ UNCHANGED <<row, control, mutations, reads, mutator, reader, events, shown, selected, filter, tomb, sent, budget>>
  BY <1>1 DEF UserQuits, uiVars, PlaneOK
<1>3. m \in Commands /\ (\A x : ~IsDelete(m, x)) /\ m.op # "list" /\ commands \in Seq(Commands)
  BY <1>1, MessagesAre DEF IsDelete, Deleters, ChannelsOK
<1> HIDE DEF m
<1>4. /\ commands' \in Seq(Commands)
      /\ \A x : DeleteIn(commands', x) <=> DeleteIn(commands, x)
      /\ \A x : OnceIn(commands, x) => OnceIn(commands', x)
      /\ Gens(commands') = Gens(commands) /\ (Rising(commands) => Rising(commands'))
  <2>1. CASE commands' = commands
    BY <1>3, <2>1
  <2>2. CASE commands' = Append(commands, m)
    <3>1. Gens(commands') = Gens(commands) \cup (IF m.op = "list" THEN {m.seq} ELSE {})
      BY <1>3, <2>2, Sent
    <3>2. Gens(commands') = Gens(commands)
      BY <1>3, <3>1
    <3>3. QED
      BY <1>3, <2>2, <3>2, Sent
  <2>3. QED
    BY <1>2, <2>1, <2>2
<1>5. ConsoleShape'
  BY <1>1, <1>2, <1>4 DEF ConsoleShape, ScreenOK, ChannelsOK, PlaneOK, Visible
<1>6. HiddenPends'
  BY <1>1, <1>2, <1>4 DEF HiddenPends, Underway, Coming, Answering
<1>7. ListsRise'
  BY <1>1, <1>2, <1>4 DEF ListsRise, ReaderGens
<1>8. ASSUME ~budget.typed PROVE DeletesHide' /\ ListsTrue'
  <2>1. ASSUME NEW x \in Ids PROVE OneDelete(x)'
    <3>1. OneDelete(x)
      BY <1>1, <1>8 DEF DeletesHide
    <3>2. QED
      BY <1>2, <1>4, <3>1 DEF OneDelete, Answering
  <2>2. \A x : (Underway(x)' <=> Underway(x)) /\ (Undone(x)' <=> Undone(x))
    BY <1>2, <1>4 DEF Underway, Undone, Coming, Answering
  <2>3. DeletesHide'
    BY <1>1, <1>2, <1>8, <2>1, <2>2 DEF DeletesHide
  <2>4. ListsTrue'
    BY <1>1, <1>2, <1>8 DEF ListsTrue, ReaderRows, Done, Answering
  <2>5. QED
    BY <2>3, <2>4
<1>9. QED
  BY <1>2, <1>5, <1>6, <1>7, <1>8 DEF ConsoleInv

LEMMA DeletesKeeps ==
  ASSUME ConsoleInv, NEW op \in Deleters, NEW x \in Ids, Deletes(op, x), budget.typed \/ shown[x] # "no"
  PROVE  ConsoleInv'
<1> DEFINE j == [op |-> op, id |-> x]
<1>1. /\ ScreenOK /\ ChannelsOK /\ PlaneOK /\ HiddenPends /\ ListsRise
      /\ ~budget.typed => DeletesHide /\ ListsTrue
      /\ budget \in ConsoleProfile
  BY InvIs
<1>2. /\ commands' = Append(commands, j)
      /\ tomb' = [tomb EXCEPT ![x] = HideFromAll]
      /\ shown' = [shown EXCEPT ![x] = "no"] /\ selected' = Under(shown', shown, selected)
      /\ UNCHANGED <<row, control, slot, mutations, reads, mutator, reader, events, filter, sent, quit>>
  BY DEF Deletes, Presses, Shows, Without
<1>3. budget' \in ConsoleProfile /\ budget'.typed = budget.typed
  BY <1>1, PaysIs DEF Deletes, Presses
<1>4. j \in Jobs /\ \A y : IsDelete(j, y) <=> y = x
  BY DEF Jobs, JobOps, Deleters, IsDelete
<1> HIDE DEF j
<1>5. /\ commands' \in Seq(Commands)
      /\ \A y : DeleteIn(commands', y) <=> DeleteIn(commands, y) \/ y = x
      /\ \A y : OnceIn(commands, y) /\ (y = x => ~DeleteIn(commands, y)) => OnceIn(commands', y)
      /\ Gens(commands') = Gens(commands) /\ (Rising(commands) => Rising(commands'))
  BY <1>1, <1>2, <1>4, JobSent
<1>6. /\ shown \in RowMaps /\ shown' \in RowMaps /\ shown'[x] = "no"
      /\ \A y \in Ids \ {x} : shown'[y] = shown[y]
      /\ tomb' \in [Ids -> Nat \cup {NoTomb, HideFromAll}] /\ tomb'[x] = HideFromAll
      /\ \A y \in Ids \ {x} : tomb'[y] = tomb[y]
  BY <1>1, <1>2 DEF ScreenOK, RowMaps
<1>7. selected' \in Visible(shown') \cup {0}
  <2>1. selected \in Ids \cup {0}
    BY <1>1 DEF ScreenOK, Visible
  <2>2. QED
    BY <1>2, <2>1, UnderIs
<1>8. ConsoleShape'
  BY <1>1, <1>2, <1>3, <1>5, <1>6, <1>7 DEF ConsoleShape, ScreenOK, ChannelsOK, PlaneOK, Visible
<1>9. \A y : Underway(y)' <=> Underway(y) \/ y = x
  BY <1>2, <1>5 DEF Underway, Coming, Answering
<1>10. HiddenPends'
  BY <1>1, <1>6, <1>9 DEF HiddenPends
<1>11. ListsRise'
  BY <1>1, <1>2, <1>5 DEF ListsRise, ReaderGens
<1>12. ASSUME ~budget.typed PROVE DeletesHide' /\ ListsTrue'
  <2>1. row[x] \in Live /\ ~Underway(x)
    BY <1>1, <1>12 DEF DeletesHide
  <2>2. ASSUME NEW y \in Ids PROVE OneDelete(y)'
    <3>1. OneDelete(y)
      BY <1>1, <1>12 DEF DeletesHide
    <3>2. CASE y # x
      BY <1>2, <1>5, <3>1, <3>2 DEF OneDelete, Answering
    <3>3. CASE y = x
      BY <1>2, <1>5, <2>1, <3>1, <3>3 DEF OneDelete, Answering, Underway, Coming
    <3>4. QED
      BY <3>2, <3>3
  <2>3. \A y : Undone(y)' => Undone(y) \/ y = x
    BY <1>2, <1>5 DEF Undone, Coming, Answering
  <2>4. DeletesHide'
    BY <1>1, <1>2, <1>6, <1>9, <1>12, <2>1, <2>2, <2>3 DEF DeletesHide
  <2>5. \A y : (Done(y)' <=> Done(y)) /\ ReaderRows(y)' = ReaderRows(y)
    BY <1>2 DEF Done, Answering, ReaderRows
  <2>6. ListsTrue'
    BY <1>1, <1>2, <1>6, <1>12, <2>1, <2>5 DEF ListsTrue
  <2>7. QED
    BY <2>4, <2>6
<1>13. QED
  BY <1>3, <1>8, <1>10, <1>11, <1>12 DEF ConsoleInv

LEMMA DeleteSteps ==
  ASSUME ConsoleInv, UserPressesDelete \/ \E x \in Ids : UserTypesRemove(x)
  PROVE  ConsoleInv'
<1>1. CASE UserPressesDelete
  <2>1. PICK op \in Deleters : Deletes(op, selected) /\ selected # 0
    BY <1>1 DEF UserPressesDelete
  <2>2. selected \in Ids /\ shown[selected] # "no"
    BY <2>1, InvIs DEF ScreenOK, Visible
  <2>3. QED
    BY <2>1, <2>2, DeletesKeeps
<1>2. CASE \E x \in Ids : UserTypesRemove(x)
  <2>1. PICK x \in Ids : budget.typed /\ Deletes("remove", x)
    BY <1>2 DEF UserTypesRemove
  <2>2. "remove" \in Deleters
    BY DEF Deleters
  <2>3. QED
    BY <2>1, <2>2, DeletesKeeps
<1>3. QED
  BY <1>1, <1>2

\* A job that deletes nothing is sent, and the rows stay on the screen or off it.
LEMMA StartSentKeeps ==
  ASSUME ConsoleInv, commands' = commands \/ \E j \in Jobs : j.op \notin Deleters /\ commands' = Append(commands, j),
         row' \in [Ids -> {"none", "stopped", "started", "deleted"}],
         \A x \in Ids : row[x] \in Live => row'[x] \in Live,
         shown' \in RowMaps, Visible(shown') = Visible(shown), budget' \in ConsoleProfile, budget'.typed = budget.typed,
         UNCHANGED <<control, slot, mutations, reads, mutator, reader, events, selected, filter, tomb, sent, quit>>
  PROVE  ConsoleInv'
<1>1. /\ ScreenOK /\ ChannelsOK /\ PlaneOK /\ HiddenPends /\ ListsRise
      /\ ~budget.typed => DeletesHide /\ ListsTrue
  BY InvIs
<1>2. /\ commands' \in Seq(Commands)
      /\ \A x : DeleteIn(commands', x) <=> DeleteIn(commands, x)
      /\ \A x : OnceIn(commands, x) => OnceIn(commands', x)
      /\ Gens(commands') = Gens(commands) /\ (Rising(commands) => Rising(commands'))
  <2>1. CASE commands' = commands
    BY <1>1, <2>1 DEF ChannelsOK
  <2>2. CASE commands' # commands
    <3>1. PICK j \in Jobs : j.op \notin Deleters /\ commands' = Append(commands, j)
      BY <2>2
    <3>2. \A x : ~IsDelete(j, x)
      BY <3>1 DEF IsDelete
    <3>3. QED
      BY <1>1, <3>1, <3>2, JobSent
  <2>3. QED
    BY <2>1, <2>2
<1>3. ConsoleShape'
  BY <1>1, <1>2 DEF ConsoleShape, ScreenOK, ChannelsOK, PlaneOK
<1>4. \A x : (Underway(x)' <=> Underway(x)) /\ (Undone(x)' <=> Undone(x)) /\ (Done(x)' <=> Done(x))
  BY <1>2 DEF Underway, Undone, Done, Coming, Answering
<1>5. HiddenPends'
  BY <1>1, <1>4 DEF HiddenPends
<1>6. ListsRise'
  BY <1>1, <1>2 DEF ListsRise, ReaderGens
<1>7. ASSUME ~budget.typed PROVE DeletesHide' /\ ListsTrue'
  <2>1. ASSUME NEW x \in Ids PROVE OneDelete(x)'
    <3>1. OneDelete(x)
      BY <1>1, <1>7 DEF DeletesHide
    <3>2. QED
      BY <1>2, <3>1 DEF OneDelete, Answering
  <2>2. \A x \in Ids : shown'[x] # "no" <=> shown[x] # "no"
    BY DEF Visible
  <2>3. DeletesHide'
    BY <1>1, <1>4, <1>7, <2>1, <2>2 DEF DeletesHide
  <2>4. ListsTrue'
    BY <1>1, <1>4, <1>7 DEF ListsTrue, ReaderRows
  <2>5. QED
    BY <2>3, <2>4
<1>8. QED
  BY <1>3, <1>5, <1>6, <1>7 DEF ConsoleInv

LEMMA StartSteps ==
  ASSUME ConsoleInv, UserToggles \/ \E x \in Ids, s \in BOOLEAN : WatchRestores(x, s)
  PROVE  ConsoleInv'
<1>1. /\ shown \in RowMaps /\ selected \in Visible(shown) \cup {0} /\ budget \in ConsoleProfile
      /\ row \in [Ids -> {"none", "stopped", "started", "deleted"}]
  BY InvIs DEF ScreenOK, PlaneOK
<1>2. CASE UserToggles
  <2> DEFINE want == IF shown[selected] = "started" THEN "stopped" ELSE "started"
             j == [op |-> IF want = "started" THEN "start" ELSE "stop", id |-> selected]
  <2>1. /\ selected # 0 /\ commands' = Append(commands, j) /\ shown' = [shown EXCEPT ![selected] = want]
        /\ UNCHANGED <<row, control, slot, mutations, reads, mutator, reader, events, selected, filter, tomb, sent, quit>>
    BY <1>2 DEF UserToggles, Presses
  <2>2. budget' \in ConsoleProfile /\ budget'.typed = budget.typed
    BY <1>1, <1>2, PaysIs DEF UserToggles, Presses
  <2>3. selected \in Ids /\ shown[selected] # "no" /\ want \in {"stopped", "started"}
    BY <1>1, <2>1 DEF Visible
  <2>4. j \in Jobs /\ j.op \notin Deleters
    BY <2>3 DEF Jobs, JobOps, Deleters
  <2> HIDE DEF want, j
  <2>5. shown' \in RowMaps /\ Visible(shown') = Visible(shown)
    BY <1>1, <2>1, <2>3 DEF RowMaps, Visible
  <2>6. QED
    BY <1>1, <2>1, <2>2, <2>4, <2>5, StartSentKeeps
<1>3. CASE \E x \in Ids, s \in BOOLEAN : WatchRestores(x, s)
  <2>1. PICK x \in Ids, s \in BOOLEAN : WatchRestores(x, s)
    BY <1>3
  <2> DEFINE j == [op |-> "start", id |-> x]
  <2>2. /\ row' = [row EXCEPT ![x] = IF s THEN "started" ELSE "stopped"]
        /\ commands' = commands \/ commands' = Append(commands, j)
        /\ UNCHANGED <<control, slot, mutations, reads, mutator, reader, events, shown, selected, filter, tomb, sent, quit>>
    BY <2>1 DEF WatchRestores, uiVars
  <2>3. budget' \in ConsoleProfile /\ budget'.typed = budget.typed
    BY <1>1, <2>1, PaysIs DEF WatchRestores
  <2>4. j \in Jobs /\ j.op \notin Deleters
    BY DEF Jobs, JobOps, Deleters
  <2> HIDE DEF j
  <2>5. row' \in [Ids -> {"none", "stopped", "started", "deleted"}] /\ \A y \in Ids : row[y] \in Live => row'[y] \in Live
    BY <1>1, <2>2 DEF Live
  <2>6. QED
    BY <1>1, <2>2, <2>3, <2>4, <2>5, StartSentKeeps
<1>4. QED
  BY <1>2, <1>3

\* What the interface has taken.
LEMMA UiTook ==
  ASSUME ConsoleInv, UiTakes
  PROVE  \E e \in Events :
           /\ quit = "no" /\ e = Head(events) /\ events' \in Seq(Events)
           /\ UNCHANGED <<row, control, slot, mutations, reads, mutator, reader, filter, quit, budget>>
           /\ e.op = "list" => TakesList(e)
           /\ e.op \in Deleters => TakesDeleted(e)
           /\ e.op \notin Deleters \cup {"list"} => TakesStarted(e)
           /\ \A x : DeleteIn(events, x) <=> DeleteIn(events', x) \/ IsDelete(e, x)
           /\ \A x : OnceIn(events, x) => OnceIn(events', x) /\ (IsDelete(e, x) => ~DeleteIn(events', x))
           /\ \A x, ok : Answered(events, x, ok) <=> Answered(events', x, ok) \/ (IsDelete(e, x) /\ e.ok = ok)
           /\ Gens(events') \subseteq Gens(events) /\ (e.op = "list" => e.seq \in Gens(events))
           /\ Rising(events')
           /\ e.op = "list" => \A n \in Gens(events') : e.seq < n
           /\ \A x : RowIn(events, x) = RowIn(events', x) \cup (IF HasRow(e, x) THEN {e.seq} ELSE {})
<1> DEFINE e == Head(events)
<1>1. ChannelsOK /\ ListsRise
  BY InvIs
<1>2. quit = "no" /\ events # <<>> /\ events' = Tail(events) /\ events \in Seq(Events)
  BY <1>1 DEF UiTakes, ChannelsOK
<1>3. e \in Events /\ events' \in Seq(Events) /\ Rising(events)
  BY <1>1, <1>2, Taken DEF ListsRise
<1>4. /\ \A x : DeleteIn(events, x) <=> DeleteIn(events', x) \/ IsDelete(e, x)
      /\ \A x : OnceIn(events, x) => OnceIn(events', x) /\ (IsDelete(e, x) => ~DeleteIn(events', x))
      /\ \A x, ok : Answered(events, x, ok) <=> Answered(events', x, ok) \/ (IsDelete(e, x) /\ e.ok = ok)
      /\ Gens(events) = Gens(events') \cup (IF e.op = "list" THEN {e.seq} ELSE {})
      /\ Rising(events) => Rising(events') /\ (e.op = "list" => \A n \in Gens(events') : e.seq < n)
      /\ \A x : RowIn(events, x) = RowIn(events', x) \cup (IF HasRow(e, x) THEN {e.seq} ELSE {})
  BY <1>2, Taken
<1>5. /\ e.op = "list" => TakesList(e)
      /\ e.op \in Deleters => TakesDeleted(e)
      /\ e.op \notin Deleters \cup {"list"} => TakesStarted(e)
      /\ UNCHANGED <<row, control, slot, mutations, reads, mutator, reader, filter, quit, budget>>
  BY DEF UiTakes, Deleters
<1> HIDE DEF e
<1>6. Gens(events') \subseteq Gens(events) /\ (e.op = "list" => e.seq \in Gens(events))
  BY <1>4
<1>7. QED
  BY <1>2, <1>3, <1>4, <1>5, <1>6 DEF e

\* A list comes: it shows no row that a tombstone hides, and ends the
\* tombstones of older generations.
LEMMA ListTaken ==
  ASSUME ConsoleInv, NEW e \in Events, e.op = "list", e.ok
  PROVE  /\ Strip(e.rows, e.seq) \in RowMaps
         /\ \A x \in Ids : Strip(e.rows, e.seq)[x] # "no" => HasRow(e, x) /\ ~Hides(x, e.seq)
         /\ Expire(e.seq) \in [Ids -> Nat \cup {NoTomb, HideFromAll}]
         /\ \A x \in Ids : (Expire(e.seq)[x] = HideFromAll <=> tomb[x] = HideFromAll)
         /\ \A x \in Ids : Expire(e.seq)[x] = tomb[x] \/ ~Hides(x, e.seq)
<1>1. e.rows \in RowMaps /\ e.seq \in Nat /\ tomb \in [Ids -> Nat \cup {NoTomb, HideFromAll}]
  BY MessagesAre, InvIs DEF ScreenOK
<1>2. QED
  BY <1>1 DEF Strip, Expire, Hides, HasRow, RowMaps, NoTomb, HideFromAll

LEMMA TakesListKeeps ==
  ASSUME ConsoleInv, NEW e \in Events, e.op = "list", TakesList(e), events' \in Seq(Events),
         UNCHANGED <<row, control, slot, mutations, reads, mutator, reader, filter, quit, budget>>,
         \A x : DeleteIn(events, x) <=> DeleteIn(events', x) \/ IsDelete(e, x),
         \A x : OnceIn(events, x) => OnceIn(events', x) /\ (IsDelete(e, x) => ~DeleteIn(events', x)),
         \A x, ok : Answered(events, x, ok) <=> Answered(events', x, ok) \/ (IsDelete(e, x) /\ e.ok = ok),
         Gens(events') \subseteq Gens(events), e.seq \in Gens(events), Rising(events'),
         \A n \in Gens(events') : e.seq < n,
         \A x : RowIn(events, x) = RowIn(events', x) \cup (IF HasRow(e, x) THEN {e.seq} ELSE {})
  PROVE  ConsoleInv'
<1>1. /\ ScreenOK /\ ChannelsOK /\ PlaneOK /\ HiddenPends /\ ListsRise
      /\ ~budget.typed => DeletesHide /\ ListsTrue
  BY InvIs
<1>2. /\ \A x : ~IsDelete(e, x)
      /\ e.ok \in BOOLEAN /\ e.seq \in Nat /\ filter \in SUBSET Ids
  BY <1>1, MessagesAre DEF IsDelete, Deleters, ScreenOK
<1>3. /\ \A x : DeleteIn(events', x) <=> DeleteIn(events, x)
      /\ \A x : OnceIn(events, x) => OnceIn(events', x)
      /\ \A x, ok : Answered(events', x, ok) <=> Answered(events, x, ok)
      /\ \A x : RowIn(events', x) \subseteq RowIn(events, x)
  BY <1>2
<1>4. CASE e.filter # filter \/ ~e.ok
  <2>1. UNCHANGED <<shown, selected, tomb>> /\ (Kicks(filter, commands) \/ UNCHANGED <<sent, commands>>)
    BY <1>4 DEF TakesList
  <2>2. /\ sent' \in Nat /\ commands' \in Seq(Commands) /\ ListsRise'
        /\ \A x : DeleteIn(commands', x) <=> DeleteIn(commands, x)
        /\ \A x : OnceIn(commands, x) => OnceIn(commands', x)
    <3>1. CASE Kicks(filter, commands)
      BY <1>1, <1>2, <3>1, KicksIs, KickRises
    <3>2. CASE UNCHANGED <<sent, commands>>
      <4>1. UpTo(Gens(events'), sent) /\ Below(Gens(events'), ReaderGens)
            /\ Below(Gens(events'), Gens(reads)) /\ Below(Gens(events'), Gens(commands))
        BY <1>1 DEF ListsRise, UpTo, Below
      <4>2. ReaderGens' = ReaderGens
        BY DEF ReaderGens
      <4>3. QED
        BY <1>1, <3>2, <4>1, <4>2 DEF ListsRise, ScreenOK, ChannelsOK
    <3>3. QED
      BY <2>1, <3>1, <3>2
  <2>3. ConsoleShape'
    BY <1>1, <2>1, <2>2 DEF ConsoleShape, ScreenOK, ChannelsOK, PlaneOK, Visible
  <2>4. \A x : (Underway(x)' <=> Underway(x)) /\ (Undone(x)' <=> Undone(x)) /\ (Done(x)' <=> Done(x))
    BY <1>3, <2>2 DEF Underway, Undone, Done, Coming, Answering
  <2>5. HiddenPends'
    BY <1>1, <2>1, <2>4 DEF HiddenPends
  <2>6. ASSUME ~budget.typed PROVE DeletesHide' /\ ListsTrue'
    <3>1. ASSUME NEW x \in Ids PROVE OneDelete(x)'
      <4>1. OneDelete(x)
        BY <1>1, <2>6 DEF DeletesHide
      <4>2. QED
        BY <1>3, <2>2, <4>1 DEF OneDelete, Answering
    <3>2. DeletesHide'
      BY <1>1, <2>1, <2>4, <2>6, <3>1 DEF DeletesHide
    <3>3. ListsTrue'
      BY <1>1, <1>3, <2>1, <2>4, <2>6 DEF ListsTrue, ReaderRows
    <3>4. QED
      BY <3>2, <3>3
  <2>7. QED
    BY <2>2, <2>3, <2>5, <2>6 DEF ConsoleInv
<1>5. CASE e.filter = filter /\ e.ok
  <2> DEFINE s == Strip(e.rows, e.seq)
  <2>1. /\ shown' = s /\ selected' = Under(s, shown, selected) /\ tomb' = Expire(e.seq)
        /\ UNCHANGED <<sent, commands>>
    BY <1>5 DEF TakesList, Shows
  <2>2. /\ s \in RowMaps /\ \A x \in Ids : s[x] # "no" => HasRow(e, x) /\ ~Hides(x, e.seq)
        /\ tomb' \in [Ids -> Nat \cup {NoTomb, HideFromAll}]
        /\ \A x \in Ids : (tomb'[x] = HideFromAll <=> tomb[x] = HideFromAll)
        /\ \A x \in Ids : tomb'[x] = tomb[x] \/ ~Hides(x, e.seq)
    BY <1>5, <2>1, ListTaken
  <2> HIDE DEF s
  <2>3. selected' \in Visible(s) \cup {0}
    <3>1. selected \in Ids \cup {0}
      BY <1>1 DEF ScreenOK, Visible
    <3>2. QED
      BY <2>1, <3>1, UnderIs
  <2>4. ConsoleShape'
    BY <1>1, <2>1, <2>2, <2>3 DEF ConsoleShape, ScreenOK, ChannelsOK, PlaneOK, Visible
  <2>5. \A x : (Underway(x)' <=> Underway(x)) /\ (Undone(x)' <=> Undone(x)) /\ (Done(x)' <=> Done(x))
    BY <1>3, <2>1 DEF Underway, Undone, Done, Coming, Answering
  <2>6. HiddenPends'
    BY <1>1, <2>2, <2>5 DEF HiddenPends
  <2>7. ListsRise'
    <3>1. UpTo(Gens(events'), sent) /\ Below(Gens(events'), ReaderGens)
          /\ Below(Gens(events'), Gens(reads)) /\ Below(Gens(events'), Gens(commands))
      BY <1>1 DEF ListsRise, UpTo, Below
    <3>2. ReaderGens' = ReaderGens
      BY DEF ReaderGens
    <3>3. QED
      BY <1>1, <2>1, <3>1, <3>2 DEF ListsRise
  <2>8. ASSUME ~budget.typed PROVE DeletesHide' /\ ListsTrue'
    <3>1. ASSUME NEW x \in Ids PROVE OneDelete(x)'
      <4>1. OneDelete(x)
        BY <1>1, <2>8 DEF DeletesHide
      <4>2. QED
        BY <1>3, <2>1, <4>1 DEF OneDelete, Answering
    <3>2. ASSUME NEW x \in Ids, s[x] # "no" PROVE row[x] \in Live /\ ~Underway(x)
      <4>1. e.seq \in RowIn(events, x) /\ tomb[x] # HideFromAll /\ ~(e.seq <= tomb[x])
        BY <2>2, <3>2 DEF Hides
      <4>2. ~Underway(x)
        BY <1>1, <2>8, <4>1 DEF DeletesHide
      <4>3. ~Done(x)
        BY <4>2 DEF Underway, Done, Answered, DeleteIn
      <4>4. QED
        BY <1>1, <2>8, <4>1, <4>2, <4>3 DEF ListsTrue
    <3>3. DeletesHide'
      BY <1>1, <2>1, <2>2, <2>5, <2>8, <3>1, <3>2 DEF DeletesHide
    <3>4. ASSUME NEW x \in Ids
          PROVE  row[x] \in Live \/ Done(x) \/ \A n \in RowIn(events', x) \cup ReaderRows(x) : n <= tomb'[x]
      <4>1. row[x] \in Live \/ Done(x) \/ \A n \in RowIn(events, x) \cup ReaderRows(x) : n <= tomb[x]
        BY <1>1, <2>8 DEF ListsTrue
      <4>2. CASE tomb'[x] = tomb[x]
        BY <1>3, <4>1, <4>2
      <4>3. CASE ~Hides(x, e.seq)
        <5>1. \A n \in RowIn(events', x) \cup ReaderRows(x) : e.seq < n /\ n \in Nat
          <6>1. RowIn(events', x) \subseteq Gens(events') /\ ReaderRows(x) \subseteq ReaderGens
            BY RowsAreGens DEF ReaderRows, ReaderGens
          <6>2. \A n \in ReaderGens : e.seq < n
            BY <1>1 DEF ListsRise, Below
          <6>3. UpTo(Gens(events), sent) /\ UpTo(ReaderGens, sent)
            BY <1>1 DEF ListsRise
          <6>4. QED
            BY <6>1, <6>2, <6>3 DEF UpTo
        <5>2. tomb[x] \in Int /\ ~(e.seq <= tomb[x])
          BY <1>1, <4>3 DEF Hides, ScreenOK, NoTomb, HideFromAll
        <5>3. \A n \in RowIn(events', x) \cup ReaderRows(x) : ~(n <= tomb[x])
          BY <1>2, <5>1, <5>2
        <5>4. CASE RowIn(events', x) \cup ReaderRows(x) = {}
          BY <5>4
        <5>5. CASE RowIn(events', x) \cup ReaderRows(x) # {}
          BY <1>3, <4>1, <5>3, <5>5
        <5>6. QED
          BY <5>4, <5>5
      <4>4. QED
        BY <2>2, <4>2, <4>3
    <3>5. ListsTrue'
      BY <2>5, <3>4 DEF ListsTrue, ReaderRows
    <3>6. QED
      BY <3>3, <3>5
  <2>9. QED
    BY <2>4, <2>6, <2>7, <2>8 DEF ConsoleInv
<1>6. QED
  BY <1>2, <1>4, <1>5

LEMMA TakesDeletedKeeps ==
  ASSUME ConsoleInv, NEW e \in Events, e.op \in Deleters, TakesDeleted(e), events' \in Seq(Events),
         UNCHANGED <<row, control, slot, mutations, reads, mutator, reader, filter, quit, budget>>,
         \A x : DeleteIn(events, x) <=> DeleteIn(events', x) \/ IsDelete(e, x),
         \A x : OnceIn(events, x) => OnceIn(events', x) /\ (IsDelete(e, x) => ~DeleteIn(events', x)),
         \A x, ok : Answered(events, x, ok) <=> Answered(events', x, ok) \/ (IsDelete(e, x) /\ e.ok = ok),
         Gens(events') \subseteq Gens(events), Rising(events'),
         \A x : RowIn(events, x) = RowIn(events', x) \cup (IF HasRow(e, x) THEN {e.seq} ELSE {})
  PROVE  ConsoleInv'
<1> DEFINE d == e.id
<1>1. /\ ScreenOK /\ ChannelsOK /\ PlaneOK /\ HiddenPends /\ ListsRise
      /\ ~budget.typed => DeletesHide /\ ListsTrue
  BY InvIs
<1>2. d \in Ids /\ e.ok \in BOOLEAN /\ (\A x : IsDelete(e, x) <=> x = d) /\ (\A x : ~HasRow(e, x))
      /\ filter \in SUBSET Ids /\ sent \in Nat
  BY <1>1, MessagesAre DEF Deleters, JobAnswers, IsDelete, HasRow, ScreenOK
<1>3. \A x : RowIn(events', x) = RowIn(events, x)
  BY <1>2
<1>4. /\ Kicks(filter, commands)
      /\ e.ok => /\ tomb' = [tomb EXCEPT ![d] = sent] /\ shown' = [shown EXCEPT ![d] = "no"]
                 /\ selected' = Under(shown', shown, selected)
      /\ ~e.ok => tomb' = [tomb EXCEPT ![d] = NoTomb] /\ UNCHANGED <<shown, selected>>
  BY DEF TakesDeleted, Confirmed, Failed, Shows, Without
<1> HIDE DEF d
<1>5. /\ sent' \in Nat /\ commands' \in Seq(Commands) /\ ListsRise'
      /\ \A x : DeleteIn(commands', x) <=> DeleteIn(commands, x)
      /\ \A x : OnceIn(commands, x) => OnceIn(commands', x)
  BY <1>1, <1>2, <1>4, KicksIs, KickRises
<1>6. /\ tomb' \in [Ids -> Nat \cup {NoTomb, HideFromAll}] /\ tomb'[d] = (IF e.ok THEN sent ELSE NoTomb)
      /\ \A x \in Ids \ {d} : tomb'[x] = tomb[x]
  BY <1>1, <1>2, <1>4 DEF ScreenOK
<1>7. /\ shown' \in RowMaps /\ (e.ok => shown'[d] = "no") /\ (~e.ok => shown'[d] = shown[d])
      /\ \A x \in Ids \ {d} : shown'[x] = shown[x]
  BY <1>1, <1>2, <1>4 DEF ScreenOK, RowMaps
<1>8. selected' \in Visible(shown') \cup {0}
  <2>1. selected \in Ids \cup {0}
    BY <1>1 DEF ScreenOK, Visible
  <2>2. CASE e.ok
    BY <1>4, <2>1, <2>2, UnderIs
  <2>3. CASE ~e.ok
    BY <1>1, <1>4, <2>3 DEF ScreenOK
  <2>4. QED
    BY <1>2, <2>2, <2>3
<1>9. ConsoleShape'
  BY <1>1, <1>5, <1>6, <1>7, <1>8 DEF ConsoleShape, ScreenOK, ChannelsOK, PlaneOK, Visible
<1>10. HiddenPends'
  <2>1. ASSUME NEW x \in Ids, tomb'[x] = HideFromAll PROVE Underway(x)'
    <3>1. x # d
      BY <1>2, <1>6, <2>1 DEF NoTomb, HideFromAll
    <3>2. Underway(x)
      BY <1>1, <1>6, <2>1, <3>1 DEF HiddenPends
    <3>3. QED
      BY <1>2, <1>5, <3>1, <3>2 DEF Underway, Coming, Answering
  <2>2. QED
    BY <2>1 DEF HiddenPends
<1>11. ASSUME ~budget.typed PROVE DeletesHide' /\ ListsTrue'
  <2>1. ASSUME NEW x \in Ids PROVE OneDelete(x)'
    <3>1. OneDelete(x)
      BY <1>1, <1>11 DEF DeletesHide
    <3>2. QED
      BY <1>2, <1>5, <3>1 DEF OneDelete, Answering
  <2>2. OneDelete(d) /\ DeleteIn(events, d) /\ Underway(d) /\ shown[d] = "no" /\ (Undone(d) => row[d] \in Live)
    BY <1>1, <1>2, <1>11 DEF DeletesHide, Underway
  <2>3. ~Underway(d)'
    BY <1>2, <1>5, <2>2 DEF OneDelete, Underway, Coming, Answering
  <2>4. \A x : x # d => (Underway(x)' <=> Underway(x)) /\ (Undone(x)' <=> Undone(x)) /\ (Done(x)' <=> Done(x))
    BY <1>2, <1>5 DEF Underway, Undone, Done, Coming, Answering
  <2>5. ~Undone(d)'
    BY <2>3 DEF Undone, Underway, Answered, DeleteIn
  <2>6. ~e.ok => row[d] \in Live
    <3>1. ~e.ok => Answered(events, d, FALSE)
      BY <1>2
    <3>2. QED
      BY <2>2, <3>1 DEF Undone
  <2>7. shown'[d] = "no"
    BY <1>2, <1>7, <2>2
  <2>8. DeletesHide'
    BY <1>1, <1>6, <1>7, <1>11, <2>1, <2>3, <2>4, <2>5, <2>7 DEF DeletesHide
  <2>9. ASSUME NEW x \in Ids
        PROVE  row[x] \in Live \/ Done(x)' \/ \A n \in RowIn(events', x) \cup ReaderRows(x) : n <= tomb'[x]
    <3>1. CASE x # d
      BY <1>1, <1>3, <1>6, <1>11, <2>4, <3>1 DEF ListsTrue
    <3>2. CASE x = d /\ ~e.ok
      BY <2>6, <3>2
    <3>3. CASE x = d /\ e.ok
      <4>1. RowIn(events', x) \subseteq Gens(events') /\ ReaderRows(x) \subseteq ReaderGens
        BY RowsAreGens DEF ReaderRows, ReaderGens
      <4>2. \A n \in RowIn(events', x) \cup ReaderRows(x) : n <= sent
        BY <1>1, <4>1 DEF ListsRise, UpTo
      <4>3. QED
        BY <1>6, <3>3, <4>2
    <3>4. QED
      BY <1>2, <3>1, <3>2, <3>3
  <2>10. ListsTrue'
    BY <2>9 DEF ListsTrue, ReaderRows
  <2>11. QED
    BY <2>8, <2>10
<1>12. QED
  BY <1>5, <1>9, <1>10, <1>11 DEF ConsoleInv

LEMMA TakesStartedKeeps ==
  ASSUME ConsoleInv, NEW e \in Events, e.op \notin Deleters \cup {"list"}, TakesStarted(e), events' \in Seq(Events),
         UNCHANGED <<row, control, slot, mutations, reads, mutator, reader, filter, quit, budget>>,
         \A x : DeleteIn(events, x) <=> DeleteIn(events', x) \/ IsDelete(e, x),
         \A x : OnceIn(events, x) => OnceIn(events', x) /\ (IsDelete(e, x) => ~DeleteIn(events', x)),
         \A x, ok : Answered(events, x, ok) <=> Answered(events', x, ok) \/ (IsDelete(e, x) /\ e.ok = ok),
         Gens(events') \subseteq Gens(events), Rising(events'),
         \A x : RowIn(events, x) = RowIn(events', x) \cup (IF HasRow(e, x) THEN {e.seq} ELSE {})
  PROVE  ConsoleInv'
<1>1. /\ ScreenOK /\ ChannelsOK /\ PlaneOK /\ HiddenPends /\ ListsRise
      /\ ~budget.typed => DeletesHide /\ ListsTrue
  BY InvIs
<1>2. e.id \in Ids /\ e.ok \in BOOLEAN /\ (\A x : ~IsDelete(e, x)) /\ (\A x : ~HasRow(e, x)) /\ filter \in SUBSET Ids
  BY <1>1, MessagesAre DEF JobAnswers, IsDelete, HasRow, ScreenOK
<1>3. /\ UNCHANGED <<selected, tomb>> /\ (Kicks(filter, commands) \/ UNCHANGED <<sent, commands>>)
      /\ shown' = shown \/ (shown[e.id] # "no" /\ \E w \in Live : shown' = [shown EXCEPT ![e.id] = w])
  BY DEF TakesStarted, Live
<1>4. shown' \in RowMaps /\ Visible(shown') = Visible(shown)
  <2>1. CASE shown' = shown
    BY <1>1, <2>1 DEF ScreenOK
  <2>2. CASE shown' # shown
    <3>1. PICK w \in Live : shown' = [shown EXCEPT ![e.id] = w]
      BY <1>3, <2>2
    <3>2. shown[e.id] # "no" /\ shown \in RowMaps
      BY <1>1, <1>3, <2>2 DEF ScreenOK
    <3>3. QED
      BY <1>2, <3>1, <3>2 DEF RowMaps, Visible, Live
  <2>3. QED
    BY <2>1, <2>2
<1>5. /\ sent' \in Nat /\ commands' \in Seq(Commands) /\ ListsRise'
      /\ \A x : DeleteIn(commands', x) <=> DeleteIn(commands, x)
      /\ \A x : OnceIn(commands, x) => OnceIn(commands', x)
  <2>1. CASE Kicks(filter, commands)
    BY <1>1, <1>2, <2>1, KicksIs, KickRises
  <2>2. CASE UNCHANGED <<sent, commands>>
    <3>1. UpTo(Gens(events'), sent) /\ Below(Gens(events'), ReaderGens)
          /\ Below(Gens(events'), Gens(reads)) /\ Below(Gens(events'), Gens(commands))
      BY <1>1 DEF ListsRise, UpTo, Below
    <3>2. ReaderGens' = ReaderGens
      BY DEF ReaderGens
    <3>3. QED
      BY <1>1, <2>2, <3>1, <3>2 DEF ListsRise, ScreenOK, ChannelsOK
  <2>3. QED
    BY <1>3, <2>1, <2>2
<1>6. /\ \A x : DeleteIn(events', x) <=> DeleteIn(events, x)
      /\ \A x : OnceIn(events, x) => OnceIn(events', x)
      /\ \A x, ok : Answered(events', x, ok) <=> Answered(events, x, ok)
      /\ \A x : RowIn(events', x) = RowIn(events, x)
  BY <1>2
<1>7. ConsoleShape'
  BY <1>1, <1>3, <1>4, <1>5 DEF ConsoleShape, ScreenOK, ChannelsOK, PlaneOK
<1>8. \A x : (Underway(x)' <=> Underway(x)) /\ (Undone(x)' <=> Undone(x)) /\ (Done(x)' <=> Done(x))
  BY <1>5, <1>6 DEF Underway, Undone, Done, Coming, Answering
<1>9. HiddenPends'
  BY <1>1, <1>3, <1>8 DEF HiddenPends
<1>10. ASSUME ~budget.typed PROVE DeletesHide' /\ ListsTrue'
  <2>1. ASSUME NEW x \in Ids PROVE OneDelete(x)'
    <3>1. OneDelete(x)
      BY <1>1, <1>10 DEF DeletesHide
    <3>2. QED
      BY <1>5, <1>6, <3>1 DEF OneDelete, Answering
  <2>2. \A x \in Ids : shown'[x] # "no" <=> shown[x] # "no"
    BY <1>4 DEF Visible
  <2>3. DeletesHide'
    BY <1>1, <1>3, <1>8, <1>10, <2>1, <2>2 DEF DeletesHide
  <2>4. ListsTrue'
    BY <1>1, <1>3, <1>6, <1>8, <1>10 DEF ListsTrue, ReaderRows
  <2>5. QED
    BY <2>3, <2>4
<1>11. QED
  BY <1>5, <1>7, <1>9, <1>10 DEF ConsoleInv

LEMMA UiTakesKeeps == ASSUME ConsoleInv, UiTakes PROVE ConsoleInv'
<1>1. PICK e \in Events :
        /\ events' \in Seq(Events)
        /\ UNCHANGED <<row, control, slot, mutations, reads, mutator, reader, filter, quit, budget>>
        /\ e.op = "list" => TakesList(e)
        /\ e.op \in Deleters => TakesDeleted(e)
        /\ e.op \notin Deleters \cup {"list"} => TakesStarted(e)
        /\ \A x : DeleteIn(events, x) <=> DeleteIn(events', x) \/ IsDelete(e, x)
        /\ \A x : OnceIn(events, x) => OnceIn(events', x) /\ (IsDelete(e, x) => ~DeleteIn(events', x))
        /\ \A x, ok : Answered(events, x, ok) <=> Answered(events', x, ok) \/ (IsDelete(e, x) /\ e.ok = ok)
        /\ Gens(events') \subseteq Gens(events) /\ (e.op = "list" => e.seq \in Gens(events))
        /\ Rising(events')
        /\ e.op = "list" => \A n \in Gens(events') : e.seq < n
        /\ \A x : RowIn(events, x) = RowIn(events', x) \cup (IF HasRow(e, x) THEN {e.seq} ELSE {})
  BY UiTook
<1>2. CASE e.op = "list"
  BY <1>1, <1>2, TakesListKeeps
<1>3. CASE e.op \in Deleters
  BY <1>1, <1>3, TakesDeletedKeeps
<1>4. CASE e.op \notin Deleters \cup {"list"}
  BY <1>1, <1>4, TakesStartedKeeps
<1>5. QED
  BY <1>2, <1>3, <1>4

LEMMA ConsoleStep == ASSUME ConsoleInv, [ConsoleNext]_consoleVars PROVE ConsoleInv'
<1>1. CASE Plane
  BY <1>1, QuietSteps, ControlTakesKeeps DEF Plane
<1>2. CASE ControlThreads
  BY <1>2, MutatorWorksKeeps, MutatorAnswersKeeps, ReaderTakesKeeps, ReaderSelectsKeeps, ReaderAnswersKeeps
     DEF ControlThreads
<1>3. CASE Keys
  BY <1>3, DeleteSteps, StartSteps, UserQuitsKeeps, QuietSteps, KickSteps DEF Keys
<1>4. CASE UiTakes \/ UiRefreshes \/ UiEnds \/ \E x \in Ids, s \in BOOLEAN : WatchRestores(x, s)
  BY <1>4, UiTakesKeeps, KickSteps, QuietSteps, StartSteps
<1>5. CASE UNCHANGED consoleVars
  <2>1. /\ ScreenOK /\ PlaneOK
    BY InvIs
  <2>2. /\ selected \in Visible(shown) \cup {0} /\ budget \in ConsoleProfile /\ slot \in BOOLEAN
        /\ control \in {"boots", "runs", "readerJoins", "mutatorJoins", "stops", "ended"}
        /\ quit \in {"no", "asked", "joins", "done"}
    BY <2>1 DEF ScreenOK, PlaneOK
  <2>3. QED
    BY <1>5, <2>2, QuietStep DEF consoleVars
<1>6. QED
  BY <1>1, <1>2, <1>3, <1>4, <1>5 DEF ConsoleNext

LEMMA ConsoleBegins == ConsoleInit => ConsoleInv
<1> SUFFICES ASSUME ConsoleInit PROVE ConsoleInv
  OBVIOUS
<1>1. /\ row \in [Ids -> {"stopped", "started"}] /\ commands = <<>> /\ mutations = <<>> /\ reads = <<>> /\ events = <<>>
      /\ control = "boots" /\ slot = FALSE
      /\ mutator = [pc |-> "idle", answer |-> NoAnswer]
      /\ reader = [pc |-> "idle", seq |-> 0, filter |-> Ids, rows |-> Hidden]
      /\ shown = Hidden /\ selected = 0 /\ filter = Ids /\ tomb = [x \in Ids |-> NoTomb] /\ sent = 0
      /\ quit = "no" /\ budget \in ConsoleProfile
  BY DEF ConsoleInit, ConsoleAssumption
<1>2. Hidden \in RowMaps /\ \A x \in Ids : Hidden[x] = "no"
  BY DEF Hidden, RowMaps
<1>3. ScreenOK
  BY <1>1, <1>2 DEF ScreenOK
<1>4. ChannelsOK
  BY <1>1 DEF ChannelsOK
<1>5. PlaneOK
  BY <1>1, <1>2 DEF PlaneOK
<1>6. \A x : ~Answering(x) /\ ~Underway(x) /\ ~Undone(x)
  BY <1>1, NothingIn DEF Answering, Underway, Undone, Coming
<1>7. HiddenPends
  BY <1>1 DEF HiddenPends, NoTomb, HideFromAll
<1>8. ReaderGens = {}
  BY <1>1 DEF ReaderGens
<1>9. ListsRise
  BY <1>1, <1>8, NothingIn DEF ListsRise, UpTo, Below
<1>10. DeletesHide
  BY <1>1, <1>2, <1>6, NothingIn DEF DeletesHide, OneDelete
<1>11. ListsTrue
  BY <1>1 DEF ListsTrue, Live
<1>12. QED
  BY <1>3, <1>4, <1>5, <1>7, <1>9, <1>10, <1>11 DEF ConsoleInv, ConsoleShape

LEMMA ConsoleInvariant == ConsoleSpec => []ConsoleInv
<1>1. ConsoleInv /\ [ConsoleNext]_consoleVars => ConsoleInv'
  BY ConsoleStep
<1>2. QED
  BY <1>1, ConsoleBegins, PTL DEF ConsoleSpec

\* What is hidden from every list (a queued delete, delete_filter.rs) is still
\* to be answered, whoever types what.
THEOREM HiddenIsAnswered == ConsoleSpec => []HiddenIsPending
<1>1. ConsoleInv => HiddenIsPending
  <2>1. HiddenPends => HiddenIsPending
    BY DEF HiddenPends, HiddenIsPending, Underway, Coming, Answering, DeleteIn, IsDelete
  <2>2. QED
    BY <2>1, InvIs
<1>2. QED
  BY <1>1, ConsoleInvariant, PTL

\* Whether ids are typed does not change.
LEMMA TypedStays == ASSUME ConsoleInv, [ConsoleNext]_consoleVars PROVE budget'.typed = budget.typed
<1>1. budget \in ConsoleProfile
  BY InvIs
<1>2. budget' = budget \/ \E b \in {"presses", "kicks", "restores", "faults", "filters"} : Pays(b)
  <2>1. CASE Plane
    BY <2>1 DEF Plane, ControlBoots, ControlTakes, ControlJoins, ControlEnds
  <2>2. CASE ControlThreads
    BY <2>2 DEF ControlThreads, MutatorWorks, MutatorAnswers, ReaderTakes, ReaderSelects, ReaderAnswers
  <2>3. CASE Keys
    BY <2>3 DEF Keys, UserPressesDelete, UserToggles, UserQuits, UserSelects, UserTypesRemove, UserFilters,
                Deletes, Presses
  <2>4. CASE UiTakes \/ UiRefreshes \/ UiEnds \/ \E x \in Ids, s \in BOOLEAN : WatchRestores(x, s)
    BY <2>4 DEF UiTakes, UiRefreshes, UiEnds, WatchRestores
  <2>5. CASE UNCHANGED consoleVars
    BY <2>5 DEF consoleVars
  <2>6. QED
    BY <2>1, <2>2, <2>3, <2>4, <2>5 DEF ConsoleNext
<1>3. QED
  BY <1>1, <1>2, PaysIs

\* Unless somebody types an id that is not shown, the rows on the screen are in
\* the catalog and the cursor is on one of them, over lists that overtake
\* deletes, deletes that fail and rows that come back (delete_filter.rs:6).
THEOREM ListTellsTheTruth ==
  ASSUME \A p \in ConsoleStarts : ~p.typed
  PROVE  ConsoleSpec => []ListIsTrue
<1>1. ConsoleInit => ~budget.typed
  BY DEF ConsoleInit
<1>2. ConsoleInv /\ ~budget.typed /\ [ConsoleNext]_consoleVars => (~budget.typed)'
  BY TypedStays
<1>3. ConsoleInv /\ ~budget.typed => RowsExist
  <2> SUFFICES ASSUME ConsoleInv, ~budget.typed PROVE RowsExist
    OBVIOUS
  <2>1. DeletesHide /\ ScreenOK
    BY InvIs
  <2>2. QED
    BY <2>1 DEF RowsExist, DeletesHide, ScreenOK, Visible, Live
<1>4. ConsoleSpec => []~budget.typed
  BY <1>1, <1>2, ConsoleInvariant, PTL DEF ConsoleSpec
<1>5. RowsExist /\ HiddenIsPending => ListIsTrue
  BY DEF ListIsTrue
<1>6. QED
  BY <1>3, <1>4, <1>5, ConsoleInvariant, HiddenIsAnswered, PTL

-----------------------------------------------------------------------------
(* LogView: counting rows and passing lines.                               *)

\* The lines of the log, and what a thread holds.
LogLines == [seq : Nat \ {0}, rows : Nat \ {0}, hit : BOOLEAN]

\* The rows of a page grow line by line.
RowsFrom(s, from, f, m) == f = [n \in 0..m |-> IF n <= from THEN 0 ELSE f[n - 1] + s[n].rows]

LEMMA RowSumsExist ==
  ASSUME NEW s, NEW from \in Nat, NEW m \in Nat
  PROVE  \E f : RowsFrom(s, from, f, m)
<1> DEFINE T == {n \in 0..m : \E f : RowsFrom(s, from, f, n)}
<1>1. 0 \in T
  <2> DEFINE f == [n \in 0..0 |-> 0]
  <2>1. f = [n \in 0..0 |-> IF n <= from THEN 0 ELSE f[n - 1] + s[n].rows]
    OBVIOUS
  <2>2. RowsFrom(s, from, f, 0)
    BY <2>1 DEF RowsFrom
  <2>3. QED
    BY <2>2
<1>2. ASSUME NEW n \in 0..m, n \in T, n < m PROVE n + 1 \in T
  <2>1. PICK f : RowsFrom(s, from, f, n)
    BY <1>2
  <2>2. /\ DOMAIN f = 0..n
        /\ \A k \in 0..n : f[k] = IF k <= from THEN 0 ELSE f[k - 1] + s[k].rows
    BY <2>1 DEF RowsFrom
  <2> DEFINE g == [k \in 0..(n + 1) |-> IF k <= n THEN f[k]
                                      ELSE IF k <= from THEN 0 ELSE f[n] + s[k].rows]
  <2>3. ASSUME NEW k \in 0..(n + 1)
        PROVE  g[k] = IF k <= from THEN 0 ELSE g[k - 1] + s[k].rows
    <3>1. CASE k <= n
      <4>1. g[k] = f[k] /\ k \in 0..n
        BY <3>1
      <4>2. k > from => k - 1 \in 0..(n + 1) /\ g[k - 1] = f[k - 1]
        BY <3>1
      <4> HIDE DEF g
      <4>3. QED
        BY <2>2, <4>1, <4>2
    <3>2. CASE k = n + 1
      <4>1. g[k] = IF k <= from THEN 0 ELSE f[n] + s[k].rows
        BY <3>2
      <4>2. k - 1 = n /\ g[k - 1] = f[n]
        BY <3>2
      <4> HIDE DEF g
      <4>3. QED
        BY <4>1, <4>2
    <3>3. QED
      BY <3>1, <3>2
  <2>4. g = [k \in 0..(n + 1) |-> IF k <= from THEN 0 ELSE g[k - 1] + s[k].rows]
    <3>1. g = [k \in 0..(n + 1) |-> g[k]]
      OBVIOUS
    <3> HIDE DEF g
    <3>2. QED
      BY <2>3, <3>1
  <2>5. RowsFrom(s, from, g, n + 1)
    BY <2>4 DEF RowsFrom
  <2>6. QED
    BY <2>5, <1>2
<1>3. \A n \in 0..m : n \in T
  <2> HIDE DEF T
  <2>1. QED
    BY <1>1, <1>2, HoldsUpTo
<1>4. QED
  BY <1>3

\* The last line of a page adds its rows to those above it.
LEMMA RowsStep ==
  ASSUME NEW s, Len(s) \in Nat, NEW from \in Nat, NEW to \in 0..Len(s)
  PROVE  Rows(s, from, to) = IF to <= from THEN 0 ELSE Rows(s, from, to - 1) + s[to].rows
<1> DEFINE f == CHOOSE f : RowsFrom(s, from, f, Len(s))
<1>1. RowsFrom(s, from, f, Len(s))
  BY RowSumsExist
<1>2. \A n : Rows(s, from, n) = f[n]
  BY DEF Rows, RowsFrom
<1> HIDE DEF f
<1>3. f[to] = IF to <= from THEN 0 ELSE f[to - 1] + s[to].rows
  BY <1>1 DEF RowsFrom
<1>4. QED
  BY <1>2, <1>3

LEMMA RowsNatural ==
  ASSUME NEW s \in Seq(LogLines), NEW from \in Nat
  PROVE  \A to \in 0..Len(s) : Rows(s, from, to) \in Nat
<1> DEFINE T == {n \in 0..Len(s) : Rows(s, from, n) \in Nat}
<1>1. Len(s) \in Nat
  OBVIOUS
<1>2. 0 \in T
  BY <1>1, RowsStep
<1>3. ASSUME NEW n \in 0..Len(s), n \in T, n < Len(s) PROVE n + 1 \in T
  <2>1. n + 1 \in 1..Len(s) /\ (n + 1) - 1 = n
    BY <1>3
  <2>2. s[n + 1] \in LogLines
    BY <2>1
  <2>3. s[n + 1].rows \in Nat
    BY <2>2 DEF LogLines
  <2>4. Rows(s, from, n + 1) = IF n + 1 <= from THEN 0 ELSE Rows(s, from, n) + s[n + 1].rows
    BY <1>1, <2>1, RowsStep
  <2>5. Rows(s, from, n + 1) \in Nat
    BY <1>3, <2>3, <2>4
  <2>6. QED
    BY <2>1, <2>5
<1>4. \A n \in 0..Len(s) : n \in T
  <2> HIDE DEF T
  <2>1. QED
    BY <1>1, <1>2, <1>3, HoldsUpTo
<1>5. ASSUME NEW to \in 0..Len(s) PROVE Rows(s, from, to) \in Nat
  <2>1. to \in T
    BY <1>4
  <2>2. QED
    BY <2>1
<1>6. QED
  BY <1>5

\* A page that is part of another has no more rows.
LEMMA RowsOfPart ==
  ASSUME NEW s \in Seq(LogLines), NEW a \in Nat, NEW b \in Nat, a <= b,
         NEW c \in 0..Len(s), NEW d \in c..Len(s)
  PROVE  Rows(s, b, c) <= Rows(s, a, d)
<1>1. Len(s) \in Nat
  OBVIOUS
<1>1a. ASSUME NEW n \in 0..Len(s)
       PROVE  Rows(s, a, n) \in Nat /\ Rows(s, b, n) \in Nat
  <2>1. Rows(s, a, n) \in Nat
    BY RowsNatural
  <2>2. Rows(s, b, n) \in Nat
    BY RowsNatural
  <2>3. QED
    BY <2>1, <2>2
<1>1b. Rows(s, a, 0) = 0 /\ Rows(s, b, 0) = 0
  <2>1. Rows(s, a, 0) = 0
    BY <1>1, RowsStep
  <2>2. Rows(s, b, 0) = 0
    BY <1>1, RowsStep
  <2>3. QED
    BY <2>1, <2>2
<1>2. ASSUME NEW n \in 0..Len(s), n < Len(s)
      PROVE  /\ s[n + 1].rows \in Nat
             /\ Rows(s, a, n + 1) = IF n + 1 <= a THEN 0 ELSE Rows(s, a, n) + s[n + 1].rows
             /\ Rows(s, b, n + 1) = IF n + 1 <= b THEN 0 ELSE Rows(s, b, n) + s[n + 1].rows
  <2>1. n + 1 \in 1..Len(s) /\ n + 1 \in 0..Len(s) /\ (n + 1) - 1 = n
    BY <1>1, <1>2
  <2>2. s[n + 1] \in LogLines
    BY <2>1
  <2>3. s[n + 1].rows \in Nat
    BY <2>2 DEF LogLines
  <2>4. Rows(s, a, n + 1) = IF n + 1 <= a THEN 0 ELSE Rows(s, a, n) + s[n + 1].rows
    BY <1>1, <2>1, RowsStep
  <2>5. Rows(s, b, n + 1) = IF n + 1 <= b THEN 0 ELSE Rows(s, b, n) + s[n + 1].rows
    BY <1>1, <2>1, RowsStep
  <2>6. QED
    BY <2>3, <2>4, <2>5
<1>2a. ASSUME NEW n \in 0..Len(s)
       PROVE  n <= a => Rows(s, a, n) = 0
  <2>1. Rows(s, a, n) = IF n <= a THEN 0 ELSE Rows(s, a, n - 1) + s[n].rows
    BY <1>1, RowsStep
  <2>2. QED
    BY <2>1
<1>3. ASSUME NEW n \in 0..Len(s) PROVE Rows(s, b, n) <= Rows(s, a, n)
  <2> DEFINE T == {m \in 0..Len(s) : Rows(s, b, m) <= Rows(s, a, m)}
  <2>1. 0 \in T
    BY <1>1, <1>1b
  <2>2. ASSUME NEW m \in 0..Len(s), m \in T, m < Len(s) PROVE m + 1 \in T
    <3>1. m + 1 \in 0..Len(s) /\ m \in Nat
      BY <1>1, <2>2
    <3>2. Rows(s, b, m) <= Rows(s, a, m)
      BY <2>2
    <3>3. Rows(s, a, m) \in Nat /\ Rows(s, b, m) \in Nat
      BY <1>1a
    <3>4. /\ s[m + 1].rows \in Nat
          /\ Rows(s, a, m + 1) = IF m + 1 <= a THEN 0 ELSE Rows(s, a, m) + s[m + 1].rows
          /\ Rows(s, b, m + 1) = IF m + 1 <= b THEN 0 ELSE Rows(s, b, m) + s[m + 1].rows
      BY <1>2, <2>2
    <3>5. Rows(s, b, m + 1) <= Rows(s, a, m + 1)
      BY <3>1, <3>2, <3>3, <3>4
    <3>6. QED
      BY <3>1, <3>5
  <2>3. n \in T
    <3> HIDE DEF T
    <3>1. QED
      BY <1>1, <2>1, <2>2, HoldsUpTo
  <2>4. QED
    BY <2>3
<1>4. Rows(s, a, c) <= Rows(s, a, d)
  <2> DEFINE T == {m \in 0..Len(s) : m >= c => Rows(s, a, c) <= Rows(s, a, m)}
  <2>1. 0 \in T
    BY <1>1, <1>1b
  <2>2. ASSUME NEW m \in 0..Len(s), m \in T, m < Len(s) PROVE m + 1 \in T
    <3>1. m + 1 \in 0..Len(s) /\ m \in Nat
      BY <1>1, <2>2
    <3>2. m >= c => Rows(s, a, c) <= Rows(s, a, m)
      BY <2>2
    <3>3. Rows(s, a, m) \in Nat /\ Rows(s, a, m + 1) \in Nat /\ Rows(s, a, c) \in Nat
      BY <1>1a, <3>1
    <3>4. /\ s[m + 1].rows \in Nat
          /\ Rows(s, a, m + 1) = IF m + 1 <= a THEN 0 ELSE Rows(s, a, m) + s[m + 1].rows
      BY <1>2, <2>2
    <3>5. m <= a => Rows(s, a, m) = 0
      BY <1>2a
    <3>6. Rows(s, a, m) <= Rows(s, a, m + 1)
      BY <3>1, <3>3, <3>4, <3>5
    <3>7. m + 1 >= c => Rows(s, a, c) <= Rows(s, a, m + 1)
      BY <3>1, <3>2, <3>3, <3>6
    <3>8. QED
      BY <3>1, <3>7
  <2>3. d \in T
    <3>1. d \in 0..Len(s)
      BY <1>1
    <3> HIDE DEF T
    <3>2. QED
      BY <1>1, <2>1, <2>2, <3>1, HoldsUpTo
  <2>4. QED
    BY <2>3
<1>5. /\ Rows(s, b, c) \in Nat /\ Rows(s, a, c) \in Nat /\ Rows(s, a, d) \in Nat
      /\ Rows(s, b, c) <= Rows(s, a, c)
  <2>1. c \in 0..Len(s) /\ d \in 0..Len(s)
    BY <1>1
  <2>2. QED
    BY <1>1a, <1>3, <2>1
<1>6. QED
  BY <1>4, <1>5

\* The rows of lines that stand elsewhere are the same.
LEMMA RowsMove ==
  ASSUME NEW s \in Seq(LogLines), NEW t \in Seq(LogLines), NEW k \in Nat, NEW m \in 0..Len(t),
         m + k <= Len(s), \A i \in 1..m : t[i] = s[i + k], NEW from \in Nat
  PROVE  \A n \in 0..m : Rows(t, from, n) = Rows(s, from + k, n + k)
<1> DEFINE T == {n \in 0..m : Rows(t, from, n) = Rows(s, from + k, n + k)}
<1>1. Len(s) \in Nat /\ Len(t) \in Nat /\ m \in Nat
  OBVIOUS
<1>2. 0 \in T
  <2>1. Rows(t, from, 0) = 0
    BY <1>1, RowsStep
  <2>2. Rows(s, from + k, 0 + k) = 0
    BY <1>1, RowsStep
  <2>3. QED
    BY <2>1, <2>2
<1>3. ASSUME NEW n \in 0..m, n \in T, n < m PROVE n + 1 \in T
  <2>1. /\ n + 1 \in 1..m /\ n + 1 \in 0..Len(t) /\ (n + 1) - 1 = n
        /\ (n + 1) + k \in 0..Len(s) /\ ((n + 1) + k) - 1 = n + k /\ from + k \in Nat
        /\ (n + 1 <= from <=> (n + 1) + k <= from + k)
    BY <1>1, <1>3
  <2>2. Rows(t, from, n + 1) = IF n + 1 <= from THEN 0 ELSE Rows(t, from, n) + t[n + 1].rows
    BY <1>1, <2>1, RowsStep
  <2>3. Rows(s, from + k, (n + 1) + k) = IF n + 1 <= from THEN 0
                                         ELSE Rows(s, from + k, n + k) + s[(n + 1) + k].rows
    BY <1>1, <2>1, RowsStep
  <2>4. Rows(t, from, n) = Rows(s, from + k, n + k)
    BY <1>3
  <2>5. Rows(t, from, n + 1) = Rows(s, from + k, (n + 1) + k)
    BY <2>1, <2>2, <2>3, <2>4
  <2>6. QED
    BY <2>1, <2>5
<1>4. \A n \in 0..m : n \in T
  <2> HIDE DEF T
  <2>1. QED
    BY <1>1, <1>2, <1>3, HoldsUpTo
<1>5. QED
  BY <1>4

\* The lines that pass, collected line by line.
KeptFrom(lines, on, f, m) ==
    f = [n \in 0..m |-> IF n = 0 THEN <<>>
                        ELSE IF lines[n].hit \/ ~on THEN Append(f[n - 1], lines[n]) ELSE f[n - 1]]
Kept(lines, on) == CHOOSE f : KeptFrom(lines, on, f, Len(lines))

LEMMA KeptExists ==
  ASSUME NEW s, NEW on, NEW m \in Nat
  PROVE  \E f : KeptFrom(s, on, f, m)
<1> DEFINE T == {n \in 0..m : \E f : KeptFrom(s, on, f, n)}
<1>1. 0 \in T
  <2> DEFINE f == [n \in 0..0 |-> <<>>]
  <2>1. f = [n \in 0..0 |-> IF n = 0 THEN <<>> ELSE IF s[n].hit \/ ~on THEN Append(f[n - 1], s[n]) ELSE f[n - 1]]
    OBVIOUS
  <2>2. KeptFrom(s, on, f, 0)
    BY <2>1 DEF KeptFrom
  <2>3. QED
    BY <2>2
<1>2. ASSUME NEW n \in 0..m, n \in T, n < m PROVE n + 1 \in T
  <2>1. PICK f : KeptFrom(s, on, f, n)
    BY <1>2
  <2>2. /\ DOMAIN f = 0..n
        /\ \A k \in 0..n : f[k] = IF k = 0 THEN <<>>
                                  ELSE IF s[k].hit \/ ~on THEN Append(f[k - 1], s[k]) ELSE f[k - 1]
    BY <2>1 DEF KeptFrom
  <2> DEFINE g == [k \in 0..(n + 1) |-> IF k <= n THEN f[k]
                                      ELSE IF s[k].hit \/ ~on THEN Append(f[n], s[k]) ELSE f[n]]
  <2>3. ASSUME NEW k \in 0..(n + 1)
        PROVE  g[k] = IF k = 0 THEN <<>>
                      ELSE IF s[k].hit \/ ~on THEN Append(g[k - 1], s[k]) ELSE g[k - 1]
    <3>1. CASE k <= n
      <4>1. g[k] = f[k] /\ k \in 0..n
        BY <3>1
      <4>2. k # 0 => k - 1 \in 0..(n + 1) /\ g[k - 1] = f[k - 1]
        BY <3>1
      <4> HIDE DEF g
      <4>3. QED
        BY <2>2, <4>1, <4>2
    <3>2. CASE k = n + 1
      <4>1. g[k] = IF s[k].hit \/ ~on THEN Append(f[n], s[k]) ELSE f[n]
        BY <3>2
      <4>2. k - 1 = n /\ g[k - 1] = f[n] /\ k # 0
        BY <3>2
      <4> HIDE DEF g
      <4>3. QED
        BY <4>1, <4>2
    <3>3. QED
      BY <3>1, <3>2
  <2>4. g = [k \in 0..(n + 1) |-> IF k = 0 THEN <<>>
                                  ELSE IF s[k].hit \/ ~on THEN Append(g[k - 1], s[k]) ELSE g[k - 1]]
    <3>1. g = [k \in 0..(n + 1) |-> g[k]]
      OBVIOUS
    <3> HIDE DEF g
    <3>2. QED
      BY <2>3, <3>1
  <2>5. KeptFrom(s, on, g, n + 1)
    BY <2>4 DEF KeptFrom
  <2>6. QED
    BY <2>5, <1>2
<1>3. \A n \in 0..m : n \in T
  <2> HIDE DEF T
  <2>1. QED
    BY <1>1, <1>2, HoldsUpTo
<1>4. QED
  BY <1>3

LEMMA KeptStep ==
  ASSUME NEW s, Len(s) \in Nat, NEW on
  PROVE  /\ Kept(s, on)[0] = <<>>
         /\ \A n \in 1..Len(s) :
                Kept(s, on)[n] = IF s[n].hit \/ ~on THEN Append(Kept(s, on)[n - 1], s[n]) ELSE Kept(s, on)[n - 1]
         /\ Passing(s, on) = Kept(s, on)[Len(s)]
<1>1. KeptFrom(s, on, Kept(s, on), Len(s))
  BY KeptExists DEF Kept
<1>2. Passing(s, on) = Kept(s, on)[Len(s)]
  BY DEF Passing, Kept, KeptFrom
<1> DEFINE f == Kept(s, on)
<1> HIDE DEF f
<1>3. KeptFrom(s, on, f, Len(s))
  BY <1>1 DEF f
<1>4. \A n \in 0..Len(s) : f[n] = IF n = 0 THEN <<>> ELSE IF s[n].hit \/ ~on THEN Append(f[n - 1], s[n]) ELSE f[n - 1]
  BY <1>3 DEF KeptFrom
<1>5. f[0] = <<>> /\ \A n \in 1..Len(s) : f[n] = IF s[n].hit \/ ~on THEN Append(f[n - 1], s[n]) ELSE f[n - 1]
  BY <1>4
<1>6. QED
  BY <1>2, <1>5 DEF f

\* What the first n lines leave: lines among them that pass, all that pass.
KeptOf(s, on, n, q) ==
    /\ q \in Seq(LogLines)
    /\ \A j \in 1..Len(q) : \E i \in 1..n : q[j] = s[i] /\ (s[i].hit \/ ~on)
    /\ \A i \in 1..n : s[i].hit \/ ~on => \E j \in 1..Len(q) : q[j] = s[i]

LEMMA AppendKept ==
  ASSUME NEW q \in Seq(LogLines), NEW line \in LogLines
  PROVE  /\ Append(q, line) \in Seq(LogLines) /\ Len(Append(q, line)) = Len(q) + 1
         /\ Append(q, line)[Len(q) + 1] = line
         /\ \A i \in 1..Len(q) : Append(q, line)[i] = q[i]
  OBVIOUS

LEMMA KeptAreLines ==
  ASSUME NEW s \in Seq(LogLines), NEW on
  PROVE  \A n \in 0..Len(s) : KeptOf(s, on, n, Kept(s, on)[n])
<1> DEFINE f == Kept(s, on)
           T == {n \in 0..Len(s) : KeptOf(s, on, n, f[n])}
<1>1. Len(s) \in Nat
  OBVIOUS
<1>2. f[0] = <<>> /\ \A n \in 1..Len(s) : f[n] = IF s[n].hit \/ ~on THEN Append(f[n - 1], s[n]) ELSE f[n - 1]
  BY <1>1, KeptStep
<1> HIDE DEF f
<1>3. 0 \in T
  <2>1. f[0] \in Seq(LogLines) /\ Len(f[0]) = 0 /\ 0 \in 0..Len(s)
    BY <1>1, <1>2
  <2>2. KeptOf(s, on, 0, f[0])
    BY <2>1 DEF KeptOf
  <2>3. QED
    BY <2>1, <2>2
<1>4. ASSUME NEW n \in 0..Len(s), n \in T, n < Len(s) PROVE n + 1 \in T
  <2>1. n + 1 \in 1..Len(s) /\ n + 1 \in 0..Len(s) /\ (n + 1) - 1 = n /\ n \in Nat
    BY <1>1, <1>4
  <2>2. s[n + 1] \in LogLines
    BY <2>1
  <2>3. KeptOf(s, on, n, f[n])
    BY <1>4
  <2>4. CASE s[n + 1].hit \/ ~on
    <3>1. f[n + 1] = Append(f[n], s[n + 1])
      BY <1>2, <2>1, <2>4
    <3>2. f[n] \in Seq(LogLines)
      BY <2>3 DEF KeptOf
    <3>3. /\ f[n + 1] \in Seq(LogLines) /\ Len(f[n + 1]) = Len(f[n]) + 1
          /\ f[n + 1][Len(f[n]) + 1] = s[n + 1]
          /\ \A i \in 1..Len(f[n]) : f[n + 1][i] = f[n][i]
      BY <2>2, <3>1, <3>2, AppendKept
    <3>4. Len(f[n]) \in Nat
      BY <3>2
    <3>5. ASSUME NEW j \in 1..Len(f[n + 1])
          PROVE  \E i \in 1..(n + 1) : f[n + 1][j] = s[i] /\ (s[i].hit \/ ~on)
      <4>1. CASE j = Len(f[n]) + 1
        BY <2>1, <2>4, <3>3, <4>1
      <4>2. CASE j # Len(f[n]) + 1
        <5>1. j \in 1..Len(f[n])
          BY <3>3, <3>4, <4>2
        <5>2. PICK i \in 1..n : f[n][j] = s[i] /\ (s[i].hit \/ ~on)
          BY <2>3, <5>1 DEF KeptOf
        <5>3. i \in 1..(n + 1)
          BY <2>1
        <5>4. QED
          BY <3>3, <5>1, <5>2, <5>3
      <4>3. QED
        BY <4>1, <4>2
    <3>6. ASSUME NEW i \in 1..(n + 1), s[i].hit \/ ~on
          PROVE  \E j \in 1..Len(f[n + 1]) : f[n + 1][j] = s[i]
      <4>1. CASE i = n + 1
        <5>1. Len(f[n]) + 1 \in 1..Len(f[n + 1])
          BY <3>3, <3>4
        <5>2. QED
          BY <3>3, <4>1, <5>1
      <4>2. CASE i # n + 1
        <5>1. i \in 1..n
          BY <2>1, <4>2
        <5>2. PICK j \in 1..Len(f[n]) : f[n][j] = s[i]
          BY <2>3, <3>6, <5>1 DEF KeptOf
        <5>3. j \in 1..Len(f[n + 1])
          BY <3>3, <3>4
        <5>4. QED
          BY <3>3, <5>2, <5>3
      <4>3. QED
        BY <4>1, <4>2
    <3>7. KeptOf(s, on, n + 1, f[n + 1])
      BY <3>3, <3>5, <3>6 DEF KeptOf
    <3>8. QED
      BY <2>1, <3>7
  <2>5. CASE ~(s[n + 1].hit \/ ~on)
    <3>1. f[n + 1] = f[n]
      BY <1>2, <2>1, <2>5
    <3>2. \A i \in 1..n : i \in 1..(n + 1)
      BY <2>1
    <3>3. \A i \in 1..(n + 1) : (s[i].hit \/ ~on) => i \in 1..n
      BY <2>1, <2>5
    <3>4. KeptOf(s, on, n + 1, f[n])
      BY <2>3, <3>2, <3>3 DEF KeptOf
    <3>5. QED
      BY <2>1, <3>1, <3>4
  <2>6. QED
    BY <2>4, <2>5
<1>5. \A n \in 0..Len(s) : n \in T
  <2> HIDE DEF T
  <2>1. QED
    BY <1>1, <1>3, <1>4, HoldsUpTo
<1>6. \A n \in 0..Len(s) : KeptOf(s, on, n, f[n])
  BY <1>5
<1>7. QED
  BY <1>6 DEF f

\* Lines that have each a number of its own.
Distinct(s) == \A i, j \in 1..Len(s) : s[i].seq = s[j].seq => i = j

LEMMA PassingDistinct ==
  ASSUME NEW s \in Seq(LogLines), NEW on, Distinct(s)
  PROVE  Distinct(Passing(s, on))
<1> DEFINE f == Kept(s, on)
           T == {n \in 0..Len(s) : Distinct(f[n])}
<1>1. Len(s) \in Nat
  OBVIOUS
<1>2. /\ f[0] = <<>> /\ \A n \in 1..Len(s) : f[n] = IF s[n].hit \/ ~on THEN Append(f[n - 1], s[n]) ELSE f[n - 1]
      /\ Passing(s, on) = f[Len(s)]
  BY <1>1, KeptStep
<1>3. \A n \in 0..Len(s) : KeptOf(s, on, n, f[n])
  BY KeptAreLines
<1> HIDE DEF f
<1>4. 0 \in T
  BY <1>1, <1>2 DEF Distinct
<1>5. ASSUME NEW n \in 0..Len(s), n \in T, n < Len(s) PROVE n + 1 \in T
  <2>1. n + 1 \in 1..Len(s) /\ n + 1 \in 0..Len(s) /\ (n + 1) - 1 = n /\ n \in Nat
    BY <1>1, <1>5
  <2>2. s[n + 1] \in LogLines
    BY <2>1
  <2>3. KeptOf(s, on, n, f[n]) /\ Distinct(f[n])
    BY <1>3, <1>5
  <2>4. CASE s[n + 1].hit \/ ~on
    <3>1. f[n + 1] = Append(f[n], s[n + 1])
      BY <1>2, <2>1, <2>4
    <3>2. f[n] \in Seq(LogLines)
      BY <2>3 DEF KeptOf
    <3>3. /\ f[n + 1] \in Seq(LogLines) /\ Len(f[n + 1]) = Len(f[n]) + 1
          /\ f[n + 1][Len(f[n]) + 1] = s[n + 1]
          /\ \A i \in 1..Len(f[n]) : f[n + 1][i] = f[n][i]
      BY <2>2, <3>1, <3>2, AppendKept
    <3>4. Len(f[n]) \in Nat
      BY <3>2
    <3>5. ASSUME NEW j \in 1..Len(f[n]) PROVE f[n][j].seq # s[n + 1].seq
      <4>1. PICK i \in 1..n : f[n][j] = s[i]
        BY <2>3 DEF KeptOf
      <4>2. i \in 1..Len(s) /\ i # n + 1
        BY <1>1, <2>1
      <4>3. QED
        BY <2>1, <4>1, <4>2 DEF Distinct
    <3>6. ASSUME NEW i \in 1..Len(f[n + 1]), NEW j \in 1..Len(f[n + 1]), f[n + 1][i].seq = f[n + 1][j].seq
          PROVE  i = j
      <4>1. i = Len(f[n]) + 1 \/ i \in 1..Len(f[n])
        BY <3>3, <3>4
      <4>2. j = Len(f[n]) + 1 \/ j \in 1..Len(f[n])
        BY <3>3, <3>4
      <4>3. CASE i = Len(f[n]) + 1 /\ j \in 1..Len(f[n])
        BY <3>3, <3>5, <3>6, <4>3
      <4>4. CASE j = Len(f[n]) + 1 /\ i \in 1..Len(f[n])
        BY <3>3, <3>5, <3>6, <4>4
      <4>5. CASE i \in 1..Len(f[n]) /\ j \in 1..Len(f[n])
        BY <2>3, <3>3, <3>6, <4>5 DEF Distinct
      <4>6. QED
        BY <4>1, <4>2, <4>3, <4>4, <4>5
    <3>7. Distinct(f[n + 1])
      BY <3>6 DEF Distinct
    <3>8. QED
      BY <2>1, <3>7
  <2>5. CASE ~(s[n + 1].hit \/ ~on)
    <3>1. f[n + 1] = f[n]
      BY <1>2, <2>1, <2>5
    <3>2. QED
      BY <2>1, <2>3, <3>1
  <2>6. QED
    BY <2>4, <2>5
<1>6. \A n \in 0..Len(s) : n \in T
  <2> HIDE DEF T
  <2>1. QED
    BY <1>1, <1>4, <1>5, HoldsUpTo
<1>7. Len(s) \in T
  BY <1>1, <1>6
<1>8. QED
  BY <1>2, <1>7

LEMMA PassingLines ==
  ASSUME NEW s \in Seq(LogLines), NEW on
  PROVE  KeptOf(s, on, Len(s), Passing(s, on))
<1>1. Len(s) \in Nat /\ Len(s) \in 0..Len(s)
  OBVIOUS
<1>2. Passing(s, on) = Kept(s, on)[Len(s)]
  BY <1>1, KeptStep
<1>3. KeptOf(s, on, Len(s), Kept(s, on)[Len(s)])
  BY <1>1, KeptAreLines
<1>4. QED
  BY <1>2, <1>3

\* "later" is "now" without its first k lines, and with lines at the end that
\* "known" has not.
Moved(now, later, known, k) ==
    /\ k \in 0..Len(now) /\ Len(now) - k <= Len(later)
    /\ \A i \in 1..(Len(now) - k) : later[i] = now[i + k]
    /\ \A j \in 1..Len(later) : j > Len(now) - k => \A i \in 1..Len(known) : later[j].seq # known[i].seq

\* What is kept of the lines that stayed moves with them.
KeptMoves(before, after, k2) ==
    /\ Len(before) = Len(after) + k2
    /\ \A i \in 1..Len(after) : after[i] = before[i + k2]

\* What is kept of more lines begins with what was kept.
KeptGrows(before, after, later, m) ==
    /\ Len(before) <= Len(after)
    /\ \A i \in 1..Len(before) : after[i] = before[i]
    /\ \A i \in 1..Len(after) : i > Len(before) => \E j \in 1..Len(later) : j > m /\ after[i] = later[j]

LEMMA PassingMoved ==
  ASSUME NEW now \in Seq(LogLines), NEW later \in Seq(LogLines), NEW on, NEW k, Moved(now, later, now, k)
  PROVE  \E k2 \in Nat : Moved(Passing(now, on), Passing(later, on), Passing(now, on), k2)
<1> DEFINE c == Kept(now, on)
           d == Kept(later, on)
<1>1. Len(now) \in Nat /\ Len(later) \in Nat
  OBVIOUS
<1>2. /\ k \in 0..Len(now) /\ Len(now) - k <= Len(later)
      /\ \A i \in 1..(Len(now) - k) : later[i] = now[i + k]
      /\ \A j \in 1..Len(later) : j > Len(now) - k => \A i \in 1..Len(now) : later[j].seq # now[i].seq
  BY DEF Moved
<1>3. PICK m \in Nat : m = Len(now) - k
  <2>1. k \in 0..Len(now)
    BY <1>2
  <2>2. Len(now) - k \in Nat
    BY <1>1, <2>1
  <2>3. QED
    BY <2>2
<1>4. /\ c[0] = <<>> /\ Passing(now, on) = c[Len(now)]
      /\ \A n \in 1..Len(now) : c[n] = IF now[n].hit \/ ~on THEN Append(c[n - 1], now[n]) ELSE c[n - 1]
  BY <1>1, KeptStep
<1>5. /\ d[0] = <<>> /\ Passing(later, on) = d[Len(later)]
      /\ \A n \in 1..Len(later) : d[n] = IF later[n].hit \/ ~on THEN Append(d[n - 1], later[n]) ELSE d[n - 1]
  BY <1>1, KeptStep
<1>6. \A n \in 0..Len(now) : KeptOf(now, on, n, c[n])
  BY KeptAreLines
<1>7. \A n \in 0..Len(later) : KeptOf(later, on, n, d[n])
  BY KeptAreLines
<1> HIDE DEF c, d
<1>8. \A n \in 0..Len(now) : c[n] \in Seq(LogLines) /\ Len(c[n]) \in Nat
  <2>1. \A n \in 0..Len(now) : c[n] \in Seq(LogLines)
    BY <1>6 DEF KeptOf
  <2>2. QED
    BY <2>1
<1>9. \A n \in 0..Len(later) : d[n] \in Seq(LogLines) /\ Len(d[n]) \in Nat
  <2>1. \A n \in 0..Len(later) : d[n] \in Seq(LogLines)
    BY <1>7 DEF KeptOf
  <2>2. QED
    BY <2>1
<1>10. k \in 0..Len(now) /\ m \in 0..Len(later) /\ m + k = Len(now) /\ k \in Nat
  BY <1>1, <1>2, <1>3
<1>11. PICK k2 \in Nat : k2 = Len(c[k])
  BY <1>8, <1>10
<1>12. \A n \in 0..m : KeptMoves(c[n + k], d[n], k2)
  <2> DEFINE T == {n \in 0..m : KeptMoves(c[n + k], d[n], k2)}
  <2>1. 0 \in T
    <3>1. d[0] = <<>> /\ Len(d[0]) = 0 /\ c[0 + k] = c[k] /\ 0 \in 0..m
      BY <1>5, <1>10
    <3>2. KeptMoves(c[0 + k], d[0], k2)
      BY <1>11, <3>1 DEF KeptMoves
    <3>3. QED
      BY <3>1, <3>2
  <2>2. ASSUME NEW n \in 0..m, n \in T, n < m PROVE n + 1 \in T
    <3>1. /\ n + 1 \in 1..m /\ n + 1 \in 1..Len(later) /\ (n + 1) - 1 = n /\ n + 1 \in 0..m
          /\ (n + 1) + k \in 1..Len(now) /\ ((n + 1) + k) - 1 = n + k
          /\ n \in 0..Len(later) /\ n + k \in 0..Len(now)
      BY <1>1, <1>10, <2>2
    <3>2. later[n + 1] = now[(n + 1) + k] /\ later[n + 1] \in LogLines
      BY <1>2, <1>3, <3>1
    <3>3. KeptMoves(c[n + k], d[n], k2)
      BY <2>2
    <3>4. c[n + k] \in Seq(LogLines) /\ d[n] \in Seq(LogLines) /\ Len(c[n + k]) \in Nat /\ Len(d[n]) \in Nat
      BY <1>8, <1>9, <3>1
    <3>5. CASE later[n + 1].hit \/ ~on
      <4>1. d[n + 1] = Append(d[n], later[n + 1])
        BY <1>5, <3>1, <3>5
      <4>2. c[(n + 1) + k] = Append(c[n + k], later[n + 1])
        BY <1>4, <3>1, <3>2, <3>5
      <4>3. /\ Len(d[n + 1]) = Len(d[n]) + 1 /\ d[n + 1][Len(d[n]) + 1] = later[n + 1]
            /\ \A i \in 1..Len(d[n]) : d[n + 1][i] = d[n][i]
        BY <3>2, <3>4, <4>1, AppendKept
      <4>4. /\ Len(c[(n + 1) + k]) = Len(c[n + k]) + 1
            /\ c[(n + 1) + k][Len(c[n + k]) + 1] = later[n + 1]
            /\ \A i \in 1..Len(c[n + k]) : c[(n + 1) + k][i] = c[n + k][i]
        BY <3>2, <3>4, <4>2, AppendKept
      <4>5. /\ Len(c[n + k]) = Len(d[n]) + k2
            /\ \A i \in 1..Len(d[n]) : d[n][i] = c[n + k][i + k2]
        BY <3>3 DEF KeptMoves
      <4>5a. /\ Len(c[n + k]) = Len(d[n]) + k2 /\ Len(d[n + 1]) = Len(d[n]) + 1
             /\ Len(c[(n + 1) + k]) = Len(c[n + k]) + 1
             /\ Len(c[n + k]) \in Nat /\ Len(d[n]) \in Nat
        BY <3>4, <4>3, <4>4, <4>5
      <4>6. ASSUME NEW i \in 1..Len(d[n + 1]) PROVE d[n + 1][i] = c[(n + 1) + k][i + k2]
        <5>1. CASE i = Len(d[n]) + 1
          <6>1. i + k2 = Len(c[n + k]) + 1
            BY <4>5a, <5>1
          <6>2. QED
            BY <4>3, <4>4, <5>1, <6>1
        <5>2. CASE i # Len(d[n]) + 1
          <6>1. PICK x \in Nat : x = Len(d[n]) /\ x + 1 = Len(d[n + 1]) /\ x + k2 = Len(c[n + k])
            BY <4>5a
          <6>2. i \in 1..(x + 1) /\ i # x + 1
            BY <5>2, <6>1
          <6>3. i \in 1..x /\ i + k2 \in 1..(x + k2)
            BY <6>2
          <6>4. i \in 1..Len(d[n]) /\ i + k2 \in 1..Len(c[n + k])
            BY <6>1, <6>3
          <6>5. QED
            BY <4>3, <4>4, <4>5, <6>4
        <5>3. QED
          BY <5>1, <5>2
      <4>7. Len(c[(n + 1) + k]) = Len(d[n + 1]) + k2
        BY <4>5a
      <4>8. KeptMoves(c[(n + 1) + k], d[n + 1], k2)
        BY <4>6, <4>7 DEF KeptMoves
      <4>9. QED
        BY <3>1, <4>8
    <3>6. CASE ~(later[n + 1].hit \/ ~on)
      <4>1. d[n + 1] = d[n]
        BY <1>5, <3>1, <3>6
      <4>2. c[(n + 1) + k] = c[n + k]
        BY <1>4, <3>1, <3>2, <3>6
      <4>3. QED
        BY <3>1, <3>3, <4>1, <4>2
    <3>7. QED
      BY <3>5, <3>6
  <2>3. \A n \in 0..m : n \in T
    <3> HIDE DEF T
    <3>1. QED
      BY <2>1, <2>2, HoldsUpTo
  <2>4. QED
    BY <2>3
<1>13. KeptGrows(d[m], d[Len(later)], later, m)
  <2> DEFINE T == {n \in 0..Len(later) : n >= m => KeptGrows(d[m], d[n], later, m)}
  <2>1. KeptGrows(d[m], d[m], later, m)
    <3>1. Len(d[m]) \in Nat
      BY <1>9, <1>10
    <3>2. QED
      BY <3>1 DEF KeptGrows
  <2>2. 0 \in T
    <3>1. 0 >= m => m = 0
      OBVIOUS
    <3>2. 0 \in 0..Len(later)
      BY <1>1
    <3>3. QED
      BY <2>1, <3>1, <3>2
  <2>3. ASSUME NEW n \in 0..Len(later), n \in T, n < Len(later) PROVE n + 1 \in T
    <3>1. /\ n + 1 \in 1..Len(later) /\ (n + 1) - 1 = n /\ n + 1 \in 0..Len(later) /\ n \in Nat
      BY <1>1, <2>3
    <3>2. later[n + 1] \in LogLines
      BY <3>1
    <3>3. CASE n + 1 < m
      BY <3>1, <3>3
    <3>4. CASE n + 1 = m
      BY <2>1, <3>1, <3>4
    <3>5. CASE n + 1 > m
      <4>1. KeptGrows(d[m], d[n], later, m)
        BY <2>3, <3>1, <3>5
      <4>2. d[n] \in Seq(LogLines) /\ Len(d[n]) \in Nat /\ Len(d[m]) \in Nat
        BY <1>9, <1>10
      <4>3. CASE later[n + 1].hit \/ ~on
        <5>1. d[n + 1] = Append(d[n], later[n + 1])
          BY <1>5, <3>1, <4>3
        <5>2. /\ Len(d[n + 1]) = Len(d[n]) + 1 /\ d[n + 1][Len(d[n]) + 1] = later[n + 1]
              /\ \A i \in 1..Len(d[n]) : d[n + 1][i] = d[n][i]
          BY <3>2, <4>2, <5>1, AppendKept
        <5>3. /\ Len(d[m]) <= Len(d[n])
              /\ \A i \in 1..Len(d[m]) : d[n][i] = d[m][i]
              /\ \A i \in 1..Len(d[n]) : i > Len(d[m]) => \E j \in 1..Len(later) : j > m /\ d[n][i] = later[j]
          BY <4>1 DEF KeptGrows
        <5>4. Len(d[m]) <= Len(d[n + 1])
          BY <4>2, <5>2, <5>3
        <5>5. ASSUME NEW i \in 1..Len(d[m]) PROVE d[n + 1][i] = d[m][i]
          <6>1. i \in 1..Len(d[n])
            BY <4>2, <5>3
          <6>2. QED
            BY <5>2, <5>3, <6>1
        <5>6. ASSUME NEW i \in 1..Len(d[n + 1]), i > Len(d[m])
              PROVE  \E j \in 1..Len(later) : j > m /\ d[n + 1][i] = later[j]
          <6>1. CASE i = Len(d[n]) + 1
            BY <3>1, <3>5, <5>2, <6>1
          <6>2. CASE i # Len(d[n]) + 1
            <7>1. i \in 1..Len(d[n])
              BY <4>2, <5>2, <6>2
            <7>2. QED
              BY <5>2, <5>3, <5>6, <7>1
          <6>3. QED
            BY <6>1, <6>2
        <5>7. KeptGrows(d[m], d[n + 1], later, m)
          BY <5>4, <5>5, <5>6 DEF KeptGrows
        <5>8. QED
          BY <3>1, <5>7
      <4>4. CASE ~(later[n + 1].hit \/ ~on)
        <5>1. d[n + 1] = d[n]
          BY <1>5, <3>1, <4>4
        <5>2. QED
          BY <3>1, <4>1, <5>1
      <4>5. QED
        BY <4>3, <4>4
    <3>6. QED
      BY <3>1, <3>3, <3>4, <3>5
  <2>4. Len(later) \in T
    <3>1. Len(later) \in 0..Len(later)
      BY <1>1
    <3> HIDE DEF T
    <3>2. QED
      BY <1>1, <2>2, <2>3, <3>1, HoldsUpTo
  <2>5. Len(later) >= m
    BY <1>10
  <2>6. QED
    BY <2>4, <2>5
<1>14. KeptMoves(c[Len(now)], d[m], k2)
  <2>1. m \in 0..m
    OBVIOUS
  <2>2. QED
    BY <1>10, <1>12, <2>1
<1> DEFINE p == c[Len(now)]
           q == d[Len(later)]
<1>15. Len(p) \in Nat /\ Len(d[m]) \in Nat /\ Len(q) \in Nat
  <2>1. Len(now) \in 0..Len(now) /\ Len(later) \in 0..Len(later)
    BY <1>1
  <2>2. QED
    BY <1>8, <1>9, <1>10, <2>1
<1>16. Len(p) - k2 = Len(d[m]) /\ k2 \in 0..Len(p)
  <2>1. Len(p) = Len(d[m]) + k2
    BY <1>14 DEF KeptMoves
  <2> HIDE DEF p
  <2>2. QED
    BY <1>15, <2>1
<1>17. /\ Len(d[m]) <= Len(q) /\ \A i \in 1..Len(d[m]) : q[i] = d[m][i]
       /\ \A i \in 1..Len(q) : i > Len(d[m]) => \E j \in 1..Len(later) : j > m /\ q[i] = later[j]
  BY <1>13 DEF KeptGrows
<1>18. \A i \in 1..Len(d[m]) : d[m][i] = p[i + k2]
  BY <1>14 DEF KeptMoves
<1>19. ASSUME NEW j \in 1..Len(q), j > Len(d[m]), NEW i \in 1..Len(p) PROVE q[j].seq # p[i].seq
  <2>1. PICK jj \in 1..Len(later) : jj > m /\ q[j] = later[jj]
    BY <1>17, <1>19
  <2>2. PICK ii \in 1..Len(now) : p[i] = now[ii]
    <3>1. KeptOf(now, on, Len(now), p)
      BY <1>1, <1>6
    <3> HIDE DEF p
    <3>2. QED
      BY <3>1 DEF KeptOf
  <2>3. later[jj].seq # now[ii].seq
    BY <1>2, <1>3, <2>1
  <2>4. QED
    BY <2>1, <2>2, <2>3
<1>20. Moved(p, q, p, k2)
  <2> HIDE DEF p, q
  <2>1. Len(p) - k2 <= Len(q)
    BY <1>16, <1>17
  <2>2. \A i \in 1..(Len(p) - k2) : q[i] = p[i + k2]
    BY <1>16, <1>17, <1>18
  <2>3. \A j \in 1..Len(q) : j > Len(p) - k2 => \A i \in 1..Len(p) : q[j].seq # p[i].seq
    BY <1>16, <1>19
  <2>4. QED
    BY <1>16, <2>1, <2>2, <2>3 DEF Moved
<1>21. QED
  BY <1>4, <1>5, <1>20

LEMMA MinIs ==
  ASSUME NEW T \in SUBSET Nat, T # {}
  PROVE  Min(T) \in T /\ \A m \in T : Min(T) <= m
<1>1. \E n \in T : \A m \in T : n <= m
  BY LeastOf
<1>2. QED
  BY <1>1 DEF Min

LEMMA MaxIs ==
  ASSUME NEW T \in SUBSET Nat, T # {}, NEW N \in Nat, \A n \in T : n <= N
  PROVE  Max(T) \in T /\ \A m \in T : m <= Max(T)
<1>1. \E n \in T : \A m \in T : m <= n
  <2>1. T \in SUBSET (0..N) /\ IsFiniteSet(0..N)
    BY FS_Interval
  <2>2. IsFiniteSet(T)
    BY <2>1, FS_Subset
  <2>3. QED
    BY <2>2, GreatestOf
<1>2. \E n \in T : \A m \in T : n >= m
  BY <1>1
<1>3. QED
  BY <1>2 DEF Max

-----------------------------------------------------------------------------
(* LogView: pages.                                                         *)

LEMMA RowsNone ==
  ASSUME NEW s \in Seq(LogLines), NEW from \in Nat, NEW to \in 0..Len(s), to <= from
  PROVE  Rows(s, from, to) = 0
<1>1. Len(s) \in Nat
  OBVIOUS
<1>2. QED
  BY <1>1, RowsStep

LEMMA PackDownIs ==
  ASSUME NEW s \in Seq(LogLines), NEW from \in 0..Len(s), NEW h \in Nat
  PROVE  /\ PackDown(s, from, h) \in from..Len(s)
         /\ Rows(s, from, PackDown(s, from, h)) <= h \/ PackDown(s, from, h) = from + 1
         /\ \A to \in from..Len(s) : Rows(s, from, to) <= h \/ to = from + 1 => to <= PackDown(s, from, h)
<1> DEFINE T == {to \in from..Len(s) : Rows(s, from, to) <= h \/ to = from + 1}
<1>1. Len(s) \in Nat /\ from \in Nat /\ from \in from..Len(s)
  OBVIOUS
<1>2. Rows(s, from, from) = 0
  BY <1>1, RowsNone
<1>3. from \in T
  BY <1>1, <1>2
<1>4. T \in SUBSET Nat /\ \A n \in T : n <= Len(s)
  BY <1>1
<1>5. PackDown(s, from, h) = Max(T)
  BY DEF PackDown
<1>6. PackDown(s, from, h) \in T /\ \A m \in T : m <= PackDown(s, from, h)
  <2> HIDE DEF T
  <2>1. T # {} /\ Len(s) \in Nat
    BY <1>1, <1>3
  <2>2. Max(T) \in T /\ \A m \in T : m <= Max(T)
    BY <1>4, <2>1, MaxIs
  <2>3. QED
    BY <1>5, <2>2
<1>7. QED
  BY <1>6

LEMMA PackUpIs ==
  ASSUME NEW s \in Seq(LogLines), NEW to \in 1..Len(s), NEW h \in Nat
  PROVE  /\ PackUp(s, to, h) \in 0..(to - 1)
         /\ Rows(s, PackUp(s, to, h), to) <= h \/ PackUp(s, to, h) = to - 1
         /\ \A from \in 0..to : Rows(s, from, to) <= h \/ from = to - 1 => PackUp(s, to, h) <= from
<1> DEFINE T == {from \in 0..to : Rows(s, from, to) <= h \/ from = to - 1}
<1>1. to \in Nat /\ to - 1 \in 0..to
  OBVIOUS
<1>2. to - 1 \in T
  BY <1>1
<1>3. T \in SUBSET Nat
  BY <1>1
<1>4. PackUp(s, to, h) = Min(T)
  BY DEF PackUp
<1>5. PackUp(s, to, h) \in T /\ \A m \in T : PackUp(s, to, h) <= m
  <2> HIDE DEF T
  <2>1. QED
    BY <1>2, <1>3, <1>4, MinIs
<1>6. PackUp(s, to, h) <= to - 1 /\ PackUp(s, to, h) \in 0..to
  BY <1>2, <1>5
<1>7. \A m \in 0..to : Rows(s, m, to) <= h \/ m = to - 1 => PackUp(s, to, h) <= m
  BY <1>5
<1>8. PackUp(s, to, h) \in 0..(to - 1)
  BY <1>1, <1>6
<1>9. Rows(s, PackUp(s, to, h), to) <= h \/ PackUp(s, to, h) = to - 1
  BY <1>5
<1>10. QED
  BY <1>7, <1>8, <1>9

LEMMA WindowAt ==
  ASSUME NEW s \in Seq(LogLines), NEW to \in 1..Len(s), NEW h \in Nat
  PROVE  Window(s, Len(s) - to, h) = <<PackUp(s, to, h), to>>
<1>1. Len(s) \in Nat /\ s # <<>> /\ ~(Len(s) - to >= Len(s)) /\ Len(s) - (Len(s) - to) = to /\ to # 0
  OBVIOUS
<1>2. QED
  BY <1>1 DEF Window

\* There is always a line in the window, and all of it are lines.
LEMMA WindowIs ==
  ASSUME NEW s \in Seq(LogLines), s # <<>>, NEW fromEnd \in Nat, NEW h \in Nat
  PROVE  /\ Window(s, fromEnd, h)[1] \in 0..(Len(s) - 1)
         /\ Window(s, fromEnd, h)[2] \in 1..Len(s)
         /\ Window(s, fromEnd, h)[1] < Window(s, fromEnd, h)[2]
<1>1. Len(s) \in Nat /\ Len(s) > 0
  OBVIOUS
<1>2. CASE fromEnd >= Len(s)
  <2>1. Window(s, fromEnd, h) = <<0, 1>>
    BY <1>2 DEF Window
  <2>2. QED
    BY <1>1, <2>1
<1>3. CASE fromEnd < Len(s)
  <2>1. PICK to \in 1..Len(s) : to = Len(s) - fromEnd
    BY <1>1, <1>3
  <2>2. fromEnd = Len(s) - to
    BY <1>1, <2>1
  <2>3. Window(s, fromEnd, h) = <<PackUp(s, to, h), to>>
    BY <2>2, WindowAt
  <2>4. PackUp(s, to, h) \in 0..(to - 1)
    BY PackUpIs
  <2>5. to - 1 <= Len(s) - 1 /\ to \in 1..Len(s)
    BY <1>1
  <2> HIDE DEF Window
  <2>6. QED
    BY <1>1, <2>3, <2>4, <2>5
<1>4. QED
  BY <1>1, <1>2, <1>3

LogViews == [mode : {"list", "log", "filter", "help"}, lines : Seq(LogLines), filter : BOOLEAN,
             height : Nat \ {0}, fromEnd : Nat, anchor : Nat, known : Nat, copying : BOOLEAN]

\* The pinned line is on the page, and so is it on the one that begins at the
\* anchor.
OnPage(s, v, pinned, p, a) ==
    /\ a \in 1..Len(s) /\ p \in a..Len(s)
    /\ s[a].seq = v.anchor /\ s[p].seq = pinned
    /\ Rows(s, a - 1, p) <= v.height \/ p = a
    /\ Window(s, v.fromEnd, v.height)[1] < p /\ p <= Window(s, v.fromEnd, v.height)[2]

\* A line is in the window that ends at "to" when a page that begins at or
\* above it does.
LEMMA InWindow ==
  ASSUME NEW s \in Seq(LogLines), NEW to \in 1..Len(s), NEW h \in Nat, NEW p \in 1..to,
         NEW b \in 0..(p - 1), Rows(s, b, to) <= h \/ b = to - 1
  PROVE  Window(s, Len(s) - to, h)[1] < p /\ p <= Window(s, Len(s) - to, h)[2]
<1>1. Window(s, Len(s) - to, h) = <<PackUp(s, to, h), to>>
  BY WindowAt
<1>2. b \in 0..to
  OBVIOUS
<1>3. PackUp(s, to, h) <= b /\ PackUp(s, to, h) \in 0..(to - 1)
  BY <1>2, PackUpIs
<1>4. PackUp(s, to, h) < p /\ p <= to
  BY <1>3
<1>5. Window(s, Len(s) - to, h)[1] = PackUp(s, to, h) /\ Window(s, Len(s) - to, h)[2] = to
  BY <1>1
<1>6. QED
  BY <1>4, <1>5

\* The page that begins at the anchor has the pinned line when the page that
\* began there had it.
LEMMA PageAtShows ==
  ASSUME NEW t \in Seq(LogLines), NEW v \in LogViews, NEW pinned,
         NEW i \in 1..Len(t), NEW p \in i..Len(t), t[p].seq = pinned,
         Rows(t, i - 1, p) <= v.height \/ p = i
  PROVE  \E a \in Nat : OnPage(t, PageAt(v, t, i), pinned, p, a)
<1> DEFINE h == v.height
           to == PackDown(t, i - 1, h)
           T == {a \in 0..(i - 1) : Rows(t, a, to) <= h \/ a = i - 1}
           from == Min(T)
           w == PageAt(v, t, i)
<1>1. Len(t) \in Nat /\ h \in Nat /\ i \in Nat /\ i - 1 \in 0..Len(t) /\ i - 1 \in Nat /\ (i - 1) + 1 = i
  BY DEF LogViews
<1>1a. Rows(t, i - 1, p) <= h \/ p = i
  OBVIOUS
<1>2. /\ to \in (i - 1)..Len(t)
      /\ Rows(t, i - 1, to) <= h \/ to = (i - 1) + 1
      /\ \A n \in (i - 1)..Len(t) : Rows(t, i - 1, n) <= h \/ n = (i - 1) + 1 => n <= to
  <2> HIDE DEF h
  <2>1. QED
    BY <1>1, PackDownIs
<1>3. w.fromEnd = Len(t) - to /\ w.anchor = t[from + 1].seq /\ w.height = h
  BY DEF PageAt, LogViews
<1> HIDE DEF w, to
<1>4. from \in T
  <2>1. i - 1 \in T
    BY <1>1
  <2>2. T \in SUBSET Nat
    BY <1>1
  <2> HIDE DEF T
  <2>3. QED
    BY <2>1, <2>2, MinIs
<1> HIDE DEF from
<1>5. from \in 0..(i - 1) /\ (Rows(t, from, to) <= h \/ from = i - 1)
  BY <1>4
<1> HIDE DEF h
<1>6. p \in (i - 1)..Len(t) /\ p \in Nat /\ i <= p
  BY <1>1
<1>7. p <= to
  BY <1>1, <1>1a, <1>2, <1>6
<1>8. to \in 1..Len(t) /\ to \in Nat /\ p \in 1..to /\ p <= Len(t) /\ p >= 1
  BY <1>1, <1>2, <1>6, <1>7
<1>9. from \in Nat /\ from \in 0..(p - 1) /\ from + 1 \in 1..Len(t) /\ p \in (from + 1)..Len(t)
  BY <1>1, <1>5, <1>6
<1>10. Rows(t, from, to) <= h \/ from = to - 1
  <2>1. CASE Rows(t, from, to) <= h
    BY <2>1
  <2>2. CASE from = i - 1
    BY <1>1, <1>2, <2>2
  <2>3. QED
    BY <1>5, <2>1, <2>2
<1>11. Window(t, w.fromEnd, h)[1] < p /\ p <= Window(t, w.fromEnd, h)[2]
  BY <1>1, <1>3, <1>8, <1>9, <1>10, InWindow
<1>12. Rows(t, from, p) <= h \/ p = from + 1
  <2>1. CASE Rows(t, from, to) <= h
    <3>1. /\ Rows(t, from, p) <= Rows(t, from, to)
          /\ Rows(t, from, p) \in Nat /\ Rows(t, from, to) \in Nat
      <4>1. p \in 0..Len(t) /\ to \in p..Len(t) /\ to \in 0..Len(t)
        BY <1>1, <1>8
      <4>2. Rows(t, from, p) <= Rows(t, from, to)
        BY <1>9, <4>1, RowsOfPart
      <4>3. Rows(t, from, p) \in Nat /\ Rows(t, from, to) \in Nat
        BY <1>9, <4>1, RowsNatural
      <4>4. QED
        BY <4>2, <4>3
    <3>2. QED
      BY <1>1, <2>1, <3>1
  <2>2. CASE from = i - 1
    BY <1>1, <1>1a, <2>2
  <2>3. QED
    BY <1>5, <2>1, <2>2
<1>13. OnPage(t, w, pinned, p, from + 1)
  <2>1. (from + 1) - 1 = from
    BY <1>9
  <2>2. QED
    BY <1>3, <1>9, <1>11, <1>12, <2>1 DEF OnPage
<1>14. from + 1 \in Nat
  BY <1>9
<1>15. QED
  BY <1>13, <1>14 DEF w

\* The page of the oldest lines has every line down to which they fit.
LEMMA OldestPageShows ==
  ASSUME NEW t \in Seq(LogLines), NEW v \in LogViews, NEW pinned,
         NEW p \in 1..Len(t), t[p].seq = pinned, Rows(t, 0, p) <= v.height,
         Placed(v, t, OldestPage(t, v.height)).fromEnd # 0
  PROVE  OnPage(t, Placed(v, t, OldestPage(t, v.height)), pinned, p, 1)
<1> DEFINE h == v.height
           to == PackDown(t, 0, h)
           w == Placed(v, t, OldestPage(t, v.height))
<1>1. Len(t) \in Nat /\ h \in Nat /\ 0 \in 0..Len(t) /\ 0 \in Nat /\ p \in 0..Len(t) /\ t # <<>>
  BY DEF LogViews
<1>2. /\ to \in 0..Len(t)
      /\ Rows(t, 0, to) <= h \/ to = 0 + 1
      /\ \A n \in 0..Len(t) : Rows(t, 0, n) <= h \/ n = 0 + 1 => n <= to
  <2> HIDE DEF h
  <2>1. QED
    BY <1>1, PackDownIs
<1>3. /\ w.fromEnd = Len(t) - to /\ w.height = h
      /\ w.anchor = IF w.fromEnd = 0 THEN 0 ELSE TopSeq(t, Len(t) - to, h)
  BY DEF Placed, LogViews, OldestPage
<1>4. w.fromEnd # 0
  OBVIOUS
<1> HIDE DEF w, to
<1>5. p <= to
  BY <1>1, <1>2
<1>6. to \in 1..Len(t) /\ p \in 1..to /\ 1 \in 1..to /\ 1 \in 1..Len(t) /\ p \in Nat
  BY <1>1, <1>2, <1>5
<1>7. Rows(t, 0, to) <= h \/ 0 = to - 1
  BY <1>2, <1>6
<1> HIDE DEF h
<1>8. Window(t, w.fromEnd, h)[1] < p /\ p <= Window(t, w.fromEnd, h)[2]
  <2>1. 0 \in 0..(p - 1)
    BY <1>6
  <2>2. QED
    BY <1>1, <1>3, <1>6, <1>7, <2>1, InWindow
<1>9. Window(t, w.fromEnd, h)[1] = 0
  <2>1. Window(t, w.fromEnd, h) = <<PackUp(t, to, h), to>>
    BY <1>1, <1>3, <1>6, WindowAt
  <2>2. PackUp(t, to, h) \in 0..(to - 1) /\ (0 \in 0..to => PackUp(t, to, h) <= 0)
    BY <1>1, <1>6, <1>7, PackUpIs
  <2>3. 0 \in 0..to
    BY <1>6
  <2>4. PackUp(t, to, h) = 0
    BY <2>2, <2>3
  <2>5. QED
    BY <2>1, <2>4
<1>10. w.anchor = t[1].seq
  <2>1. TopSeq(t, Len(t) - to, h) = t[Window(t, Len(t) - to, h)[1] + 1].seq
    BY <1>1 DEF TopSeq
  <2>2. Window(t, Len(t) - to, h)[1] + 1 = 1
    BY <1>3, <1>9
  <2>3. QED
    BY <1>3, <1>4, <2>1, <2>2
<1>11. OnPage(t, w, pinned, p, 1)
  BY <1>3, <1>6, <1>8, <1>10 DEF OnPage, h
<1>12. QED
  BY <1>11 DEF w

\* A poll keeps the pinned line on the page when it is still among the lines.
LEMMA ReanchorsShows ==
  ASSUME NEW s \in Seq(LogLines), NEW t \in Seq(LogLines), NEW v \in LogViews, NEW pinned,
         Distinct(s), Distinct(t), NEW k, Moved(s, t, s, k),
         NEW p, NEW a, OnPage(s, v, pinned, p, a),
         NEW j \in 1..Len(t), t[j].seq = pinned,
         Reanchors(v, t).fromEnd # 0
  PROVE  \E p2, a2 \in Nat : OnPage(t, Reanchors(v, t), pinned, p2, a2)
<1>1. Len(s) \in Nat /\ Len(t) \in Nat /\ t # <<>> /\ v.height \in Nat
  BY DEF LogViews
<1>2. /\ k \in 0..Len(s) /\ Len(s) - k <= Len(t)
      /\ \A i \in 1..(Len(s) - k) : t[i] = s[i + k]
      /\ \A n \in 1..Len(t) : n > Len(s) - k => \A i \in 1..Len(s) : t[n].seq # s[i].seq
  BY DEF Moved
<1>3. /\ a \in 1..Len(s) /\ p \in a..Len(s) /\ s[a].seq = v.anchor /\ s[p].seq = pinned
      /\ Rows(s, a - 1, p) <= v.height \/ p = a
  BY DEF OnPage
<1>4. /\ p \in 1..Len(s) /\ k \in Nat /\ p \in Nat /\ a \in Nat /\ a <= p /\ a - 1 \in Nat
  BY <1>1, <1>2, <1>3
<1>5. j <= Len(s) - k
  BY <1>1, <1>2, <1>3, <1>4
<1>6. j \in 1..(Len(s) - k) /\ j + k \in 1..Len(s) /\ j \in Nat
  BY <1>1, <1>4, <1>5, <1>2
<1>7. t[j] = s[j + k]
  BY <1>2, <1>6
<1>8. p = j + k
  BY <1>3, <1>4, <1>6, <1>7 DEF Distinct
<1>9. PICK m \in 0..Len(t) : m = Len(s) - k
  <2>1. k \in 0..Len(s) /\ Len(s) - k <= Len(t)
    BY <1>2
  <2>2. Len(s) - k \in 0..Len(t)
    BY <1>1, <2>1
  <2>3. QED
    BY <2>2
<1>10. m + k <= Len(s) /\ \A i \in 1..m : t[i] = s[i + k]
  BY <1>1, <1>2, <1>4, <1>9
<1>11. j \in 0..m /\ j \in 1..m
  BY <1>6, <1>9
<1>12. \A f \in Nat : Rows(t, f, j) = Rows(s, f + k, p)
  <2>1. ASSUME NEW f \in Nat PROVE Rows(t, f, j) = Rows(s, f + k, j + k)
    <3>1. \A n \in 0..m : Rows(t, f, n) = Rows(s, f + k, n + k)
      BY <1>4, <1>10, RowsMove
    <3>2. QED
      BY <1>11, <3>1
  <2>2. QED
    BY <1>8, <2>1
<1>13. v.fromEnd # 0 /\ v.anchor # 0
  <2>1. CASE v.fromEnd = 0 \/ v.anchor = 0
    <3>1. Reanchors(v, t) = FollowTail(v)
      BY <2>1 DEF Reanchors
    <3>2. FollowTail(v).fromEnd = 0
      BY DEF FollowTail, LogViews
    <3>3. QED
      BY <3>1, <3>2
  <2>2. QED
    BY <2>1
<1>14. CASE a > k
  <2>1. PICK i \in 1..j : i + k = a
    <3>1. a - k \in 1..j /\ (a - k) + k = a
      BY <1>4, <1>6, <1>8, <1>14
    <3>2. QED
      BY <3>1
  <2>2. i \in 1..m /\ i \in 1..Len(t) /\ i \in Nat /\ i - 1 \in Nat /\ (i - 1) + k = a - 1 /\ j \in i..Len(t)
    BY <1>1, <1>4, <1>11, <2>1
  <2>3. t[i].seq = v.anchor
    BY <1>3, <1>10, <2>1, <2>2
  <2>4. Anchored(t, v) = {i}
    <3>1. ASSUME NEW n \in DOMAIN t, t[n].seq = v.anchor PROVE n = i
      <4>1. n \in 1..Len(t)
        OBVIOUS
      <4>2. QED
        BY <2>2, <2>3, <3>1, <4>1 DEF Distinct
    <3>2. i \in DOMAIN t
      BY <2>2
    <3>3. QED
      BY <2>3, <3>1, <3>2 DEF Anchored
  <2>5. Min(Anchored(t, v)) = i
    <3>1. {i} \in SUBSET Nat /\ {i} # {}
      BY <2>2
    <3>2. Min({i}) \in {i}
      BY <3>1, MinIs
    <3>3. QED
      BY <2>4, <3>2
  <2>6. Reanchors(v, t) = PageAt(v, t, i)
    <3>1. Anchored(t, v) # {}
      BY <2>4
    <3>2. QED
      BY <1>1, <1>13, <2>5, <3>1 DEF Reanchors
  <2>7. Rows(t, i - 1, j) <= v.height \/ j = i
    <3>1. CASE p = a
      BY <1>4, <1>6, <1>8, <2>1, <2>2, <3>1
    <3>2. CASE Rows(s, a - 1, p) <= v.height
      BY <1>12, <2>2, <3>2
    <3>3. QED
      BY <1>3, <3>1, <3>2
  <2>8. \E a2 \in Nat : OnPage(t, PageAt(v, t, i), pinned, j, a2)
    BY <2>2, <2>7, PageAtShows
  <2>9. QED
    BY <1>6, <2>6, <2>8
<1>15. CASE a <= k
  <2>1. ASSUME NEW n \in DOMAIN t, t[n].seq = v.anchor PROVE FALSE
    <3>1. n \in 1..Len(t) /\ n \in Nat
      OBVIOUS
    <3>2. n <= Len(s) - k
      <4>1. n > Len(s) - k => t[n].seq # s[a].seq
        BY <1>2, <1>3, <3>1
      <4>2. Len(s) - k \in Int
        BY <1>1, <1>4
      <4>3. QED
        BY <1>3, <2>1, <3>1, <4>1, <4>2
    <3>3. n \in 1..(Len(s) - k) /\ n + k \in 1..Len(s) /\ n + k # a
      BY <1>1, <1>4, <1>15, <3>1, <3>2
    <3>4. t[n] = s[n + k]
      BY <1>2, <3>3
    <3>5. QED
      BY <1>3, <2>1, <3>3, <3>4 DEF Distinct
  <2>2. Anchored(t, v) = {}
    BY <2>1 DEF Anchored
  <2>3. Reanchors(v, t) = Placed(v, t, OldestPage(t, v.height))
    BY <1>1, <1>13, <2>2 DEF Reanchors
  <2>4. Rows(t, 0, j) <= v.height
    <3>1. p # a
      BY <1>4, <1>6, <1>8, <1>15
    <3>2. Rows(s, a - 1, p) <= v.height
      BY <1>3, <3>1
    <3>3. Rows(s, k, p) <= Rows(s, a - 1, p)
      <4>1. a - 1 <= k /\ p \in 0..Len(s) /\ p \in p..Len(s)
        BY <1>1, <1>4, <1>15
      <4>2. QED
        BY <1>4, <4>1, RowsOfPart
    <3>4. Rows(s, k, p) \in Nat /\ Rows(s, a - 1, p) \in Nat
      <4>1. p \in 0..Len(s)
        BY <1>1, <1>4
      <4>2. Rows(s, k, p) \in Nat
        BY <1>4, <4>1, RowsNatural
      <4>3. Rows(s, a - 1, p) \in Nat
        BY <1>4, <4>1, RowsNatural
      <4>4. QED
        BY <4>2, <4>3
    <3>5. Rows(t, 0, j) = Rows(s, k, p)
      <4>1. 0 \in Nat /\ 0 + k = k
        BY <1>4
      <4>2. QED
        BY <1>12, <4>1
    <3>6. QED
      BY <1>1, <3>2, <3>3, <3>4, <3>5
  <2>5. OnPage(t, Placed(v, t, OldestPage(t, v.height)), pinned, j, 1)
    BY <2>3, <2>4, OldestPageShows
  <2>6. QED
    BY <1>6, <2>3, <2>5
<1>16. QED
  BY <1>2, <1>4, <1>14, <1>15

\* The first line of a page is on it.
LEMMA PlacedShows ==
  ASSUME NEW s \in Seq(LogLines), s # <<>>, NEW v \in LogViews, NEW to \in Nat, to # 0
  PROVE  \E p \in 1..Len(s) : OnPage(s, Placed(v, s, to), Placed(v, s, to).anchor, p, p)
<1> DEFINE w == Placed(v, s, to)
<1>1. Len(s) \in Nat /\ v.height \in Nat
  BY DEF LogViews
<1>2. w.fromEnd = to /\ w.height = v.height /\ w.anchor = TopSeq(s, to, v.height)
  BY DEF Placed, LogViews
<1>3. PICK b \in 0..(Len(s) - 1) : b = Window(s, to, v.height)[1]
  BY <1>1, WindowIs
<1>4. Window(s, to, v.height)[2] \in 1..Len(s) /\ b < Window(s, to, v.height)[2]
  BY <1>1, <1>3, WindowIs
<1>5. w.anchor = s[b + 1].seq
  BY <1>2, <1>3 DEF TopSeq
<1> HIDE DEF w
<1>6. b + 1 \in 1..Len(s) /\ b + 1 \in (b + 1)..Len(s) /\ b < b + 1 /\ b \in Nat
  BY <1>1
<1>7. Window(s, to, v.height)[1] < b + 1 /\ b + 1 <= Window(s, to, v.height)[2]
  BY <1>3, <1>4, <1>6
<1>8. OnPage(s, w, w.anchor, b + 1, b + 1)
  BY <1>2, <1>5, <1>6, <1>7 DEF OnPage
<1>9. QED
  BY <1>6, <1>8 DEF w

\* A taller panel shows what the lower one did.
LEMMA TallerShows ==
  ASSUME NEW s \in Seq(LogLines), NEW v \in LogViews, NEW h \in Nat, v.height <= h, NEW pinned,
         NEW p, NEW a, OnPage(s, v, pinned, p, a)
  PROVE  OnPage(s, [v EXCEPT !.height = h], pinned, p, a)
<1> DEFINE w == [v EXCEPT !.height = h]
<1>1. Len(s) \in Nat /\ v.height \in Nat /\ v.fromEnd \in Nat
  BY DEF LogViews
<1>2. w.height = h /\ w.fromEnd = v.fromEnd /\ w.anchor = v.anchor
  BY DEF LogViews
<1>3. /\ a \in 1..Len(s) /\ p \in a..Len(s) /\ s[a].seq = v.anchor /\ s[p].seq = pinned
      /\ Rows(s, a - 1, p) <= v.height \/ p = a
      /\ Window(s, v.fromEnd, v.height)[1] < p /\ p <= Window(s, v.fromEnd, v.height)[2]
  BY DEF OnPage
<1>4. Rows(s, a - 1, p) <= h \/ p = a
  <2>1. a - 1 \in Nat /\ p \in 0..Len(s)
    BY <1>1, <1>3
  <2>2. Rows(s, a - 1, p) \in Nat
    BY <2>1, RowsNatural
  <2>3. QED
    BY <1>1, <1>3, <2>2
<1>5. Window(s, v.fromEnd, h)[1] < p /\ p <= Window(s, v.fromEnd, h)[2]
  <2>1. CASE v.fromEnd >= Len(s)
    <3>1. Window(s, v.fromEnd, h) = Window(s, v.fromEnd, v.height)
      BY <2>1 DEF Window
    <3>2. QED
      BY <1>3, <3>1
  <2>2. CASE v.fromEnd < Len(s)
    <3>1. PICK to \in 1..Len(s) : v.fromEnd = Len(s) - to
      <4>1. Len(s) - v.fromEnd \in 1..Len(s) /\ v.fromEnd = Len(s) - (Len(s) - v.fromEnd)
        BY <1>1, <2>2
      <4>2. QED
        BY <4>1
    <3>2. Window(s, v.fromEnd, v.height) = <<PackUp(s, to, v.height), to>>
      BY <1>1, <3>1, WindowAt
    <3>3. Window(s, v.fromEnd, h) = <<PackUp(s, to, h), to>>
      BY <3>1, WindowAt
    <3>4. PICK b \in 0..to : b = PackUp(s, to, v.height) /\ (Rows(s, b, to) <= v.height \/ b = to - 1)
      <4>1. /\ PackUp(s, to, v.height) \in 0..(to - 1)
            /\ Rows(s, PackUp(s, to, v.height), to) <= v.height \/ PackUp(s, to, v.height) = to - 1
        BY <1>1, PackUpIs
      <4>2. PackUp(s, to, v.height) \in 0..to
        BY <4>1
      <4>3. QED
        BY <4>1, <4>2
    <3>5. Rows(s, b, to) <= h \/ b = to - 1
      <4>1. b \in Nat /\ to \in 0..Len(s)
        BY <1>1
      <4>2. Rows(s, b, to) \in Nat
        BY <4>1, RowsNatural
      <4>3. QED
        BY <1>1, <3>4, <4>2
    <3>6. PackUp(s, to, h) <= b /\ PackUp(s, to, h) \in 0..(to - 1)
      BY <3>5, PackUpIs
    <3>7. b < p /\ p <= to
      BY <1>3, <3>2, <3>4
    <3>8. PackUp(s, to, h) < p
      BY <1>1, <1>3, <3>6, <3>7
    <3>9. QED
      BY <3>3, <3>7, <3>8
  <2>3. QED
    BY <1>1, <2>1, <2>2
<1>6. QED
  BY <1>2, <1>3, <1>4, <1>5 DEF OnPage

\* A line that is new is appended, and the oldest one may go.
LEMMA AppendLine ==
  ASSUME NEW r \in Seq(LogLines), NEW line \in LogLines,
         \A i \in 1..Len(r) : r[i].seq # line.seq, Distinct(r),
         NEW now \in Seq(LogLines), \A i \in 1..Len(now) : now[i].seq # line.seq,
         NEW k \in Nat, Moved(now, r, now, k)
  PROVE  /\ Append(r, line) \in Seq(LogLines) /\ Distinct(Append(r, line))
         /\ \A j \in 1..Len(Append(r, line)) :
                Append(r, line)[j] = line \/ \E i \in 1..Len(r) : Append(r, line)[j] = r[i]
         /\ Moved(now, Append(r, line), now, k)
<1> DEFINE q == Append(r, line)
<1>1. /\ q \in Seq(LogLines) /\ Len(q) = Len(r) + 1 /\ q[Len(r) + 1] = line
      /\ \A i \in 1..Len(r) : q[i] = r[i]
  BY AppendKept
<1>2. Len(r) \in Nat /\ Len(now) \in Nat
  OBVIOUS
<1> HIDE DEF q
<1>3. \A j \in 1..Len(q) : j = Len(r) + 1 \/ j \in 1..Len(r)
  BY <1>1, <1>2
<1>4. \A j \in 1..Len(q) : q[j] = line \/ \E i \in 1..Len(r) : q[j] = r[i]
  BY <1>1, <1>3
<1>5. Distinct(q)
  <2>1. ASSUME NEW i \in 1..Len(q), NEW j \in 1..Len(q), q[i].seq = q[j].seq PROVE i = j
    <3>1. CASE i = Len(r) + 1 /\ j \in 1..Len(r)
      BY <1>1, <2>1, <3>1
    <3>2. CASE j = Len(r) + 1 /\ i \in 1..Len(r)
      BY <1>1, <2>1, <3>2
    <3>3. CASE i \in 1..Len(r) /\ j \in 1..Len(r)
      BY <1>1, <2>1, <3>3 DEF Distinct
    <3>4. QED
      BY <1>3, <3>1, <3>2, <3>3
  <2>2. QED
    BY <2>1 DEF Distinct
<1>6. /\ k \in 0..Len(now) /\ Len(now) - k <= Len(r)
      /\ \A i \in 1..(Len(now) - k) : r[i] = now[i + k]
      /\ \A j \in 1..Len(r) : j > Len(now) - k => \A i \in 1..Len(now) : r[j].seq # now[i].seq
  BY DEF Moved
<1>7. Len(now) - k <= Len(q)
  BY <1>1, <1>2, <1>6
<1>8. ASSUME NEW i \in 1..(Len(now) - k) PROVE q[i] = now[i + k]
  <2>1. i \in 1..Len(r)
    BY <1>2, <1>6
  <2>2. QED
    BY <1>1, <1>6, <2>1
<1>9. ASSUME NEW j \in 1..Len(q), j > Len(now) - k, NEW i \in 1..Len(now) PROVE q[j].seq # now[i].seq
  <2>1. CASE j = Len(r) + 1
    BY <1>1, <2>1
  <2>2. CASE j \in 1..Len(r)
    BY <1>1, <1>6, <1>9, <2>2
  <2>3. QED
    BY <1>3, <2>1, <2>2
<1>10. Moved(now, q, now, k)
  BY <1>6, <1>7, <1>8, <1>9 DEF Moved
<1>11. QED
  BY <1>1, <1>4, <1>5, <1>10 DEF q

LEMMA DropLine ==
  ASSUME NEW r \in Seq(LogLines), Len(r) > 0, Distinct(r),
         NEW now \in Seq(LogLines), NEW k \in Nat, Moved(now, r, now, k)
  PROVE  /\ Tail(r) \in Seq(LogLines) /\ Distinct(Tail(r))
         /\ \A j \in 1..Len(Tail(r)) : \E i \in 1..Len(r) : Tail(r)[j] = r[i]
         /\ \E k2 \in Nat : Moved(now, Tail(r), now, k2)
<1> DEFINE q == Tail(r)
<1>1. Len(r) \in Nat /\ Len(now) \in Nat /\ r # <<>>
  OBVIOUS
<1>2. /\ q \in Seq(LogLines) /\ Len(q) = Len(r) - 1
      /\ \A i \in 1..Len(q) : q[i] = r[i + 1]
  BY <1>1, HeadTailProperties
<1> HIDE DEF q
<1>3. \A i \in 1..Len(q) : i + 1 \in 1..Len(r)
  BY <1>1, <1>2
<1>4. \A j \in 1..Len(q) : \E i \in 1..Len(r) : q[j] = r[i]
  BY <1>2, <1>3
<1>5. Distinct(q)
  <2>1. ASSUME NEW i \in 1..Len(q), NEW j \in 1..Len(q), q[i].seq = q[j].seq PROVE i = j
    <3>1. i + 1 = j + 1
      BY <1>2, <1>3, <2>1 DEF Distinct
    <3>2. QED
      BY <1>1, <1>2, <3>1
  <2>2. QED
    BY <2>1 DEF Distinct
<1>6. /\ k \in 0..Len(now) /\ Len(now) - k <= Len(r)
      /\ \A i \in 1..(Len(now) - k) : r[i] = now[i + k]
      /\ \A j \in 1..Len(r) : j > Len(now) - k => \A i \in 1..Len(now) : r[j].seq # now[i].seq
  BY DEF Moved
<1>7. PICK k2 \in 0..Len(now) : k2 = IF k = Len(now) THEN k ELSE k + 1
  <2>1. k \in 0..Len(now)
    BY <1>6
  <2>2. (IF k = Len(now) THEN k ELSE k + 1) \in 0..Len(now)
    BY <1>1, <2>1
  <2>3. QED
    BY <2>2
<1>8. k \in 0..Len(now) /\ Len(now) - k <= Len(r)
  BY <1>6
<1>9. k2 \in Nat /\ Len(now) - k2 <= Len(q)
  BY <1>1, <1>2, <1>7, <1>8
<1>10. ASSUME NEW i \in 1..(Len(now) - k2) PROVE q[i] = now[i + k2]
  <2>1. /\ k2 = k + 1 /\ i \in 1..Len(q) /\ i + 1 \in 1..(Len(now) - k) /\ (i + 1) + k = i + k2
    BY <1>1, <1>2, <1>7, <1>8, <1>9
  <2>2. r[i + 1] = now[(i + 1) + k]
    BY <1>6, <2>1
  <2>3. QED
    BY <1>2, <2>1, <2>2
<1>11. ASSUME NEW j \in 1..Len(q), j > Len(now) - k2, NEW i \in 1..Len(now) PROVE q[j].seq # now[i].seq
  <2>1. j + 1 \in 1..Len(r) /\ j + 1 > Len(now) - k
    BY <1>1, <1>2, <1>7, <1>8, <1>11
  <2>2. r[j + 1].seq # now[i].seq
    BY <1>6, <2>1
  <2>3. QED
    BY <1>2, <2>2
<1>12. Moved(now, q, now, k2)
  BY <1>9, <1>10, <1>11 DEF Moved
<1>13. QED
  BY <1>2, <1>4, <1>5, <1>9, <1>12 DEF q

\* Nothing has moved when the lines have just been copied.
LEMMA MovedNot ==
  ASSUME NEW r \in Seq(LogLines)
  PROVE  Moved(r, r, r, 0)
<1>1. Len(r) \in Nat
  OBVIOUS
<1>2. 0 \in 0..Len(r) /\ Len(r) - 0 = Len(r)
  BY <1>1
<1>3. \A i \in 1..Len(r) : i + 0 = i
  BY <1>1
<1>4. \A j \in 1..Len(r) : ~(j > Len(r))
  BY <1>1
<1>5. QED
  BY <1>1, <1>2, <1>3, <1>4 DEF Moved

\* A line that passes and stayed is still there, with what it was.
LEMMA PassingStays ==
  ASSUME NEW now \in Seq(LogLines), NEW later \in Seq(LogLines), NEW on, NEW k, Moved(now, later, now, k),
         NEW j \in 1..Len(Passing(later, on)), NEW i \in 1..Len(now),
         now[i].seq = Passing(later, on)[j].seq
  PROVE  \E n \in 1..Len(Passing(now, on)) : Passing(now, on)[n] = Passing(later, on)[j]
<1>1. PICK jj \in 1..Len(later) : Passing(later, on)[j] = later[jj] /\ (later[jj].hit \/ ~on)
  <2>1. KeptOf(later, on, Len(later), Passing(later, on))
    BY PassingLines
  <2>2. QED
    BY <2>1 DEF KeptOf
<1>2. /\ k \in 0..Len(now)
      /\ \A n \in 1..(Len(now) - k) : later[n] = now[n + k]
      /\ \A n \in 1..Len(later) : n > Len(now) - k => later[n].seq # now[i].seq
  BY DEF Moved
<1>3. jj \in 1..(Len(now) - k) /\ jj + k \in 1..Len(now)
  <2>1. ~(jj > Len(now) - k)
    BY <1>1, <1>2
  <2>2. Len(now) \in Nat /\ Len(later) \in Nat /\ k \in 0..Len(now)
    BY <1>2
  <2>3. QED
    BY <2>1, <2>2
<1>4. later[jj] = now[jj + k]
  BY <1>2, <1>3
<1>5. \A n \in 1..Len(now) : now[n].hit \/ ~on =>
          \E m \in 1..Len(Passing(now, on)) : Passing(now, on)[m] = now[n]
  <2>1. KeptOf(now, on, Len(now), Passing(now, on))
    BY PassingLines
  <2>2. QED
    BY <2>1 DEF KeptOf
<1>6. now[jj + k].hit \/ ~on
  BY <1>1, <1>4
<1>7. QED
  BY <1>1, <1>3, <1>4, <1>5, <1>6

-----------------------------------------------------------------------------
(* LogView: the invariant.                                                 *)

LogThreads == Threads \cup {Screen}

LogShape ==
    /\ text \in Seq([rows : Nat \ {0}, hit : BOOLEAN])
    /\ ring \in Seq(LogLines) /\ seq \in 0..Len(text)
    /\ writing \in [LogThreads -> LogLines \cup {NoLine}]
    /\ view \in LogViews /\ pin \in Nat

\* A number of the past, that no thread holds.
OldNumber(n) == n <= seq /\ \A t \in LogThreads : writing[t].seq # n

\* Lines that have been appended, each once.
PastLines(s) == Distinct(s) /\ \A i \in 1..Len(s) : OldNumber(s[i].seq)

Numbered ==
    /\ \A t \in LogThreads : writing[t].seq <= seq
    /\ \A t, u \in LogThreads : writing[t].seq = writing[u].seq /\ writing[t].seq # 0 => t = u
    /\ PastLines(ring) /\ PastLines(view.lines)

RingMoves == \E k \in Nat : Moved(view.lines, ring, view.lines, k)

\* The pin was on the screen, and is in the ring only if it is in the copy.
PinIsOld == pin # 0 =>
    /\ OldNumber(pin)
    /\ \A j \in 1..Len(ring) : ring[j].seq = pin => \E i \in 1..Len(view.lines) : view.lines[i].seq = pin

PinOnPage == pin # 0 /\ view.fromEnd > 0 =>
    \/ \A i \in 1..Len(FilteredLines) : FilteredLines[i].seq # pin
    \/ \E p, a \in Nat : OnPage(FilteredLines, view, pin, p, a)

LogInv == LogShape /\ Numbered /\ RingMoves /\ PinIsOld /\ PinOnPage

LEMMA LogInitHolds == LogInit => LogInv
<1> SUFFICES ASSUME LogInit PROVE LogInv
  OBVIOUS
<1>1. PICK h \in Heights :
        /\ text \in LogTexts /\ ring = <<>> /\ seq = 0 /\ writing = [t \in Threads \cup {Screen} |-> NoLine]
        /\ view = [mode |-> "list", lines |-> <<>>, filter |-> FALSE, height |-> h,
                   fromEnd |-> 0, anchor |-> 0, known |-> 0, copying |-> FALSE]
        /\ pin = 0
  BY DEF LogInit
<1>2. h \in Nat \ {0} /\ text \in Seq([rows : Nat \ {0}, hit : BOOLEAN])
  BY <1>1, LogAssumption
<1>3. <<>> \in Seq(LogLines) /\ Len(<<>>) = 0
  OBVIOUS
<1>4. LogShape
  <2>1. view \in LogViews
    BY <1>1, <1>2, <1>3 DEF LogViews
  <2>2. Len(text) \in Nat
    BY <1>2
  <2>3. QED
    BY <1>1, <1>2, <1>3, <2>1, <2>2 DEF LogShape, LogThreads
<1>5. \A t \in LogThreads : writing[t].seq = 0
  BY <1>1 DEF LogThreads, NoLine
<1>6. view.lines = <<>> /\ view.fromEnd = 0
  BY <1>1
<1>7. PastLines(<<>>)
  BY <1>3 DEF PastLines, Distinct
<1>8. Numbered
  BY <1>1, <1>5, <1>6, <1>7 DEF Numbered
<1>9. RingMoves
  BY <1>1, <1>3, <1>6, MovedNot DEF RingMoves
<1>10. QED
  BY <1>1, <1>4, <1>6, <1>8, <1>9 DEF LogInv, PinIsOld, PinOnPage

\* A number that is taken is none of the old ones.
LEMMA TakesNumberKeeps ==
  ASSUME LogInv, NEW t \in LogThreads, TakesNumber(t), UNCHANGED <<text, ring, view, pin>>
  PROVE  LogInv'
<1>1. LogShape /\ Numbered /\ RingMoves /\ PinIsOld /\ PinOnPage
  BY DEF LogInv
<1>2. /\ seq \in Nat /\ seq < Len(text) /\ seq' = seq + 1 /\ Len(text) \in Nat
      /\ writing' = [writing EXCEPT ![t] = [seq |-> seq + 1, rows |-> text[seq + 1].rows,
                                                            hit |-> text[seq + 1].hit]]
      /\ text' = text /\ ring' = ring /\ view' = view /\ pin' = pin
  BY <1>1 DEF LogShape, TakesNumber
<1> DEFINE line == [seq |-> seq + 1, rows |-> text[seq + 1].rows, hit |-> text[seq + 1].hit]
<1>3. line \in LogLines /\ line.seq = seq + 1
  <2>1. seq + 1 \in 1..Len(text)
    BY <1>2
  <2>2. text[seq + 1] \in [rows : Nat \ {0}, hit : BOOLEAN]
    <3>1. text \in Seq([rows : Nat \ {0}, hit : BOOLEAN])
      BY <1>1 DEF LogShape
    <3> DEFINE R == [rows : Nat \ {0}, hit : BOOLEAN]
    <3>2. text \in Seq(R)
      BY <3>1
    <3> HIDE DEF R
    <3>3. text[seq + 1] \in R
      BY <2>1, <3>2
    <3>4. QED
      BY <3>3 DEF R
  <2>3. seq + 1 \in Nat \ {0}
    BY <1>2
  <2>4. QED
    BY <2>2, <2>3 DEF LogLines
<1>4. writing' = [writing EXCEPT ![t] = line]
  BY <1>2
<1> HIDE DEF line
<1>5. writing \in [LogThreads -> LogLines \cup {NoLine}]
  BY <1>1 DEF LogShape
<1>6. /\ writing' \in [LogThreads -> LogLines \cup {NoLine}]
      /\ writing'[t].seq = seq + 1
      /\ \A u \in LogThreads : u # t => writing'[u] = writing[u]
  BY <1>3, <1>4, <1>5
<1>7. LogShape'
  BY <1>1, <1>2, <1>6 DEF LogShape
<1>8. \A u \in LogThreads : writing[u].seq \in Nat /\ writing[u].seq <= seq
  <2>1. \A u \in LogThreads : writing[u] \in LogLines \cup {NoLine}
    BY <1>5
  <2>2. \A u \in LogThreads : writing[u].seq \in Nat
    BY <2>1 DEF LogLines, NoLine
  <2>3. QED
    BY <1>1, <2>2 DEF Numbered
<1>9. \A n \in Nat : OldNumber(n) => OldNumber(n)'
  <2>1. ASSUME NEW n \in Nat, OldNumber(n) PROVE OldNumber(n)'
    <3>1. n <= seq /\ \A u \in LogThreads : writing[u].seq # n
      BY <2>1 DEF OldNumber
    <3>2. n <= seq' /\ n # seq + 1
      BY <1>2, <3>1
    <3>3. \A u \in LogThreads : writing'[u].seq # n
      BY <1>6, <3>1, <3>2
    <3>4. QED
      BY <3>2, <3>3 DEF OldNumber
  <2>2. QED
    BY <2>1
<1>10. \A s \in Seq(LogLines) : PastLines(s) => PastLines(s)'
  <2>1. ASSUME NEW s \in Seq(LogLines), PastLines(s) PROVE PastLines(s)'
    <3>1. ASSUME NEW i \in 1..Len(s) PROVE s[i].seq \in Nat
      <4>1. s[i] \in LogLines
        OBVIOUS
      <4>2. QED
        BY <4>1 DEF LogLines
    <3>2. \A i \in 1..Len(s) : OldNumber(s[i].seq)
      BY <2>1 DEF PastLines
    <3>3. ASSUME NEW i \in 1..Len(s) PROVE OldNumber(s[i].seq)'
      <4>1. PICK n \in Nat : n = s[i].seq
        BY <3>1
      <4>2. OldNumber(n)'
        BY <1>9, <3>2, <4>1
      <4>3. QED
        BY <4>1, <4>2
    <3>4. QED
      BY <2>1, <3>3 DEF PastLines
  <2>2. QED
    BY <2>1
<1>11. ring \in Seq(LogLines) /\ view.lines \in Seq(LogLines) /\ pin \in Nat
  BY <1>1 DEF LogShape, LogViews
<1>12. PastLines(ring)' /\ PastLines(view.lines)'
  <2>1. PastLines(ring) /\ PastLines(view.lines)
    BY <1>1 DEF Numbered
  <2>2. PICK r \in Seq(LogLines) : r = ring
    BY <1>11
  <2>3. PICK l \in Seq(LogLines) : l = view.lines
    BY <1>11
  <2>4. PastLines(r)' /\ PastLines(l)'
    BY <1>10, <2>1, <2>2, <2>3
  <2>5. ring' = r /\ view'.lines = l
    BY <1>2, <2>2, <2>3
  <2>6. QED
    BY <2>4, <2>5
<1>13. Numbered'
  <2>1. \A u \in LogThreads : writing'[u].seq <= seq'
    BY <1>2, <1>6, <1>8
  <2>2. ASSUME NEW u \in LogThreads, NEW w \in LogThreads, writing'[u].seq = writing'[w].seq,
               writing'[u].seq # 0
        PROVE  u = w
    <3>1. CASE u # t /\ w # t
      BY <1>1, <1>6, <2>2, <3>1 DEF Numbered
    <3>2. CASE u = t /\ w # t
      BY <1>2, <1>6, <1>8, <2>2, <3>2
    <3>3. CASE u # t /\ w = t
      BY <1>2, <1>6, <1>8, <2>2, <3>3
    <3>4. QED
      BY <3>1, <3>2, <3>3
  <2>3. QED
    BY <1>12, <2>1, <2>2 DEF Numbered
<1>14. RingMoves'
  BY <1>1, <1>2 DEF RingMoves
<1>15. PinIsOld'
  <2>1. PICK q \in Nat : q = pin
    BY <1>11
  <2>2. pin # 0 => OldNumber(q)
    BY <1>1, <2>1 DEF PinIsOld
  <2>3. pin # 0 => OldNumber(q)'
    BY <1>9, <2>2
  <2>4. pin # 0 => OldNumber(pin)'
    BY <1>2, <2>1, <2>3
  <2>5. QED
    BY <1>1, <1>2, <2>4 DEF PinIsOld
<1>16. PinOnPage'
  BY <1>1, <1>2 DEF PinOnPage, FilteredLines
<1>17. QED
  BY <1>7, <1>13, <1>14, <1>15, <1>16 DEF LogInv

\* A line that is appended was held by one thread, and so is none of the past.
LEMMA AppendsKeeps ==
  ASSUME LogInv, NEW t \in LogThreads, Appends(t)
  PROVE  LogInv'
<1>1. LogShape /\ Numbered /\ RingMoves /\ PinIsOld /\ PinOnPage
  BY DEF LogInv
<1>2. /\ writing[t].seq # 0 /\ writing' = [writing EXCEPT ![t] = NoLine]
      /\ ring' = Appended(writing[t])
      /\ text' = text /\ seq' = seq /\ view' = view /\ pin' = pin
  BY DEF Appends
<1>3. /\ writing \in [LogThreads -> LogLines \cup {NoLine}]
      /\ ring \in Seq(LogLines) /\ view.lines \in Seq(LogLines) /\ pin \in Nat /\ seq \in Nat
  <2>1. Len(text) \in Nat
    BY <1>1 DEF LogShape
  <2>2. QED
    BY <1>1, <2>1 DEF LogShape, LogViews
<1>4. PICK line \in LogLines : line = writing[t]
  <2>1. NoLine.seq = 0
    BY DEF NoLine
  <2>2. QED
    BY <1>2, <1>3, <2>1
<1>5. line.seq \in Nat /\ line.seq # 0 /\ line.seq <= seq
  BY <1>1, <1>2, <1>4 DEF LogLines, Numbered
<1>6. /\ writing' \in [LogThreads -> LogLines \cup {NoLine}]
      /\ writing'[t].seq = 0 /\ \A u \in LogThreads : u # t => writing'[u] = writing[u]
  BY <1>2, <1>3 DEF NoLine
<1>7. \A n \in Nat : n # 0 /\ OldNumber(n) => OldNumber(n)' /\ n # line.seq
  <2>1. ASSUME NEW n \in Nat, n # 0, OldNumber(n) PROVE OldNumber(n)' /\ n # line.seq
    <3>1. n <= seq /\ \A u \in LogThreads : writing[u].seq # n
      BY <2>1 DEF OldNumber
    <3>2. \A u \in LogThreads : writing'[u].seq # n
      BY <1>6, <2>1, <3>1
    <3>3. QED
      BY <1>2, <1>4, <3>1, <3>2 DEF OldNumber
  <2>2. QED
    BY <2>1
<1>8. OldNumber(line.seq)'
  <2>1. \A u \in LogThreads : u # t => writing[u].seq # line.seq
    BY <1>1, <1>2, <1>4 DEF Numbered
  <2>2. \A u \in LogThreads : writing'[u].seq # line.seq
    BY <1>5, <1>6, <2>1
  <2>3. QED
    BY <1>2, <1>5, <2>2 DEF OldNumber
<1>9. \A s \in Seq(LogLines) : \A i \in 1..Len(s) : s[i].seq \in Nat /\ s[i].seq # 0
  <2>1. ASSUME NEW s \in Seq(LogLines), NEW i \in 1..Len(s) PROVE s[i].seq \in Nat /\ s[i].seq # 0
    <3>1. s[i] \in LogLines
      OBVIOUS
    <3>2. QED
      BY <3>1 DEF LogLines
  <2>2. QED
    BY <2>1
<1>10. \A s \in Seq(LogLines) : PastLines(s) =>
          \A i \in 1..Len(s) : s[i].seq # line.seq /\ OldNumber(s[i].seq)'
  <2>1. ASSUME NEW s \in Seq(LogLines), PastLines(s), NEW i \in 1..Len(s)
        PROVE  s[i].seq # line.seq /\ OldNumber(s[i].seq)'
    <3>1. OldNumber(s[i].seq)
      BY <2>1 DEF PastLines
    <3>2. PICK n \in Nat : n = s[i].seq /\ n # 0
      BY <1>9
    <3>3. OldNumber(n)' /\ n # line.seq
      BY <1>7, <3>1, <3>2
    <3>4. QED
      BY <3>2, <3>3
  <2>2. QED
    BY <2>1
<1>11. PICK r \in Seq(LogLines) : r = ring
  BY <1>3
<1>12. PICK now \in Seq(LogLines) : now = view.lines
  BY <1>3
<1>13. PastLines(r) /\ PastLines(now)
  BY <1>1, <1>11, <1>12 DEF Numbered
<1>14. PICK k \in Nat : Moved(now, r, now, k)
  BY <1>1, <1>11, <1>12 DEF RingMoves
<1>15. Distinct(r) /\ \A i \in 1..Len(r) : r[i].seq # line.seq
  BY <1>10, <1>13 DEF PastLines
<1>16. \A i \in 1..Len(now) : now[i].seq # line.seq
  BY <1>10, <1>13
<1>17. PICK q \in Seq(LogLines) :
          /\ q = ring' /\ Distinct(q) /\ \E k2 \in Nat : Moved(now, q, now, k2)
          /\ \A j \in 1..Len(q) : q[j] = line \/ \E i \in 1..Len(r) : q[j] = r[i]
  <2>1. CASE Len(r) >= RingSize
    <3>1. ring' = Append(Tail(r), line)
      BY <1>2, <1>4, <1>11, <2>1 DEF Appended
    <3>2. Len(r) > 0
      BY <2>1, LogAssumption
    <3>3. PICK b \in Seq(LogLines) :
             /\ b = Tail(r) /\ Distinct(b) /\ \E k2 \in Nat : Moved(now, b, now, k2)
             /\ \A j \in 1..Len(b) : \E i \in 1..Len(r) : b[j] = r[i]
      <4>1. /\ Tail(r) \in Seq(LogLines) /\ Distinct(Tail(r))
            /\ \A j \in 1..Len(Tail(r)) : \E i \in 1..Len(r) : Tail(r)[j] = r[i]
            /\ \E k2 \in Nat : Moved(now, Tail(r), now, k2)
        BY <1>14, <1>15, <3>2, DropLine
      <4> DEFINE b == Tail(r)
      <4> HIDE DEF b
      <4>2. /\ b \in Seq(LogLines) /\ Distinct(b) /\ \E k2 \in Nat : Moved(now, b, now, k2)
            /\ \A j \in 1..Len(b) : \E i \in 1..Len(r) : b[j] = r[i]
        BY <4>1 DEF b
      <4>3. QED
        BY <4>2 DEF b
    <3>4. PICK k2 \in Nat : Moved(now, b, now, k2)
      BY <3>3
    <3>5. \A i \in 1..Len(b) : b[i].seq # line.seq
      BY <1>15, <3>3
    <3>6. /\ Append(b, line) \in Seq(LogLines) /\ Distinct(Append(b, line))
          /\ \A j \in 1..Len(Append(b, line)) :
                 Append(b, line)[j] = line \/ \E i \in 1..Len(b) : Append(b, line)[j] = b[i]
          /\ Moved(now, Append(b, line), now, k2)
      BY <1>16, <3>3, <3>4, <3>5, AppendLine
    <3>7. \A j \in 1..Len(Append(b, line)) :
             Append(b, line)[j] = line \/ \E i \in 1..Len(r) : Append(b, line)[j] = r[i]
      BY <3>3, <3>6
    <3>8. ring' = Append(b, line)
      BY <3>1, <3>3
    <3> DEFINE e == Append(b, line)
    <3> HIDE DEF e
    <3>9. QED
      BY <3>6, <3>7, <3>8 DEF e
  <2>2. CASE ~(Len(r) >= RingSize)
    <3>1. ring' = Append(r, line)
      BY <1>2, <1>4, <1>11, <2>2 DEF Appended
    <3>2. /\ Append(r, line) \in Seq(LogLines) /\ Distinct(Append(r, line))
          /\ \A j \in 1..Len(Append(r, line)) :
                 Append(r, line)[j] = line \/ \E i \in 1..Len(r) : Append(r, line)[j] = r[i]
          /\ Moved(now, Append(r, line), now, k)
      BY <1>14, <1>15, <1>16, AppendLine
    <3>3. QED
      BY <1>14, <3>1, <3>2
  <2>3. QED
    BY <2>1, <2>2
<1>18. LogShape'
  BY <1>1, <1>2, <1>6, <1>17 DEF LogShape
<1>19. \A j \in 1..Len(q) : OldNumber(q[j].seq)'
  <2>1. ASSUME NEW j \in 1..Len(q) PROVE OldNumber(q[j].seq)'
    <3>1. CASE q[j] = line
      BY <1>8, <3>1
    <3>2. CASE \E i \in 1..Len(r) : q[j] = r[i]
      <4>1. PICK i \in 1..Len(r) : q[j] = r[i]
        BY <3>2
      <4>2. OldNumber(r[i].seq)'
        BY <1>10, <1>13
      <4>3. QED
        BY <4>1, <4>2
    <3>3. QED
      BY <1>17, <3>1, <3>2
  <2>2. QED
    BY <2>1
<1>20. PastLines(ring)' /\ PastLines(view.lines)'
  <2>1. PastLines(q)'
    BY <1>17, <1>19 DEF PastLines
  <2>2. PastLines(now)'
    BY <1>10, <1>13 DEF PastLines
  <2>3. ring' = q /\ view'.lines = now
    BY <1>2, <1>12, <1>17
  <2>4. QED
    BY <2>1, <2>2, <2>3
<1>21. Numbered'
  <2>1. \A u \in LogThreads : writing'[u].seq <= seq'
    BY <1>1, <1>2, <1>3, <1>6 DEF Numbered
  <2>2. ASSUME NEW u \in LogThreads, NEW w \in LogThreads, writing'[u].seq = writing'[w].seq,
               writing'[u].seq # 0
        PROVE  u = w
    <3>1. u # t /\ w # t
      BY <1>6, <2>2
    <3>2. QED
      BY <1>1, <1>6, <2>2, <3>1 DEF Numbered
  <2>3. QED
    BY <1>20, <2>1, <2>2 DEF Numbered
<1>22. RingMoves'
  <2>1. view'.lines = now /\ ring' = q
    BY <1>2, <1>12, <1>17
  <2>2. PICK k2 \in Nat : Moved(now, q, now, k2)
    BY <1>17
  <2>3. QED
    BY <2>1, <2>2 DEF RingMoves
<1>23. PinIsOld'
  <2>1. SUFFICES ASSUME pin # 0
                 PROVE  /\ OldNumber(pin)'
                        /\ \A j \in 1..Len(q) : q[j].seq = pin => \E i \in 1..Len(now) : now[i].seq = pin
    <3>1. view'.lines = now /\ ring' = q /\ pin' = pin
      BY <1>2, <1>12, <1>17
    <3>2. QED
      BY <2>1, <3>1 DEF PinIsOld
  <2>2. PICK n \in Nat : n = pin
    BY <1>3
  <2>3. OldNumber(n)
    BY <1>1, <2>1, <2>2 DEF PinIsOld
  <2>4. OldNumber(n)' /\ n # line.seq
    BY <1>7, <2>1, <2>2, <2>3
  <2>5. OldNumber(pin)'
    BY <1>2, <2>2, <2>4
  <2>6. \A j \in 1..Len(r) : r[j].seq = pin => \E i \in 1..Len(now) : now[i].seq = pin
    BY <1>1, <1>11, <1>12, <2>1 DEF PinIsOld
  <2>7. \A j \in 1..Len(q) : q[j].seq = pin => \E i \in 1..Len(now) : now[i].seq = pin
    BY <1>17, <2>2, <2>4, <2>6
  <2>8. QED
    BY <2>5, <2>7
<1>24. PinOnPage'
  BY <1>1, <1>2 DEF PinOnPage, FilteredLines
<1>25. QED
  BY <1>18, <1>21, <1>22, <1>23, <1>24 DEF LogInv

\* The steps of the screen that leave the lines alone.
LEMMA ScreenKeeps ==
  ASSUME LogInv, UNCHANGED <<text, ring, seq, writing>>, view' \in LogViews, view'.lines = view.lines,
         pin' \in Nat, pin' # 0 => pin' = pin \/ \E i \in 1..Len(FilteredLines) : FilteredLines[i].seq = pin',
         PinOnPage'
  PROVE  LogInv'
<1>1. LogShape /\ Numbered /\ RingMoves /\ PinIsOld
  BY DEF LogInv
<1>2. text' = text /\ ring' = ring /\ seq' = seq /\ writing' = writing
  OBVIOUS
<1>3. LogShape'
  BY <1>1, <1>2 DEF LogShape
<1>4. Numbered'
  BY <1>1, <1>2 DEF Numbered, PastLines, OldNumber
<1>5. RingMoves'
  BY <1>1, <1>2 DEF RingMoves
<1>6. view.lines \in Seq(LogLines)
  BY <1>1 DEF LogShape, LogViews
<1>7. PinIsOld'
  <2>1. CASE pin' # 0 /\ pin' = pin
    BY <1>1, <1>2, <2>1 DEF PinIsOld, OldNumber
  <2>2. CASE pin' # 0 /\ pin' # pin
    <3>1. PICK i \in 1..Len(FilteredLines) : FilteredLines[i].seq = pin'
      BY <2>2
    <3>2. PICK n \in 1..Len(view.lines) : FilteredLines[i] = view.lines[n]
      <4>1. KeptOf(view.lines, view.filter, Len(view.lines), FilteredLines)
        BY <1>6, PassingLines DEF FilteredLines
      <4>2. QED
        BY <4>1 DEF KeptOf
    <3>3. OldNumber(view.lines[n].seq)
      BY <1>1 DEF Numbered, PastLines
    <3>4. OldNumber(pin)'
      BY <1>2, <3>1, <3>2, <3>3 DEF OldNumber
    <3>5. view'.lines[n].seq = pin' /\ n \in 1..Len(view'.lines)
      BY <3>1, <3>2
    <3>6. QED
      BY <3>4, <3>5 DEF PinIsOld
  <2>3. CASE pin' = 0
    BY <2>3 DEF PinIsOld
  <2>4. QED
    BY <2>1, <2>2, <2>3
<1>8. QED
  BY <1>3, <1>4, <1>5, <1>7 DEF LogInv

-----------------------------------------------------------------------------
(* LogView: the screen.                                                    *)

\* A view that differs from v in where it stands only.
Elsewhere(v, w) ==
    /\ w \in LogViews /\ w.mode = v.mode /\ w.lines = v.lines /\ w.filter = v.filter
    /\ w.height = v.height /\ w.known = v.known /\ w.copying = v.copying

StandsAt(v, w, f, a) == w = [v EXCEPT !.fromEnd = f, !.anchor = a]

LEMMA ViewMoves ==
  ASSUME NEW v \in LogViews, NEW f \in Nat, NEW a \in Nat, NEW w, StandsAt(v, w, f, a)
  PROVE  Elsewhere(v, w) /\ w.fromEnd = f /\ w.anchor = a
  BY DEF Elsewhere, LogViews, StandsAt

LEMMA FollowTailIs ==
  ASSUME NEW v \in LogViews
  PROVE  Elsewhere(v, FollowTail(v)) /\ FollowTail(v).fromEnd = 0 /\ FollowTail(v).anchor = 0
<1>1. StandsAt(v, FollowTail(v), 0, 0)
  BY DEF StandsAt, FollowTail
<1>2. QED
  BY <1>1, ViewMoves

LEMMA LineNumber ==
  ASSUME NEW s \in Seq(LogLines), NEW i \in 1..Len(s)
  PROVE  s[i].seq \in Nat /\ s[i].seq # 0
<1>1. s[i] \in LogLines
  OBVIOUS
<1>2. QED
  BY <1>1 DEF LogLines

\* What a view of the lines stands at is one of them.
LEMMA PlacedIs ==
  ASSUME NEW v \in LogViews, NEW s \in Seq(LogLines), s # <<>>, NEW to \in Nat
  PROVE  /\ Elsewhere(v, Placed(v, s, to)) /\ Placed(v, s, to).fromEnd = to
         /\ Placed(v, s, to).anchor # 0 => \E i \in 1..Len(s) : s[i].seq = Placed(v, s, to).anchor
<1>1. Len(s) \in Nat /\ v.height \in Nat
  BY DEF LogViews
<1>2. PICK b \in 0..(Len(s) - 1) : b = Window(s, to, v.height)[1]
  BY <1>1, WindowIs
<1>3. b + 1 \in 1..Len(s)
  BY <1>1
<1>4. TopSeq(s, to, v.height) = s[b + 1].seq
  BY <1>2 DEF TopSeq
<1>5. PICK a \in Nat : /\ a = (IF to = 0 THEN 0 ELSE TopSeq(s, to, v.height))
                       /\ a # 0 => \E i \in 1..Len(s) : s[i].seq = a
  <2>1. s[b + 1].seq \in Nat
    BY <1>3, LineNumber
  <2>2. QED
    BY <1>3, <1>4, <2>1
<1>6. StandsAt(v, Placed(v, s, to), to, a)
  BY <1>5 DEF Placed, StandsAt
<1>7. QED
  BY <1>5, <1>6, ViewMoves

LEMMA OldestPageIs ==
  ASSUME NEW s \in Seq(LogLines), NEW h \in Nat
  PROVE  OldestPage(s, h) \in Nat
<1>1. Len(s) \in Nat /\ 0 \in 0..Len(s)
  OBVIOUS
<1>2. PICK to \in 0..Len(s) : to = PackDown(s, 0, h)
  BY <1>1, PackDownIs
<1>3. Len(s) - to \in Nat
  BY <1>1
<1>4. QED
  BY <1>2, <1>3 DEF OldestPage

LEMMA PageAtIs ==
  ASSUME NEW v \in LogViews, NEW s \in Seq(LogLines), NEW i \in 1..Len(s)
  PROVE  Elsewhere(v, PageAt(v, s, i))
<1> DEFINE to == PackDown(s, i - 1, v.height)
           T == {a \in 0..(i - 1) : Rows(s, a, to) <= v.height \/ a = i - 1}
           from == Min(T)
<1>1. Len(s) \in Nat /\ v.height \in Nat /\ i - 1 \in 0..Len(s) /\ i - 1 \in 0..(i - 1)
  BY DEF LogViews
<1>2. to \in (i - 1)..Len(s)
  BY <1>1, PackDownIs
<1>3. StandsAt(v, PageAt(v, s, i), Len(s) - to, s[from + 1].seq)
  BY DEF PageAt, StandsAt
<1>4. from \in T
  <2>1. i - 1 \in T
    BY <1>1
  <2>2. T \in SUBSET Nat
    BY <1>1
  <2> HIDE DEF T
  <2>3. QED
    BY <2>1, <2>2, MinIs
<1>5. from \in 0..(i - 1)
  <2> HIDE DEF from
  <2>1. QED
    BY <1>4
<1> HIDE DEF from, to
<1>6. from + 1 \in 1..Len(s) /\ Len(s) - to \in Nat
  BY <1>1, <1>2, <1>5
<1>7. s[from + 1].seq \in Nat
  BY <1>6, LineNumber
<1>8. QED
  BY <1>3, <1>6, <1>7, ViewMoves

LEMMA ReanchorsIs ==
  ASSUME NEW v \in LogViews, NEW s \in Seq(LogLines)
  PROVE  Elsewhere(v, Reanchors(v, s))
<1>1. CASE v.fromEnd = 0 \/ v.anchor = 0 \/ s = <<>>
  BY <1>1, FollowTailIs DEF Reanchors
<1>2. CASE ~(v.fromEnd = 0 \/ v.anchor = 0 \/ s = <<>>) /\ Anchored(s, v) # {}
  <2>1. Anchored(s, v) \subseteq 1..Len(s) /\ 1..Len(s) \subseteq Nat
    BY DEF Anchored
  <2>2. Anchored(s, v) \in SUBSET Nat
    BY <2>1
  <2>3. Min(Anchored(s, v)) \in Anchored(s, v)
    BY <1>2, <2>2, MinIs
  <2>4. PICK i \in 1..Len(s) : i = Min(Anchored(s, v))
    BY <2>1, <2>3
  <2>5. Reanchors(v, s) = PageAt(v, s, i)
    BY <1>2, <2>4 DEF Reanchors
  <2>6. QED
    BY <2>5, PageAtIs
<1>3. CASE ~(v.fromEnd = 0 \/ v.anchor = 0 \/ s = <<>>) /\ Anchored(s, v) = {}
  <2>1. Reanchors(v, s) = Placed(v, s, OldestPage(s, v.height))
    BY <1>3 DEF Reanchors
  <2>2. v.height \in Nat
    BY DEF LogViews
  <2>3. OldestPage(s, v.height) \in Nat
    BY <2>2, OldestPageIs
  <2>4. QED
    BY <1>3, <2>1, <2>3, PlacedIs
<1>4. QED
  BY <1>1, <1>2, <1>3

\* Two views that stand alike show the same.
LEMMA OnPageSame ==
  ASSUME NEW s, NEW v, NEW w, w.anchor = v.anchor, w.height = v.height, w.fromEnd = v.fromEnd,
         NEW pinned, NEW p, NEW a, OnPage(s, v, pinned, p, a)
  PROVE  OnPage(s, w, pinned, p, a)
  BY DEF OnPage

LEMMA PassingType ==
  ASSUME NEW s \in Seq(LogLines), NEW on
  PROVE  Passing(s, on) \in Seq(LogLines)
<1>1. KeptOf(s, on, Len(s), Passing(s, on))
  BY PassingLines
<1>2. QED
  BY <1>1 DEF KeptOf

\* What a copy of the ring leaves of the page.
LEMMA PollCopiesKeeps ==
  ASSUME LogInv, PollCopies
  PROVE  LogInv'
<1>1. LogShape /\ Numbered /\ RingMoves /\ PinIsOld /\ PinOnPage
  BY DEF LogInv
<1>2. /\ view' = [Reanchors(view, Passing(ring, view.filter)) EXCEPT !.lines = ring, !.copying = FALSE]
      /\ text' = text /\ ring' = ring /\ seq' = seq /\ writing' = writing /\ pin' = pin
  BY DEF PollCopies
<1>3. PICK v \in LogViews : v = view
  BY <1>1 DEF LogShape
<1>4. PICK r \in Seq(LogLines) : r = ring
  BY <1>1 DEF LogShape
<1>5. v.lines \in Seq(LogLines)
  BY DEF LogViews
<1>6. PICK t \in Seq(LogLines) : t = Passing(r, v.filter)
  BY PassingType
<1>7. PICK s \in Seq(LogLines) : s = Passing(v.lines, v.filter)
  BY <1>5, PassingType
<1>8. PICK w \in LogViews : w = Reanchors(v, t) /\ Elsewhere(v, w)
  BY ReanchorsIs DEF Elsewhere
<1>9. view' = [w EXCEPT !.lines = r, !.copying = FALSE]
  BY <1>2, <1>3, <1>4, <1>6, <1>8
<1>10. /\ view' \in LogViews /\ view'.lines = r /\ view'.filter = v.filter
       /\ view'.fromEnd = w.fromEnd /\ view'.height = w.height /\ view'.anchor = w.anchor
  BY <1>8, <1>9 DEF LogViews, Elsewhere
<1>11. LogShape'
  BY <1>1, <1>2, <1>10 DEF LogShape
<1>12. Numbered'
  <2>1. PastLines(ring)
    BY <1>1 DEF Numbered
  <2>2. PastLines(ring)'
    BY <1>2, <2>1 DEF PastLines, OldNumber
  <2>3. PastLines(view.lines)'
    BY <1>2, <1>4, <1>10, <2>2
  <2>4. QED
    BY <1>1, <1>2, <2>2, <2>3 DEF Numbered
<1>13. RingMoves'
  <2>1. Moved(r, r, r, 0)
    BY MovedNot
  <2>2. view'.lines = r /\ ring' = r
    BY <1>2, <1>4, <1>10
  <2>3. QED
    BY <2>1, <2>2 DEF RingMoves
<1>14. PinIsOld'
  BY <1>1, <1>2, <1>4, <1>10 DEF PinIsOld, OldNumber
<1>15. PinOnPage'
  <2>1. FilteredLines' = t /\ FilteredLines = s
    BY <1>3, <1>6, <1>7, <1>10 DEF FilteredLines
  <2>2. SUFFICES ASSUME pin # 0, w.fromEnd # 0, NEW j \in 1..Len(t), t[j].seq = pin
                 PROVE  \E p, a \in Nat : OnPage(t, w, pin, p, a)
    <3>1. view'.fromEnd > 0 => w.fromEnd # 0
      BY <1>10 DEF LogViews
    <3>2. \A p, a \in Nat : OnPage(t, w, pin, p, a) => OnPage(t, view', pin, p, a)
      BY <1>10, OnPageSame
    <3>3. pin # 0 /\ view'.fromEnd > 0 =>
             \/ \A i \in 1..Len(t) : t[i].seq # pin
             \/ \E p, a \in Nat : OnPage(t, view', pin, p, a)
      BY <2>2, <3>1, <3>2
    <3>4. QED
      BY <1>2, <2>1, <3>3 DEF PinOnPage
  <2>3. PICK k \in Nat : Moved(v.lines, r, v.lines, k)
    BY <1>1, <1>3, <1>4 DEF RingMoves
  <2>4. PICK i \in 1..Len(v.lines) : v.lines[i].seq = t[j].seq
    <3>1. PICK n \in 1..Len(r) : r[n] = t[j]
      <4>1. KeptOf(r, v.filter, Len(r), t)
        BY <1>6, PassingLines
      <4>2. QED
        BY <4>1 DEF KeptOf
    <3>2. QED
      BY <1>1, <1>3, <1>4, <2>2, <3>1 DEF PinIsOld
  <2>5. PICK n \in 1..Len(s) : s[n] = t[j]
    <3>1. PICK now \in Seq(LogLines) : now = v.lines
      BY <1>5
    <3>2. Moved(now, r, now, k) /\ i \in 1..Len(now) /\ j \in 1..Len(Passing(r, v.filter))
      BY <1>6, <2>3, <3>1
    <3>3. now[i].seq = Passing(r, v.filter)[j].seq
      BY <1>6, <2>4, <3>1
    <3>4. \E n \in 1..Len(Passing(now, v.filter)) : Passing(now, v.filter)[n] = Passing(r, v.filter)[j]
      BY <3>2, <3>3, PassingStays
    <3>5. QED
      BY <1>6, <1>7, <3>1, <3>4
  <2>6. v.fromEnd # 0
    <3>1. CASE v.fromEnd = 0
      <4>1. w = FollowTail(v)
        BY <1>8, <3>1 DEF Reanchors
      <4>2. QED
        BY <2>2, <4>1, FollowTailIs
    <3>2. QED
      BY <3>1
  <2>7. v.fromEnd > 0
    BY <2>6 DEF LogViews
  <2>8. PICK p \in Nat, a \in Nat : OnPage(s, v, pin, p, a)
    BY <1>1, <1>3, <2>1, <2>2, <2>5, <2>7 DEF PinOnPage
  <2>9. Distinct(v.lines) /\ Distinct(r)
    BY <1>1, <1>3, <1>4 DEF Numbered, PastLines
  <2>10. Distinct(s) /\ Distinct(t)
    BY <1>5, <1>6, <1>7, <2>9, PassingDistinct
  <2>11. PICK k2 \in Nat : Moved(s, t, s, k2)
    BY <1>5, <1>6, <1>7, <2>3, PassingMoved
  <2>12. PICK pinned \in Nat : pinned = pin
    BY <1>1 DEF LogShape
  <2>13. \E p2, a2 \in Nat : OnPage(t, Reanchors(v, t), pinned, p2, a2)
    BY <1>8, <2>2, <2>8, <2>10, <2>11, <2>12, ReanchorsShows
  <2>14. QED
    BY <1>8, <2>12, <2>13
<1>16. QED
  BY <1>11, <1>12, <1>13, <1>14, <1>15 DEF LogInv

\* The keys that only turn the mode, and a look at the number.
LEMMA SameLinesKeep ==
  ASSUME LogInv, UNCHANGED <<text, ring, seq, writing>>, view' \in LogViews,
         view'.lines = view.lines, view'.filter = view.filter, view'.height = view.height,
         view'.fromEnd = view.fromEnd, view'.anchor = view.anchor, pin' = pin
  PROVE  LogInv'
<1>1. LogShape /\ PinOnPage
  BY DEF LogInv
<1>2. FilteredLines' = FilteredLines
  BY DEF FilteredLines
<1>3. \A p, a \in Nat : OnPage(FilteredLines, view, pin, p, a) => OnPage(FilteredLines, view', pin, p, a)
  BY OnPageSame
<1>4. PinOnPage'
  BY <1>1, <1>2, <1>3 DEF PinOnPage
<1>5. pin' \in Nat
  BY <1>1 DEF LogShape
<1>6. QED
  BY <1>4, <1>5, ScreenKeeps

\* The keys after which nothing is pinned.
LEMMA UnpinnedKeep ==
  ASSUME LogInv, UNCHANGED <<text, ring, seq, writing>>, view' \in LogViews,
         view'.lines = view.lines, pin' = 0
  PROVE  LogInv'
<1>1. PinOnPage'
  BY DEF PinOnPage
<1>2. QED
  BY <1>1, ScreenKeeps

LEMMA OpenLogKeeps ==
  ASSUME LogInv, OpenLog
  PROVE  LogInv'
<1>1. LogShape /\ Numbered
  BY DEF LogInv
<1>2. /\ view' = [FollowTail(view) EXCEPT !.mode = "log", !.lines = ring, !.known = seq]
      /\ text' = text /\ ring' = ring /\ seq' = seq /\ writing' = writing /\ pin' = 0
  BY DEF OpenLog, Key
<1>3. PICK r \in Seq(LogLines) : r = ring
  BY <1>1 DEF LogShape
<1>4. PICK v \in LogViews : v = FollowTail(view)
  BY <1>1, FollowTailIs DEF LogShape, Elsewhere
<1>5. seq \in Nat
  <2>1. Len(text) \in Nat /\ seq \in 0..Len(text)
    BY <1>1 DEF LogShape
  <2>2. QED
    BY <2>1
<1>6. view' = [v EXCEPT !.mode = "log", !.lines = r, !.known = seq]
  BY <1>2, <1>3, <1>4
<1>7. view' \in LogViews /\ view'.lines = r
  BY <1>5, <1>6 DEF LogViews
<1>8. LogShape'
  BY <1>1, <1>2, <1>7 DEF LogShape
<1>9. Numbered'
  <2>1. PastLines(ring)
    BY <1>1 DEF Numbered
  <2>2. PastLines(ring)'
    BY <1>2, <2>1 DEF PastLines, OldNumber
  <2>3. PastLines(view.lines)'
    BY <1>2, <1>3, <1>7, <2>2
  <2>4. QED
    BY <1>1, <1>2, <2>2, <2>3 DEF Numbered
<1>10. RingMoves'
  <2>1. Moved(r, r, r, 0)
    BY MovedNot
  <2>2. view'.lines = r /\ ring' = r
    BY <1>2, <1>3, <1>7
  <2>3. QED
    BY <2>1, <2>2 DEF RingMoves
<1>11. PinIsOld' /\ PinOnPage'
  BY <1>2 DEF PinIsOld, PinOnPage
<1>12. QED
  BY <1>8, <1>9, <1>10, <1>11 DEF LogInv

\* What is left on top of the page by a scroll is pinned, and is on the page.
LEMMA ScrollsKeeps ==
  ASSUME LogInv, NEW to \in Nat, Scrolls(to), UNCHANGED <<text, ring, seq>>
  PROVE  LogInv'
<1>1. LogShape
  BY DEF LogInv
<1>2. PICK v \in LogViews : v = view
  BY <1>1 DEF LogShape
<1>3. PICK s \in Seq(LogLines) : s = FilteredLines
  <2>1. v.lines \in Seq(LogLines)
    BY DEF LogViews
  <2>2. FilteredLines = Passing(v.lines, v.filter)
    BY <1>2 DEF FilteredLines
  <2>3. QED
    BY <2>1, <2>2, PassingType
<1>4. /\ view' = (IF s = <<>> THEN FollowTail(v) ELSE Placed(v, s, to))
      /\ pin' = view'.anchor /\ writing' = writing
  BY <1>2, <1>3 DEF Scrolls
<1>5. CASE s = <<>>
  <2>1. view' \in LogViews /\ view'.lines = view.lines /\ pin' = 0
    BY <1>2, <1>4, <1>5, FollowTailIs DEF Elsewhere
  <2>2. QED
    BY <1>4, <2>1, UnpinnedKeep
<1>6. CASE s # <<>>
  <2>1. /\ view' \in LogViews /\ view'.lines = view.lines /\ view'.filter = view.filter
        /\ view'.fromEnd = to
        /\ view'.anchor # 0 => \E i \in 1..Len(s) : s[i].seq = view'.anchor
    BY <1>2, <1>4, <1>6, PlacedIs DEF Elsewhere
  <2>2. pin' \in Nat /\ (pin' # 0 => \E i \in 1..Len(FilteredLines) : FilteredLines[i].seq = pin')
    BY <1>3, <1>4, <2>1 DEF LogViews
  <2>3. FilteredLines' = s
    BY <1>3, <2>1 DEF FilteredLines
  <2>4. PinOnPage'
    <3>1. SUFFICES ASSUME to # 0 PROVE \E p, a \in Nat : OnPage(s, view', pin', p, a)
      <4>1. view'.fromEnd > 0 => to # 0
        BY <2>1
      <4>2. QED
        BY <2>3, <3>1, <4>1 DEF PinOnPage
    <3>2. PICK p \in 1..Len(s) : OnPage(s, Placed(v, s, to), Placed(v, s, to).anchor, p, p)
      BY <1>6, <3>1, PlacedShows
    <3>3. view' = Placed(v, s, to)
      BY <1>4, <1>6
    <3>4. OnPage(s, view', pin', p, p)
      BY <1>4, <3>2, <3>3
    <3>5. p \in Nat
      OBVIOUS
    <3>6. QED
      BY <3>4, <3>5
  <2>5. QED
    BY <1>4, <2>1, <2>2, <2>4, ScreenKeeps
<1>7. QED
  BY <1>5, <1>6

\* What is pinned stays on a page that grows.
LEMMA ResizeKeeps ==
  ASSUME LogInv, NEW h \in Heights, Resize(h)
  PROVE  LogInv'
<1>1. LogShape /\ PinOnPage
  BY DEF LogInv
<1>2. PICK v \in LogViews : v = view
  BY <1>1 DEF LogShape
<1>3. /\ view' = [v EXCEPT !.height = h]
      /\ pin' = IF h < v.height THEN 0 ELSE pin
      /\ text' = text /\ ring' = ring /\ seq' = seq /\ writing' = writing
  BY <1>2 DEF Resize, Key
<1>4. h \in Nat \ {0} /\ h \in Nat /\ v.height \in Nat
  BY LogAssumption DEF LogViews
<1>5. /\ view' \in LogViews /\ view'.lines = view.lines /\ view'.filter = view.filter
      /\ view'.fromEnd = v.fromEnd
  BY <1>2, <1>3, <1>4 DEF LogViews
<1>6. CASE h < v.height
  BY <1>3, <1>5, <1>6, UnpinnedKeep
<1>7. CASE ~(h < v.height)
  <2>1. pin' = pin /\ v.height <= h /\ pin' \in Nat
    BY <1>1, <1>3, <1>4, <1>7 DEF LogShape
  <2>2. PICK s : s = FilteredLines /\ s \in Seq(LogLines)
    <3>1. v.lines \in Seq(LogLines)
      BY DEF LogViews
    <3>2. FilteredLines = Passing(v.lines, v.filter)
      BY <1>2 DEF FilteredLines
    <3>3. QED
      BY <3>1, <3>2, PassingType
  <2>3. FilteredLines' = s
    BY <1>5, <2>2 DEF FilteredLines
  <2>4. ASSUME NEW p \in Nat, NEW a \in Nat, OnPage(s, view, pin, p, a)
        PROVE  OnPage(s, view', pin, p, a)
    <3>1. PICK pinned : pinned = pin
      OBVIOUS
    <3>2. OnPage(s, v, pinned, p, a)
      BY <1>2, <2>4, <3>1
    <3>3. OnPage(s, [v EXCEPT !.height = h], pinned, p, a)
      BY <1>4, <2>1, <2>2, <3>2, TallerShows
    <3>4. QED
      BY <1>3, <3>1, <3>3
  <2>5. PinOnPage'
    BY <1>1, <1>2, <1>5, <2>1, <2>2, <2>3, <2>4 DEF PinOnPage
  <2>6. QED
    BY <1>3, <1>5, <2>1, <2>5, ScreenKeeps
<1>8. QED
  BY <1>6, <1>7

LEMMA PairBounds ==
  ASSUME NEW a \in Nat, NEW b \in Int
  PROVE  Max({a, b}) \in Nat /\ (b \in Nat => Min({a, b}) \in Nat)
<1>1. \E x \in {a, b} : \A y \in {a, b} : x >= y
  OBVIOUS
<1>2. Max({a, b}) \in {a, b} /\ Max({a, b}) >= a
  BY <1>1 DEF Max
<1>3. \E x \in {a, b} : \A y \in {a, b} : x <= y
  OBVIOUS
<1>4. Min({a, b}) \in {a, b}
  BY <1>3 DEF Min
<1>5. QED
  BY <1>2, <1>4

LEMMA KeysKeep ==
  ASSUME LogInv, \/ OpenLog \/ CloseLog \/ BeginFilter \/ CancelFilter \/ ApplyFilter \/ ClearFilter
                 \/ OpenHelp \/ CloseHelp \/ ScrollHome \/ ScrollEnd
                 \/ \E by \in {1, Page} : ScrollUp(by) \/ ScrollDown(by)
  PROVE  LogInv'
<1>1. PICK v \in LogViews : v = view
  BY DEF LogInv, LogShape
<1>2. CASE OpenLog
  BY <1>2, OpenLogKeeps
<1>3. CASE CloseLog \/ BeginFilter \/ CancelFilter \/ OpenHelp \/ CloseHelp
  <2>1. PICK m \in {"list", "log", "filter", "help"} : view' = [v EXCEPT !.mode = m]
    BY <1>1, <1>3 DEF CloseLog, BeginFilter, CancelFilter, OpenHelp, CloseHelp
  <2>2. UNCHANGED <<text, ring, seq, writing>> /\ pin' = pin
    BY <1>3 DEF CloseLog, BeginFilter, CancelFilter, OpenHelp, CloseHelp, Key
  <2>3. /\ view' \in LogViews /\ view'.lines = v.lines /\ view'.filter = v.filter
        /\ view'.height = v.height /\ view'.fromEnd = v.fromEnd /\ view'.anchor = v.anchor
    BY <2>1 DEF LogViews
  <2>4. QED
    BY <1>1, <2>2, <2>3, SameLinesKeep
<1>4. CASE ApplyFilter \/ ClearFilter
  <2>1. PICK w \in LogViews : w = FollowTail(v) /\ w.lines = v.lines
    BY FollowTailIs DEF Elsewhere
  <2>2. UNCHANGED <<text, ring, seq, writing>> /\ pin' = 0
    BY <1>4 DEF ApplyFilter, ClearFilter, Key
  <2>3. CASE ApplyFilter
    <3>1. PICK f \in BOOLEAN : view' = [w EXCEPT !.filter = f, !.mode = "log"]
      BY <1>1, <2>1, <2>3 DEF ApplyFilter
    <3>2. view' \in LogViews /\ view'.lines = w.lines
      BY <3>1 DEF LogViews
    <3>3. QED
      BY <1>1, <2>1, <2>2, <3>2, UnpinnedKeep
  <2>4. CASE ClearFilter
    <3>1. view' = [w EXCEPT !.filter = FALSE]
      BY <1>1, <2>1, <2>4 DEF ClearFilter
    <3>2. view' \in LogViews /\ view'.lines = w.lines
      BY <3>1 DEF LogViews
    <3>3. QED
      BY <1>1, <2>1, <2>2, <3>2, UnpinnedKeep
  <2>5. QED
    BY <1>4, <2>3, <2>4
<1>5. Highest \in Nat /\ v.fromEnd \in Nat
  <2>1. v.height \in Nat /\ v.lines \in Seq(LogLines) /\ v.fromEnd \in Nat
    BY DEF LogViews
  <2>2. FilteredLines \in Seq(LogLines)
    BY <1>1, <2>1, PassingType DEF FilteredLines
  <2>3. OldestPage(FilteredLines, v.height) \in Nat
    BY <2>1, <2>2, OldestPageIs
  <2>4. QED
    BY <1>1, <2>1, <2>3 DEF Highest
<1>6. CASE ScrollHome \/ ScrollEnd
  <2>1. PICK to \in Nat : Scrolls(to) /\ UNCHANGED <<text, ring, seq>>
    BY <1>5, <1>6 DEF ScrollHome, ScrollEnd, Key
  <2>2. QED
    BY <2>1, ScrollsKeeps
<1>7. CASE \E by \in {1, Page} : ScrollUp(by) \/ ScrollDown(by)
  <2>1. Page \in Nat
    <3>1. PICK b \in Int : b = v.height - 2
      BY DEF LogViews
    <3>2. Max({1, b}) \in Nat
      BY PairBounds
    <3>3. QED
      BY <1>1, <3>1, <3>2 DEF Page
  <2>2. PICK by \in Nat : ScrollUp(by) \/ ScrollDown(by)
    BY <1>7, <2>1
  <2>3. Min({v.fromEnd + by, Highest}) \in Nat
    <3>1. PICK a \in Nat : a = v.fromEnd + by
      BY <1>5
    <3>2. PICK b \in Nat : b = Highest
      BY <1>5
    <3>3. b \in Int
      OBVIOUS
    <3>4. Min({a, b}) \in Nat
      BY <3>3, PairBounds
    <3>5. QED
      BY <3>1, <3>2, <3>4
  <2>4. Max({v.fromEnd - by, 0}) \in Nat
    <3>1. v.fromEnd - by \in Int /\ {v.fromEnd - by, 0} = {0, v.fromEnd - by}
      BY <1>5
    <3>2. Max({0, v.fromEnd - by}) \in Nat
      BY <3>1, PairBounds
    <3>3. QED
      BY <3>1, <3>2
  <2>5. PICK to \in Nat : Scrolls(to) /\ UNCHANGED <<text, ring, seq>>
    <3>1. CASE ScrollUp(by)
      BY <1>1, <2>3, <3>1 DEF ScrollUp, Key
    <3>2. CASE ScrollDown(by)
      BY <1>1, <2>4, <3>2 DEF ScrollDown, Key
    <3>3. QED
      BY <2>2, <3>1, <3>2
  <2>6. QED
    BY <2>5, ScrollsKeeps
<1>8. QED
  BY <1>2, <1>3, <1>4, <1>6, <1>7

LEMMA LogNextKeeps ==
  ASSUME LogInv, LogNext
  PROVE  LogInv'
<1>1. CASE \E t \in Threads : Numbers(t)
  <2>1. PICK t \in Threads : Numbers(t)
    BY <1>1
  <2>2. t \in LogThreads /\ TakesNumber(t) /\ UNCHANGED <<text, ring, view, pin>>
    BY <2>1 DEF Numbers, LogThreads
  <2>3. QED
    BY <2>2, TakesNumberKeeps
<1>2. CASE \E t \in Threads \cup {Screen} : Appends(t)
  BY <1>2, AppendsKeeps DEF LogThreads
<1>3. CASE CycleCapture
  <2>1. Screen \in LogThreads /\ TakesNumber(Screen) /\ UNCHANGED <<text, ring, view, pin>>
    BY <1>3 DEF CycleCapture, LogThreads
  <2>2. QED
    BY <2>1, TakesNumberKeeps
<1>4. CASE PollLooks
  <2>1. PICK v \in LogViews : v = view
    BY DEF LogInv, LogShape
  <2>2. seq \in Nat
    <3>1. seq \in 0..Len(text) /\ Len(text) \in Nat
      BY DEF LogInv, LogShape
    <3>2. QED
      BY <3>1
  <2>3. /\ view' = [v EXCEPT !.known = seq, !.copying = TRUE]
        /\ UNCHANGED <<text, ring, seq, writing>> /\ pin' = pin
    BY <1>4, <2>1 DEF PollLooks
  <2>4. /\ view' \in LogViews /\ view'.lines = v.lines /\ view'.filter = v.filter
        /\ view'.height = v.height /\ view'.fromEnd = v.fromEnd /\ view'.anchor = v.anchor
    BY <2>2, <2>3 DEF LogViews
  <2>5. QED
    BY <2>1, <2>3, <2>4, SameLinesKeep
<1>5. CASE PollCopies
  BY <1>5, PollCopiesKeeps
<1>6. CASE \E h \in Heights : Resize(h)
  BY <1>6, ResizeKeeps
<1>7. CASE \/ OpenLog \/ CloseLog \/ BeginFilter \/ CancelFilter \/ ApplyFilter \/ ClearFilter
           \/ OpenHelp \/ CloseHelp \/ ScrollHome \/ ScrollEnd
           \/ \E by \in {1, Page} : ScrollUp(by) \/ ScrollDown(by)
  BY <1>7, KeysKeep
<1>8. QED
  BY <1>1, <1>2, <1>3, <1>4, <1>5, <1>6, <1>7 DEF LogNext

\* What the invariant says of the page is what the screen shows.
LEMMA PinnedIsShown ==
  ASSUME LogInv
  PROVE  PinHolds
<1>1. SUFFICES ASSUME pin # 0, view.fromEnd > 0, NEW i \in DOMAIN FilteredLines, FilteredLines[i].seq = pin
               PROVE  pin \in Shown
  BY DEF PinHolds
<1>2. PICK v \in LogViews : v = view
  BY DEF LogInv, LogShape
<1>3. PICK s \in Seq(LogLines) : s = FilteredLines
  <2>1. v.lines \in Seq(LogLines)
    BY DEF LogViews
  <2>2. QED
    BY <1>2, <2>1, PassingType DEF FilteredLines
<1>4. i \in 1..Len(s) /\ s[i].seq = pin
  BY <1>1, <1>3
<1>5. PICK p \in Nat, a \in Nat : OnPage(s, v, pin, p, a)
  BY <1>1, <1>2, <1>3, <1>4 DEF LogInv, PinOnPage
<1>6. /\ s[p].seq = pin /\ a \in 1..Len(s) /\ p \in a..Len(s)
      /\ Window(s, v.fromEnd, v.height)[1] < p /\ p <= Window(s, v.fromEnd, v.height)[2]
  BY <1>5 DEF OnPage
<1>7. /\ Window(s, v.fromEnd, v.height)[1] \in Nat /\ Window(s, v.fromEnd, v.height)[2] \in Nat
  <2>1. s # <<>> /\ v.fromEnd \in Nat /\ v.height \in Nat
    BY <1>4 DEF LogViews
  <2>2. QED
    BY <2>1, WindowIs
<1>8. p \in (Window(s, v.fromEnd, v.height)[1] + 1)..Window(s, v.fromEnd, v.height)[2]
  BY <1>6, <1>7
<1>9. QED
  BY <1>2, <1>3, <1>6, <1>8 DEF Shown

\* log.rs: "keep pinned content stable".  Whatever is logged, falls out of the
\* ring, passes the filter or not, and in whatever order the threads append:
\* what the user left on top of the page is on the page while it is among the
\* lines.
THEOREM PinnedLineStays == LogSpec => []PinHolds
<1>1. LogInit => LogInv
  BY LogInitHolds
<1>2. LogInv /\ [LogNext]_logVars => LogInv'
  <2> SUFFICES ASSUME LogInv, [LogNext]_logVars PROVE LogInv'
    OBVIOUS
  <2>1. CASE LogNext
    BY <2>1, LogNextKeeps
  <2>2. CASE UNCHANGED logVars
    <3>1. /\ UNCHANGED <<text, ring, seq, writing>> /\ view' = view /\ pin' = pin
      BY <2>2 DEF logVars
    <3>2. view' \in LogViews
      BY <3>1 DEF LogInv, LogShape
    <3>3. QED
      BY <3>1, <3>2, SameLinesKeep
  <2>3. QED
    BY <2>1, <2>2
<1>3. LogInv => PinHolds
  BY PinnedIsShown
<1>4. QED
  BY <1>1, <1>2, <1>3, PTL DEF LogSpec
=============================================================================

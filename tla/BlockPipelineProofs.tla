------------------------- MODULE BlockPipelineProofs -------------------------
(***************************************************************************)
(* TLAPS proofs about BlockPipeline, for every value of its constants: any *)
(* number and size of pieces, block size, pipeline depth, staging buffers, *)
(* limiter capacity and remote.                                            *)
(*                                                                         *)
(* BlockInv is what the session knows by itself: the bits of a slot stand  *)
(* for bytes that were written (SlotInv), the blocks of an issue are       *)
(* different, outstanding, and no more than the limiter granted            *)
(* (IssueInv), buffers and tokens are not made out of nothing.             *)
(*                                                                         *)
(* The last two parts relate the session to the remote.  LiveInv: a mark   *)
(* has its request or its answer on the way.  OnceInv: a block is in at    *)
(* most one of four places, the issue, the wire to the remote, its queue   *)
(* and the way back; a block in a place is marked, so that next_request    *)
(* passes over it, and no Cancel is behind its request.                    *)
(***************************************************************************)
EXTENDS BlockPipeline, SequenceTheorems, FiniteSetTheorems, WellFoundedInduction, TLAPS
USE BlockAssumption

-----------------------------------------------------------------------------
(* Numbers: least and greatest elements, and what SumLen adds up to.       *)

\* The least element of a set of naturals: what stands in for induction here.
LEMMA LeastNat ==
  ASSUME NEW T \in SUBSET Nat, T # {}
  PROVE  \E m \in T : \A k \in T : m <= k
<1>1. PICK R : R = {ss \in Nat \X Nat : ss[1] < ss[2]}
  OBVIOUS
<1>2. IsWellFoundedOn(R, Nat)
  BY <1>1, NatLessThanWellFounded DEF OpToRel
<1>3. PICK m \in T : \A k \in T : ~(<<k, m>> \in R)
  BY <1>2, WFMin
<1>4. ASSUME NEW k \in T PROVE m <= k
  <2>1. k \in Nat /\ m \in Nat /\ ~(<<k, m>> \in R)
    BY <1>3
  <2>2. QED
    BY <1>1, <2>1
<1>5. QED
  BY <1>4

\* Min and Max, which the module defines by CHOOSE.
LEMMA MinIs ==
  ASSUME NEW S \in SUBSET Nat, S # {}
  PROVE  Min(S) \in S /\ \A y \in S : Min(S) <= y
BY LeastNat DEF Min

\* A bounded set has a greatest element, and it is Max.
LEMMA MaxIs ==
  ASSUME NEW S \in SUBSET Nat, S # {}, NEW n \in Nat, \A y \in S : y <= n
  PROVE  Max(S) \in S /\ \A y \in S : Max(S) >= y
<1>1. PICK T \in SUBSET Nat : T = {m \in Nat : \A y \in S : y <= m}
  OBVIOUS
<1>2. PICK m \in T : \A k \in T : m <= k
  BY <1>1, LeastNat
<1>3. m \in Nat /\ \A y \in S : y <= m
  BY <1>1, <1>2
<1>4. m \in S
  <2>1. SUFFICES ASSUME m \notin S PROVE FALSE
    OBVIOUS
  <2>2. \A y \in S : y \in Nat /\ y < m
    BY <1>3, <2>1
  <2>3. m - 1 \in Nat /\ \A y \in S : y <= m - 1
    <3>1. PICK y \in S : TRUE
      OBVIOUS
    <3>2. y \in Nat /\ y < m
      BY <2>2, <3>1
    <3>3. m - 1 \in Nat
      BY <1>3, <3>2
    <3>4. QED
      BY <1>3, <2>2, <3>3
  <2>4. m - 1 \in T
    BY <1>1, <2>3
  <2>5. QED
    BY <1>2, <1>3, <2>4
<1>5. \E x \in S : \A y \in S : x >= y
  BY <1>3, <1>4
<1>6. QED
  BY <1>5 DEF Max

\* Every request stands for as many cells as its block is long: SumLen counts
\* them, which needs no recursion.
Cells(reqs, s) == {c \in s \X Nat : c[2] < block_len(reqs[c[1]][1], reqs[c[1]][2])}

\* A block lies in its piece and is at most block_size long.
LEMMA BlockLen ==
  ASSUME NEW b \in AllBlocks
  PROVE  /\ b[1] \in Pieces /\ b[2] \in BlocksOf(b[1])
         /\ block_len(b[1], b[2]) \in 1..BlockSize
         /\ block_len(b[1], b[2]) <= PieceLen[b[1]] - b[2] * BlockSize
<1>1. PICK p \in Pieces : \E i \in BlocksOf(p) : b = <<p, i>>
  BY DEF AllBlocks
<1>2. PICK i \in BlocksOf(p) : b = <<p, i>>
  BY <1>1
<1>3. PieceLen[p] \in Nat \ {0} /\ BlockSize \in Nat \ {0}
  BY BlockAssumption
<1>4. i \in Nat /\ i <= num_blocks(p) - 1
  BY <1>2, <1>3 DEF BlocksOf, num_blocks
<1>5. num_blocks(p) * BlockSize <= PieceLen[p] + BlockSize - 1
  <2>1. \A a \in Nat, d \in Nat \ {0} : (a \div d) * d <= a
    OBVIOUS
  <2>2. QED
    BY <1>3, <2>1 DEF num_blocks
<1>6. (i + 1) * BlockSize <= num_blocks(p) * BlockSize
  <2>1. num_blocks(p) \in Nat
    BY <1>3 DEF num_blocks
  <2>2. \A x, y, d \in Nat : x <= y => x * d <= y * d
    OBVIOUS
  <2>3. QED
    BY <1>3, <1>4, <2>1, <2>2
<1>7. i * BlockSize < PieceLen[p]
  <2>1. \A x, d \in Nat : (x + 1) * d = x * d + d
    OBVIOUS
  <2>2. (i + 1) * BlockSize = i * BlockSize + BlockSize /\ i * BlockSize \in Nat
    BY <1>3, <1>4, <2>1
  <2>3. QED
    BY <1>3, <1>5, <1>6, <2>2 DEF num_blocks
<1>8. PICK r : r = PieceLen[p] - i * BlockSize
  OBVIOUS
<1>9. r \in Nat \ {0}
  BY <1>3, <1>4, <1>7, <1>8
<1>10. Min({r, BlockSize}) \in 1..BlockSize /\ Min({r, BlockSize}) <= r
  BY <1>3, <1>9, MinIs
<1>11. QED
  BY <1>2, <1>8, <1>10 DEF block_len
\* The units of a piece are counted from 0.
LEMMA Upto ==
  ASSUME NEW n \in Nat PROVE IsFiniteSet(0..n - 1) /\ Cardinality(0..n - 1) = n
<1>1. 0 \in Int /\ n - 1 \in Int
  OBVIOUS
<1>2. /\ IsFiniteSet(0..n - 1)
      /\ Cardinality(0..n - 1) = IF 0 > n - 1 THEN 0 ELSE n - 1 - 0 + 1
  BY <1>1, FS_Interval
<1>3. QED
  BY <1>2

\* One request more, one row of cells more.
LEMMA CellsGrow ==
  ASSUME NEW n \in Nat, NEW reqs \in [1..n -> AllBlocks], NEW s \in SUBSET (1..n), NEW x \in s,
         IsFiniteSet(Cells(reqs, s \ {x}))
  PROVE  /\ IsFiniteSet(Cells(reqs, s))
         /\ Cardinality(Cells(reqs, s))
              = Cardinality(Cells(reqs, s \ {x})) + block_len(reqs[x][1], reqs[x][2])
<1>1. PICK l : l = block_len(reqs[x][1], reqs[x][2])
  OBVIOUS
<1>2. l \in Nat
  BY <1>1, BlockLen, BlockAssumption
<1> DEFINE rowOf == {x} \X (0..l - 1)
<1>3. IsFiniteSet(rowOf) /\ Cardinality(rowOf) = l
  <2>1. IsFiniteSet({x}) /\ Cardinality({x}) = 1
    BY FS_Singleton
  <2>2. IsFiniteSet(0..l - 1) /\ Cardinality(0..l - 1) = l
    BY <1>2, Upto
  <2>3. IsFiniteSet(rowOf) /\ Cardinality(rowOf) = Cardinality({x}) * Cardinality(0..l - 1)
    BY <2>1, <2>2, FS_Product
  <2> HIDE DEF rowOf
  <2>4. QED
    BY <1>2, <2>1, <2>2, <2>3
<1>4. Cells(reqs, s) = Cells(reqs, s \ {x}) \cup rowOf
  <2>1. ASSUME NEW c \in Cells(reqs, s) PROVE c \in Cells(reqs, s \ {x}) \cup rowOf
    <3>1. c \in s \X Nat /\ c[2] < block_len(reqs[c[1]][1], reqs[c[1]][2])
      BY <2>1 DEF Cells
    <3>2. CASE c[1] = x
      <4>1. c[2] \in 0..l - 1
        BY <1>1, <1>2, <3>1, <3>2
      <4>2. QED
        BY <3>1, <3>2, <4>1
    <3>3. CASE c[1] # x
      BY <3>1, <3>3 DEF Cells
    <3>4. QED
      BY <3>2, <3>3
  <2>2. ASSUME NEW c \in rowOf PROVE c \in Cells(reqs, s)
    <3>1. c \in s \X Nat /\ c[1] = x /\ c[2] < l
      BY <1>2, <2>2
    <3>2. QED
      BY <1>1, <3>1 DEF Cells
  <2>3. Cells(reqs, s \ {x}) \subseteq Cells(reqs, s)
    BY DEF Cells
  <2>4. QED
    BY <2>1, <2>2, <2>3
<1>5. Cells(reqs, s \ {x}) \cap rowOf = {}
  BY DEF Cells
<1>6. Cardinality({}) = 0
  BY FS_EmptySet
<1>7. Cardinality(Cells(reqs, s \ {x})) \in Nat
  BY FS_CardinalityType
<1>8. PICK A, B : A = Cells(reqs, s \ {x}) /\ B = rowOf
  OBVIOUS
<1> HIDE DEF rowOf
<1>9. IsFiniteSet(A \cup B) /\ Cardinality(A \cup B) = Cardinality(A) + Cardinality(B) - Cardinality(A \cap B)
  BY <1>3, <1>8, FS_Union
<1>10. Cardinality(A \cap B) = 0 /\ Cardinality(B) = l /\ Cardinality(A) \in Nat
  BY <1>3, <1>5, <1>6, <1>7, <1>8
<1>11. Cardinality(A \cup B) = Cardinality(A) + l
  BY <1>2, <1>9, <1>10
<1>12. QED
  BY <1>1, <1>4, <1>8, <1>9, <1>11

\* The blocks of a batch never have more units than the batch has blocks times
\* block_size.
LEMMA CellsFit ==
  ASSUME NEW n \in Nat, NEW reqs \in [1..n -> AllBlocks], NEW s \in SUBSET (1..n)
  PROVE  IsFiniteSet(Cells(reqs, s)) /\ Cardinality(Cells(reqs, s)) <= n * BlockSize
<1> DEFINE all == (1..n) \X (0..BlockSize - 1)
<1>1. BlockSize \in Nat
  BY BlockAssumption
<1>2. IsFiniteSet(all) /\ Cardinality(all) = n * BlockSize
  <2>1. IsFiniteSet(1..n) /\ Cardinality(1..n) = n
    BY FS_Interval
  <2>2. IsFiniteSet(0..BlockSize - 1) /\ Cardinality(0..BlockSize - 1) = BlockSize
    BY <1>1, Upto
  <2>3. QED
    BY ZenonT(60), <2>1, <2>2, FS_Product
<1>3. ASSUME NEW c \in Cells(reqs, s) PROVE c \in all
  <2>1. /\ c[1] \in 1..n /\ c[2] \in Nat /\ c = <<c[1], c[2]>>
        /\ c[2] < block_len(reqs[c[1]][1], reqs[c[1]][2])
    <3>1. c \in s \X Nat /\ c[2] < block_len(reqs[c[1]][1], reqs[c[1]][2])
      BY <1>3 DEF Cells
    <3>2. c \in (1..n) \X Nat
      BY <3>1
    <3>3. QED
      BY <3>1, <3>2
  <2>2. block_len(reqs[c[1]][1], reqs[c[1]][2]) \in 1..BlockSize
    BY <2>1, BlockLen
  <2>3. c[2] \in 0..BlockSize - 1
    BY <1>1, <2>1, <2>2
  <2>4. QED
    BY <2>1, <2>3
<1> HIDE DEF all
<1>4. Cells(reqs, s) \in SUBSET all
  BY <1>3
<1>5. QED
  BY <1>2, <1>4, FS_Subset

\* SumLen is a fold over the request's positions, greatest first.
LEMMA FoldIs ==
  ASSUME NEW reqs
  PROVE  \E it : /\ it = CHOOSE g : g = [s \in SUBSET DOMAIN reqs |->
                                    IF s = {} THEN 0
                                    ELSE g[s \ {Max(s)}] + block_len(reqs[Max(s)][1], reqs[Max(s)][2])]
                 /\ SumLen(reqs) = it[DOMAIN reqs]
BY DEF SumLen, FoldLeft, MapThenFoldSet

\* SumLen, a fold, counts the units of the blocks of a batch.
LEMMA SumLenIs ==
  ASSUME NEW n \in Nat, NEW reqs \in [1..n -> AllBlocks]
  PROVE  SumLen(reqs) = Cardinality(Cells(reqs, 1..n))
<1> DEFINE Eq(g) == g = [s \in SUBSET (1..n) |->
                            IF s = {} THEN 0
                            ELSE g[s \ {Max(s)}] + block_len(reqs[Max(s)][1], reqs[Max(s)][2])]
           count == [s \in SUBSET (1..n) |-> Cardinality(Cells(reqs, s))]
<1>1. ASSUME NEW s \in SUBSET (1..n), s # {} PROVE Max(s) \in s
  <2>1. s \in SUBSET Nat /\ \A y \in s : y <= n
    OBVIOUS
  <2>2. QED
    BY <1>1, <2>1, MaxIs
<1>2. Cells(reqs, {}) = {}
  BY DEF Cells
<1>3. Cardinality({}) = 0
  BY FS_EmptySet
<1>4. ASSUME NEW s \in SUBSET (1..n), s # {}
      PROVE  Cardinality(Cells(reqs, s))
               = Cardinality(Cells(reqs, s \ {Max(s)})) + block_len(reqs[Max(s)][1], reqs[Max(s)][2])
  <2>1. Max(s) \in s /\ s \ {Max(s)} \in SUBSET (1..n)
    BY <1>1, <1>4
  <2>2. IsFiniteSet(Cells(reqs, s \ {Max(s)}))
    BY <2>1, CellsFit
  <2>3. QED
    BY <2>1, <2>2, CellsGrow
<1>5. Eq(count)
  <2>1. ASSUME NEW s \in SUBSET (1..n)
        PROVE  count[s] = IF s = {} THEN 0
                          ELSE count[s \ {Max(s)}] + block_len(reqs[Max(s)][1], reqs[Max(s)][2])
    BY <1>2, <1>3, <1>4
  <2>2. QED
    BY <2>1
<1>6. PICK it : it = (CHOOSE g : Eq(g)) /\ SumLen(reqs) = it[1..n]
  BY FoldIs
<1>7. Eq(it)
  BY <1>5, <1>6
<1>8. \A s \in SUBSET (1..n) : it[s] = count[s]
  <2> DEFINE Bad == {k \in Nat : \E s \in SUBSET (1..n) : Cardinality(s) = k /\ it[s] # count[s]}
  <2>1. SUFFICES ASSUME NEW z \in SUBSET (1..n), it[z] # count[z] PROVE FALSE
    OBVIOUS
  <2>2. ASSUME NEW s \in SUBSET (1..n) PROVE IsFiniteSet(s) /\ Cardinality(s) \in Nat
    <3>1. IsFiniteSet(1..n)
      BY FS_Interval
    <3>2. QED
      BY <3>1, FS_Subset, FS_CardinalityType
  <2>3. Bad \in SUBSET Nat /\ Cardinality(z) \in Bad
    BY <2>1, <2>2
  <2>4. PICK k \in Bad : \A m \in Bad : k <= m
    <3> HIDE DEF Bad
    <3>1. QED
      BY <2>3, LeastNat
  <2>5. PICK s \in SUBSET (1..n) : Cardinality(s) = k /\ it[s] # count[s]
    BY <2>4
  <2>6. s # {}
    <3>1. it[{}] = 0 /\ count[{}] = 0
      BY <1>2, <1>3, <1>7
    <3>2. QED
      BY <2>5, <3>1
  <2>7. PICK r \in SUBSET (1..n) : r = s \ {Max(s)} /\ Max(s) \in s
    BY ZenonT(60), <1>1, <2>6
  <2>8. Cardinality(r) = k - 1 /\ Cardinality(r) \in Nat /\ k \in Nat
    BY <2>2, <2>3, <2>4, <2>5, <2>7, FS_RemoveElement
  <2>9. it[r] = count[r]
    <3>1. k - 1 \in Nat /\ ~(k <= k - 1)
      BY <2>8
    <3>2. k - 1 \notin Bad
      BY <2>4, <3>1
    <3>3. QED
      BY <2>8, <3>1, <3>2
  <2>10. it[s] = it[r] + block_len(reqs[Max(s)][1], reqs[Max(s)][2])
    BY <1>7, <2>6, <2>7
  <2>11. count[s] = count[r] + block_len(reqs[Max(s)][1], reqs[Max(s)][2])
    BY <1>4, <2>6, <2>7
  <2>12. QED
    BY <2>5, <2>9, <2>10, <2>11
<1>9. QED
  BY <1>6, <1>8

\* What a batch of requests adds up to: at most a whole block for each.
LEMMA SumLenFits ==
  ASSUME NEW reqs \in Seq(AllBlocks)
  PROVE  SumLen(reqs) \in Nat /\ SumLen(reqs) <= Len(reqs) * BlockSize
<1>1. Len(reqs) \in Nat /\ reqs \in [1..Len(reqs) -> AllBlocks]
  OBVIOUS
<1>2. SumLen(reqs) = Cardinality(Cells(reqs, 1..Len(reqs)))
  BY <1>1, SumLenIs
<1>3. QED
  BY <1>1, <1>2, CellsFit, FS_CardinalityType
-----------------------------------------------------------------------------
(* Types.                                                                  *)

\* A finite set of naturals has a greatest element.
LEMMA FiniteMax ==
  ASSUME NEW S \in SUBSET Nat, IsFiniteSet(S), S # {}
  PROVE  Max(S) \in S /\ \A y \in S : Max(S) >= y
<1>1. PICK n \in Nat : ExistsBijection(1..n, S)
  BY FS_CardinalityType
<1>2. PICK f \in [1..n -> S] : \A y \in S : \E k \in 1..n : f[k] = y
  BY <1>1 DEF ExistsBijection, Bijection, Surjection
<1>a. \A i \in 1..n : f[i] \in Nat
  BY <1>2
<1> DEFINE Bad == {k \in Nat : k <= n /\ ~\E m \in Nat : \A i \in 1..k : f[i] <= m}
<1>3. Bad = {}
  <2>1. SUFFICES ASSUME Bad # {} PROVE FALSE
    OBVIOUS
  <2>2. PICK k \in Bad : \A i \in Bad : k <= i
    <3> HIDE DEF Bad
    <3>1. Bad \in SUBSET Nat
      BY DEF Bad
    <3>2. QED
      BY <2>1, <3>1, LeastNat
  <2>3. k \in Nat /\ k <= n /\ k # 0
    <3>1. \A i \in 1..0 : f[i] <= 0
      OBVIOUS
    <3>2. QED
      BY <2>2, <3>1
  <2>4. k - 1 \in Nat /\ ~(k <= k - 1) /\ k - 1 <= n
    BY <2>3
  <2>5. k - 1 \notin Bad
    BY <2>2, <2>4
  <2>6. PICK m \in Nat : \A i \in 1..k - 1 : f[i] <= m
    BY <2>4, <2>5
  <2>7. f[k] \in Nat
    BY <1>a, <2>3
  <2>8. \A i \in 1..k : f[i] <= m + f[k]
    <3>1. \A i \in 1..k - 1 : f[i] \in Nat /\ f[i] <= m
      BY <1>a, <2>3, <2>6
    <3>2. ASSUME NEW i \in 1..k PROVE f[i] <= m + f[k]
      <4>1. CASE i = k
        BY <2>7, <4>1
      <4>2. CASE i # k
        <5>1. i \in 1..k - 1
          BY <2>3, <4>2
        <5>2. QED
          BY <2>7, <3>1, <5>1
      <4>3. QED
        BY <4>1, <4>2
    <3>3. QED
      BY <3>2
  <2>9. m + f[k] \in Nat
    BY <2>7
  <2>10. QED
    BY <2>2, <2>8, <2>9
<1>4. PICK m \in Nat : \A i \in 1..n : f[i] <= m
  <2>1. n \notin Bad
    BY <1>3
  <2>2. QED
    BY <2>1
<1>5. \A y \in S : y <= m
  BY <1>2, <1>4
<1>6. QED
  BY <1>5, MaxIs

Top == Max(Pipelines)
\* Every pipeline depth is below Top.
LEMMA TopIs == Top \in Nat \ {0} /\ \A n \in Pipelines : n \in Nat /\ n <= Top
<1>1. Pipelines \in SUBSET Nat /\ Pipelines # {} /\ IsFiniteSet(Pipelines)
  BY BlockAssumption
<1>2. Max(Pipelines) \in Pipelines /\ \A n \in Pipelines : Max(Pipelines) >= n
  BY <1>1, FiniteMax
<1>3. QED
  BY <1>2, BlockAssumption DEF Top

\* The messages on the wires, the slots of the staging pool, and an issue of requests.
ToMsg == [kind : {"request", "cancel"}, block : AllBlocks]
FromMsg == [kind : {"piece"}, piece : Pieces, begin : Nat, len : Nat]
    \cup [kind : {"reject"}, block : AllBlocks]
    \cup [kind : {"choke", "unchoke"}]
    \cup [kind : {"allow"}, piece : Pieces]
AnySlot == [st : {"none", "assembling", "hashing"}, have : SUBSET Nat, requested : SUBSET Nat,
            written : SUBSET Nat]
Issues == [limit : 0..Top, paid : Nat, reqs : Seq(AllBlocks), starting : SUBSET Pieces,
           stop : BOOLEAN]

Wires ==
    /\ toRemote \in Seq(ToMsg) /\ fromRemote \in Seq(FromMsg)
    /\ remoteQ \subseteq AllBlocks /\ remoteChokes \in BOOLEAN /\ remoteAllows \subseteq Pieces
    /\ dropped \subseteq AllBlocks /\ crossed \in BOOLEAN
Flags ==
    /\ mode \in Modes /\ has \subseteq Pieces /\ taken \subseteq Pieces /\ mine \subseteq Pieces
    /\ choking \in BOOLEAN /\ allowed \subseteq Pieces /\ endgame \in BOOLEAN
    /\ pipeline \in Pipelines /\ over \in BOOLEAN /\ limited \in BOOLEAN /\ trouble \in 0..MaxTrouble
Slots ==
    /\ slot \in [Pieces -> AnySlot]
    /\ \A p \in Pieces : slot[p] \in Slot(p)

\* The numbers the model computes of a piece.
LEMMA Sizes ==
  ASSUME NEW p \in Pieces
  PROVE  /\ num_blocks(p) \in Nat /\ BlocksOf(p) \in SUBSET Nat /\ Units(p) \in SUBSET Nat
         /\ PieceLen[p] \in Nat \ {0} /\ BlockSize \in Nat \ {0}
BY BlockAssumption DEF num_blocks, BlocksOf, Units

\* There are finitely many blocks.
LEMMA FiniteBlocks == IsFiniteSet(AllBlocks)
<1> DEFINE f == [p \in Pieces |-> {p} \X BlocksOf(p)]
           S == {f[p] : p \in Pieces}
<1>1. ASSUME NEW p \in Pieces PROVE IsFiniteSet(f[p])
  <2>1. IsFiniteSet({p}) /\ IsFiniteSet(BlocksOf(p))
    BY Sizes, FS_Singleton, Upto DEF BlocksOf
  <2>2. QED
    BY <2>1, FS_Product
<1>2. IsFiniteSet(S)
  <2>1. f \in Surjection(Pieces, S)
    BY DEF Surjection
  <2> HIDE DEF f, S
  <2>2. QED
    BY <2>1, BlockAssumption, FS_Surjection
<1>3. AllBlocks = UNION S
  <2>1. \A p \in Pieces : {<<p, i>> : i \in BlocksOf(p)} = {p} \X BlocksOf(p)
    OBVIOUS
  <2>2. QED
    BY <2>1 DEF AllBlocks
<1>4. \A T \in S : IsFiniteSet(T)
  BY <1>1
<1> HIDE DEF f, S
<1>5. QED
  BY <1>2, <1>3, <1>4, FS_UNION

\* A block is a piece and an index.
LEMMA IsBlock ==
  /\ \A p \in Pieces : \A i \in BlocksOf(p) : <<p, i>> \in AllBlocks
  /\ \A b \in AllBlocks : b[1] \in Pieces /\ b[2] \in BlocksOf(b[1]) /\ b = <<b[1], b[2]>>
BY DEF AllBlocks

\* What is asked for and not yet here.
LEMMA Outstanding ==
  ASSUME Slots
  PROVE  /\ outstanding_list \subseteq AllBlocks /\ IsFiniteSet(outstanding_list)
         /\ total_outstanding \in Nat
         /\ \A b \in AllBlocks : b \in outstanding_list <=>
                /\ slot[b[1]].st = "assembling"
                /\ b[2] \in slot[b[1]].requested /\ b[2] \notin slot[b[1]].have
<1>1. \A p \in Pieces : outstanding_blocks(p) \subseteq AllBlocks
  BY IsBlock DEF outstanding_blocks, Slots, Slot
<1>2. outstanding_list \subseteq AllBlocks
  BY <1>1 DEF outstanding_list
<1>3. IsFiniteSet(outstanding_list) /\ total_outstanding \in Nat
  BY <1>2, FiniteBlocks, FS_Subset, FS_CardinalityType DEF total_outstanding
<1>4. ASSUME NEW b \in AllBlocks
      PROVE  b \in outstanding_list <=>
                /\ slot[b[1]].st = "assembling"
                /\ b[2] \in slot[b[1]].requested /\ b[2] \notin slot[b[1]].have
  <2>1. PICK p \in Pieces : \E i \in BlocksOf(p) : b = <<p, i>>
    BY IsBlock
  <2>a. PICK i \in BlocksOf(p) : b = <<p, i>>
    BY <2>1
  <2>2. \A q \in Pieces : b \in outstanding_blocks(q) => q = p
    BY <2>a DEF outstanding_blocks
  <2>3. b \in outstanding_list <=> b \in outstanding_blocks(p)
    BY <2>2 DEF outstanding_list
  <2>4. b \in outstanding_blocks(p) <=> p \in Staged /\ i \in slot[p].requested \ slot[p].have
    BY <2>a DEF outstanding_blocks
  <2>5. QED
    BY <2>a, <2>3, <2>4 DEF Staged
<1>5. QED
  BY <1>2, <1>3, <1>4

\* SetToSeq lists a finite set.
LEMMA ListedOnce ==
  ASSUME NEW S, IsFiniteSet(S)
  PROVE  /\ SetToSeq(S) \in [1..Cardinality(S) -> S]
         /\ \A e \in S : \E k \in 1..Cardinality(S) : SetToSeq(S)[k] = e
         /\ \A j, k \in 1..Cardinality(S) : SetToSeq(S)[j] = SetToSeq(S)[k] => j = k
         /\ Cardinality(S) \in Nat
<1>1. PICK f : f \in Bijection(1..Cardinality(S), S)
  BY FS_CardinalityType DEF ExistsBijection
<1>2. f \in [1..Cardinality(S) -> S] /\ IsInjective(f)
  BY <1>1 DEF Bijection, Injection, IsInjective
<1>3. SetToSeq(S) \in [1..Cardinality(S) -> S] /\ IsInjective(SetToSeq(S))
  BY <1>2 DEF SetToSeq
<1>4. SetToSeq(S) \in Injection(1..Cardinality(S), S)
  BY <1>3 DEF Injection, IsInjective
<1>5. Cardinality(S) \in Nat /\ Cardinality(1..Cardinality(S)) = Cardinality(S)
  BY FS_CardinalityType, FS_Interval
<1>6. SetToSeq(S) \in Surjection(1..Cardinality(S), S)
  BY <1>4, <1>5, FS_Injection
<1>7. QED
  BY <1>3, <1>4, <1>5, <1>6 DEF Surjection, Injection, IsInjective
-----------------------------------------------------------------------------
(* The wires.                                                              *)

\* Everything the two sides write is a message.
LEMMA Messages ==
  /\ \A b \in AllBlocks : Req(b) \in ToMsg /\ Can(b) \in ToMsg /\ Rej(b) \in FromMsg
  /\ \A b \in AllBlocks : Whole(b) \in FromMsg
  /\ Note("choke") \in FromMsg /\ Note("unchoke") \in FromMsg
  /\ \A p \in Pieces : Allow(p) \in FromMsg
  /\ \A p \in Pieces, begin, len \in Nat : Data(p, begin, len) \in FromMsg
<1>1. ASSUME NEW b \in AllBlocks PROVE Whole(b) \in FromMsg
  <2>1. b[1] \in Pieces /\ b[2] \in Nat /\ block_len(b[1], b[2]) \in Nat /\ BlockSize \in Nat
    BY BlockLen, IsBlock, Sizes
  <2>2. b[2] * BlockSize \in Nat
    BY <2>1
  <2>3. QED
    BY <2>1, <2>2 DEF Whole, Data, FromMsg
<1>2. QED
  BY <1>1 DEF Req, Can, Rej, Note, Allow, Data, ToMsg, FromMsg

\* One message for each block of a set.
LEMMA Batches ==
  ASSUME NEW B \in SUBSET AllBlocks
  PROVE  /\ [k \in 1..Cardinality(B) |-> Rej(SetToSeq(B)[k])] \in Seq(FromMsg)
         /\ [k \in 1..Cardinality(B) |-> Can(SetToSeq(B)[k])] \in Seq(ToMsg)
         /\ SetToSeq(B) \in Seq(AllBlocks) /\ Len(SetToSeq(B)) = Cardinality(B)
<1>1. IsFiniteSet(B)
  BY FiniteBlocks, FS_Subset
<1>2. SetToSeq(B) \in [1..Cardinality(B) -> B] /\ Cardinality(B) \in Nat
  BY <1>1, ListedOnce
<1>3. \A k \in 1..Cardinality(B) : SetToSeq(B)[k] \in AllBlocks
  BY <1>2
<1>4. QED
  BY SMTT(20), <1>2, <1>3, Messages

\* Sequences of messages stay sequences of messages.
LEMMA SeqFacts ==
  ASSUME NEW T, NEW s \in Seq(T)
  PROVE  /\ \A e \in T : Append(s, e) \in Seq(T)
         /\ \A t \in Seq(T) : s \o t \in Seq(T)
         /\ s # <<>> => Head(s) \in T /\ Tail(s) \in Seq(T)
         /\ \A k \in 1..Len(s) : s[k] \in T
<1>1. s # <<>> => Head(s) \in T /\ Tail(s) \in Seq(T)
  BY HeadTailProperties
<1>2. QED
  BY <1>1

\* Every step leaves messages on the wires: what is appended are Requests,
\* Cancels and answers.
LEMMA WiresStep == Slots /\ issue.reqs \in Seq(AllBlocks) /\ Wires /\ [Next]_vars => Wires'
<1> SUFFICES ASSUME Slots, issue.reqs \in Seq(AllBlocks), Wires, [Next]_vars PROVE Wires'
  OBVIOUS
<1>1. ASSUME UNCHANGED <<toRemote, fromRemote, remoteQ, remoteChokes, remoteAllows, dropped, crossed>>
      PROVE  Wires'
  BY <1>1 DEF Wires
<1>2. CASE BeginIssue \/ OpenPiece \/ AbortStart \/ set_caps \/ Spend \/ Refill
  BY <1>1, <1>2 DEF BeginIssue, OpenPiece, AbortStart, set_caps, Spend, Refill, IssueUnchanged,
                    OursUnchanged, remoteVars, wires, history
<1>3. ASSUME NEW p \in Pieces, NextRequest(p) \/ StartPiece(p) PROVE Wires'
  BY <1>3 DEF NextRequest, StartPiece, IssueUnchanged, remoteVars, wires, Wires
<1>4. CASE EndIssue
  <2>1. [k \in 1..Len(issue.reqs) |-> Req(issue.reqs[k])] \in Seq(ToMsg)
    BY Messages
  <2>2. QED
    BY <1>4, <2>1 DEF EndIssue, Wires, remoteVars, history
<1>5. CASE ReceiveNext
  <2>1. PICK k \in {"choke", "unchoke", "allow", "reject", "piece"} : Receives(k)
    BY <1>5 DEF ReceiveNext, OnChoke, OnUnchoke, OnAllowedFast, OnReject, OnPiece
  <2>2. Tail(fromRemote) \in Seq(FromMsg)
    BY <2>1, SeqFacts DEF Receives, Wires
  <2>3. QED
    BY <2>1, <2>2 DEF Receives, Wires, remoteVars, history
<1>6. ASSUME NEW p \in Pieces, NEW ok \in BOOLEAN, HashOutcome(p, ok) \/ RivalEnds(p, ok) PROVE Wires'
  BY <1>1, <1>6 DEF HashOutcome, RivalEnds, wires, remoteVars, history
<1>7. toRemote \o Cancels \in Seq(ToMsg)
  <2>1. outstanding_list \in SUBSET AllBlocks
    BY Outstanding
  <2>2. Cancels \in Seq(ToMsg)
    BY <2>1, Batches DEF Cancels, total_outstanding
  <2>3. QED
    BY <2>2 DEF Wires
<1>8. (crossed \/ \E b \in outstanding_list : Live(b)) \in BOOLEAN
  OBVIOUS
<1>9. CASE EnterEndgame \/ \E early \in BOOLEAN : Stall(early)
  BY <1>7, <1>8, <1>9 DEF EnterEndgame, Stall, TakeBack, SessionUnchanged, remoteVars, Wires
<1>10. CASE LeechComplete \/ (\E early \in BOOLEAN : IdleClose(early)) \/ \E n \in Pipelines : AdaptPipeline(n)
  BY <1>7, <1>10 DEF LeechComplete, IdleClose, AdaptPipeline, SessionUnchanged, remoteVars, history, Wires
<1>11. ASSUME NEW p \in Pieces, RivalClaims(p) \/ RemoteAllowsFast(p) PROVE Wires'
  <2>1. CASE RivalClaims(p)
    BY <1>1, <2>1 DEF RivalClaims, wires, remoteVars, history
  <2>2. CASE RemoteAllowsFast(p)
    <3>1. Append(fromRemote, Allow(p)) \in Seq(FromMsg)
      BY Messages, SeqFacts DEF Wires
    <3>2. QED
      BY <2>2, <3>1 DEF RemoteAllowsFast, RemoteUnchanged, Wires
  <2>3. QED
    BY <1>11, <2>1, <2>2
<1>12. CASE RemoteReads
  <2>2. Tail(toRemote) \in Seq(ToMsg) /\ Head(toRemote) \in ToMsg
    BY <1>12, SeqFacts DEF RemoteReads, Wires
  <2>1. PICK b \in AllBlocks : b = Head(toRemote).block
    BY <2>2 DEF ToMsg
  <2>3. fromRemote' \in Seq(FromMsg) /\ dropped' \subseteq AllBlocks
    <3>1. CASE UNCHANGED <<fromRemote, dropped>>
      BY <3>1 DEF Wires
    <3>2. CASE Discard({b} \ remoteQ)
      <4>1. [k \in 1..Cardinality({b} \ remoteQ) |-> Rej(SetToSeq({b} \ remoteQ)[k])] \in Seq(FromMsg)
        BY Batches
      <4>2. fromRemote' \in Seq(FromMsg)
        <5> HIDE DEF FromMsg
        <5>1. CASE mode.fast
          <6> DEFINE R == [k \in 1..Cardinality({b} \ remoteQ) |-> Rej(SetToSeq({b} \ remoteQ)[k])]
          <6>1. fromRemote' = fromRemote \o R
            BY <3>2, <5>1 DEF Discard
          <6>2. R \in Seq(FromMsg) /\ fromRemote \in Seq(FromMsg)
            BY <4>1 DEF Wires
          <6> HIDE DEF R
          <6>3. QED
            BY <6>1, <6>2
        <5>2. CASE ~mode.fast
          BY <3>2, <5>2 DEF Discard, Wires
        <5>3. QED
          BY <5>1, <5>2
      <4>3. QED
        BY <3>2, <4>2 DEF Discard, Wires
    <3>3. QED
      BY <1>12, <2>1, <3>1, <3>2 DEF RemoteReads
  <2>4. remoteQ' \subseteq AllBlocks
    BY <1>12, <2>1 DEF RemoteReads, Wires
  <2>5. QED
    BY <1>12, <2>2, <2>3, <2>4 DEF RemoteReads, RemoteUnchanged, Wires
<1>13. CASE RemoteUnchokes
  <2>1. Append(fromRemote, Note("unchoke")) \in Seq(FromMsg)
    BY Messages, SeqFacts DEF Wires
  <2>2. QED
    BY <1>13, <2>1 DEF RemoteUnchokes, RemoteUnchanged, Wires
<1>14. ASSUME NEW b \in AllBlocks, RemoteServes(b) \/ RemoteDrops(b) PROVE Wires'
  <2>1. CASE RemoteServes(b)
    <3>1. Append(fromRemote, Whole(b)) \in Seq(FromMsg)
      BY Messages, SeqFacts DEF Wires
    <3>2. QED
      BY <2>1, <3>1 DEF RemoteServes, RemoteUnchanged, Wires
  <2>2. CASE RemoteDrops(b)
    BY <2>2 DEF RemoteDrops, RemoteUnchanged, wires, Wires
  <2>3. QED
    BY <1>14, <2>1, <2>2
<1>15. CASE RemoteChokes
  <2> DEFINE gone == {b \in remoteQ : b[1] \notin remoteAllows}
             rejects == IF mode.fast THEN SetToSeq(gone) ELSE <<>>
  <2>1. gone \in SUBSET AllBlocks
    BY DEF Wires
  <2>2. rejects \in Seq(AllBlocks)
    <3>1. SetToSeq(gone) \in Seq(AllBlocks)
      <4> HIDE DEF gone
      <4>1. QED
        BY <2>1, Batches
    <3>2. QED
      BY <3>1
  <2>3. fromRemote' = fromRemote \o <<Note("choke")>> \o [k \in 1..Len(rejects) |-> Rej(rejects[k])]
    BY <1>15 DEF RemoteChokes
  <2>4. remoteQ' \subseteq AllBlocks /\ dropped' \subseteq AllBlocks
    BY <1>15, <2>1 DEF RemoteChokes, Wires
  <2> HIDE DEF gone, rejects
  <2>5. [k \in 1..Len(rejects) |-> Rej(rejects[k])] \in Seq(FromMsg)
    BY <2>2, Messages
  <2>6. fromRemote' \in Seq(FromMsg)
    BY <2>3, <2>5, Messages DEF Wires
  <2>7. QED
    BY <1>15, <2>4, <2>6 DEF RemoteChokes, RemoteUnchanged, Wires
<1>16. ASSUME NEW p \in Pieces, NEW begin \in 0..BlockSize, NEW len \in 1..2 * BlockSize,
              RemoteInvents(p, begin, len)
       PROVE  Wires'
  <2>1. begin \in Nat /\ len \in Nat
    BY Sizes
  <2>2. Data(p, begin, len) \in FromMsg
    BY <2>1, Messages
  <2>3. QED
    BY <1>16, <2>2 DEF RemoteInvents, RemoteUnchanged, OursUnchanged, remoteVars, Wires
<1>17. CASE UNCHANGED vars
  BY <1>1, <1>17 DEF vars
<1>18. QED
  BY <1>2, <1>3, <1>4, <1>5, <1>6, <1>9, <1>10, <1>11, <1>12, <1>13, <1>14, <1>15, <1>16, <1>17
  DEF Next, IssueNext, RemoteNext
-----------------------------------------------------------------------------
(* What lies in the buffers.                                               *)

\* Every bit in have stands for bytes that were written, and only full pieces are hashed.
Sound(p, r) ==
    /\ r \in AnySlot /\ r \in Slot(p)
    /\ \A i \in r.have : BlockUnits(p, i) \subseteq r.written
    /\ r.st = "hashing" => r.have = BlocksOf(p)
SlotInv == slot \in [Pieces -> AnySlot] /\ \A p \in Pieces : Sound(p, slot[p])

\* A slot of one piece is a slot.
LEMMA InAnySlot == \A p \in Pieces : \A r \in Slot(p) : r \in AnySlot
BY Sizes DEF Slot, AnySlot

\* A slot stays sound when blocks are marked or unmarked, and when bytes come
\* in: the bits of a write (mark_range_have) are those it covers whole.
LEMMA SlotMoves ==
  ASSUME NEW p \in Pieces
  PROVE  /\ Sound(p, NoSlot) /\ Sound(p, Fresh)
         /\ \A r, D : Sound(p, r) /\ D \subseteq BlocksOf(p) => Sound(p, [r EXCEPT !.requested = D])
         /\ \A r : \A D \in SUBSET BlocksOf(p) : \A W \in SUBSET Units(p) :
                Sound(p, r) /\ (\A i \in D : BlockUnits(p, i) \subseteq W)
                => LET s == [r EXCEPT !.have = @ \cup D, !.written = @ \cup W]
                   IN  /\ r.st # "hashing" => Sound(p, s)
                       /\ s.have = BlocksOf(p) => Sound(p, [s EXCEPT !.st = "hashing"])
<1>1. Sound(p, NoSlot) /\ Sound(p, Fresh)
  BY DEF Sound, NoSlot, Fresh, AnySlot, Slot
<1>2. ASSUME NEW r, NEW D, Sound(p, r), D \subseteq BlocksOf(p)
      PROVE  Sound(p, [r EXCEPT !.requested = D])
  <2>1. [r EXCEPT !.requested = D] \in Slot(p)
    BY <1>2 DEF Sound, Slot
  <2>2. r \in AnySlot
    BY <1>2 DEF Sound
  <2>3. /\ [r EXCEPT !.requested = D].have = r.have /\ [r EXCEPT !.requested = D].written = r.written
        /\ [r EXCEPT !.requested = D].st = r.st
    BY <2>2 DEF AnySlot
  <2>4. QED
    BY <1>2, <2>1, <2>3, InAnySlot DEF Sound
<1>3. ASSUME NEW r, NEW D \in SUBSET BlocksOf(p), NEW W \in SUBSET Units(p), Sound(p, r),
             \A i \in D : BlockUnits(p, i) \subseteq W
      PROVE  LET s == [r EXCEPT !.have = @ \cup D, !.written = @ \cup W]
             IN  /\ r.st # "hashing" => Sound(p, s)
                 /\ s.have = BlocksOf(p) => Sound(p, [s EXCEPT !.st = "hashing"])
  <2> DEFINE s == [r EXCEPT !.have = @ \cup D, !.written = @ \cup W]
             t == [s EXCEPT !.st = "hashing"]
  <2>1. r \in Slot(p)
    BY <1>3 DEF Sound
  <2>2. s \in Slot(p) /\ t \in Slot(p)
    BY <2>1 DEF Slot
  <2>3. /\ s.have = r.have \cup D /\ s.written = r.written \cup W /\ s.st = r.st
        /\ t.have = r.have \cup D /\ t.written = r.written \cup W
    BY <2>1 DEF Slot
  <2>4. \A i \in r.have \cup D : BlockUnits(p, i) \subseteq r.written \cup W
    BY <1>3 DEF Sound
  <2> HIDE DEF s, t
  <2>5. r.st # "hashing" => Sound(p, s)
    BY <2>2, <2>3, <2>4, InAnySlot DEF Sound
  <2>6. s.have = BlocksOf(p) => Sound(p, t)
    BY <2>2, <2>3, <2>4, InAnySlot DEF Sound
  <2>7. QED
    BY <2>5, <2>6 DEF s, t
<1>4. QED
  BY <1>1, <1>2, <1>3

\* requeue_timed_out and the ways to empty the slots.
LEMMA SlotSweeps ==
  ASSUME SlotInv
  PROVE  /\ requeue_timed_out \in [Pieces -> AnySlot]
         /\ \A p \in Pieces : Sound(p, requeue_timed_out[p])
<1>1. ASSUME NEW p \in Pieces PROVE Sound(p, requeue_timed_out[p])
  <2>1. Sound(p, slot[p]) /\ slot[p] \in Slot(p)
    BY DEF SlotInv, Sound
  <2>2. slot[p].requested \cap slot[p].have \subseteq BlocksOf(p)
    BY <2>1 DEF Slot
  <2>3. Sound(p, [slot[p] EXCEPT !.requested = slot[p].requested \cap slot[p].have])
    BY <2>1, <2>2, SlotMoves
  <2>4. QED
    BY <2>1, <2>3 DEF requeue_timed_out
<1>2. QED
  BY <1>1 DEF requeue_timed_out, Sound

\* One slot changes.
LEMMA SlotSet ==
  ASSUME SlotInv, NEW p \in Pieces, NEW r, Sound(p, r), slot' = [slot EXCEPT ![p] = r]
  PROVE  SlotInv'
<1>1. ASSUME NEW q \in Pieces PROVE slot'[q] = IF q = p THEN r ELSE slot[q]
  BY DEF SlotInv
<1>2. slot' \in [Pieces -> AnySlot]
  BY DEF SlotInv, Sound
<1>3. ASSUME NEW q \in Pieces PROVE Sound(q, slot'[q])
  <2>1. CASE q = p
    BY <1>1, <2>1
  <2>2. CASE q # p
    BY <1>1, <2>2 DEF SlotInv
  <2>3. QED
    BY <2>1, <2>2
<1>4. QED
  BY <1>2, <1>3 DEF SlotInv

\* Sound slots, however they were chosen.
LEMMA SlotFill ==
  ASSUME NEW f, f \in [Pieces -> AnySlot], \A p \in Pieces : Sound(p, f[p]), slot' = f
  PROVE  SlotInv'
BY DEF SlotInv

\* The data of one message, when it is well formed.
LEMMA Ingested ==
  ASSUME SlotInv, NEW p \in Pieces, NEW begin \in Nat, NEW len \in Nat, slot[p].st = "assembling",
         ~Malformed(p, begin, len)
  PROVE  /\ Sound(p, Ingest(p, begin, len))
         /\ Ingest(p, begin, len).have = BlocksOf(p)
              => Sound(p, [Ingest(p, begin, len) EXCEPT !.st = "hashing"])
<1>1. Covers(p, begin, len) \in SUBSET BlocksOf(p)
  BY DEF Covers
<1>2. begin..begin + len - 1 \in SUBSET Units(p)
  <2>1. begin + len <= PieceLen[p] /\ PieceLen[p] \in Nat
    BY Sizes DEF Malformed
  <2>2. QED
    BY <2>1 DEF Units
<1>3. \A i \in Covers(p, begin, len) : BlockUnits(p, i) \subseteq begin..begin + len - 1
  BY DEF Covers
<1>4. Sound(p, slot[p])
  BY DEF SlotInv
<1>5. QED
  BY <1>1, <1>2, <1>3, <1>4, SlotMoves DEF Ingest

\* SlotInv is inductive.
LEMMA SlotStep == SlotInv /\ Wires /\ [Next]_vars => SlotInv'
<1> SUFFICES ASSUME SlotInv, Wires, [Next]_vars PROVE SlotInv'
  OBVIOUS
<1>0. ASSUME UNCHANGED slot PROVE SlotInv'
  BY <1>0 DEF SlotInv
<1>e. ASSUME NEW f \in {[p \in Pieces |-> NoSlot],
                        [p \in Pieces |-> IF p \in Staged THEN NoSlot ELSE slot[p]],
                        [p \in Pieces |-> IF p \in issue.starting THEN Fresh ELSE slot[p]]},
             slot' = f
      PROVE  SlotInv'
  <2>1. ASSUME NEW p \in Pieces PROVE Sound(p, f[p])
    <3>1. f[p] \in {NoSlot, Fresh, slot[p]}
      OBVIOUS
    <3>2. QED
      BY <3>1, SlotMoves DEF SlotInv
  <2>2. f \in [Pieces -> AnySlot]
    <3>1. \A p \in Pieces : f[p] \in AnySlot
      BY <2>1 DEF Sound
    <3>2. f = [p \in Pieces |-> f[p]]
      OBVIOUS
    <3>3. QED
      BY <3>1, <3>2
  <2>3. QED
    BY <1>e, <2>1, <2>2, SlotFill
<1>1. CASE BeginIssue \/ EndIssue \/ AbortStart \/ set_caps \/ Spend \/ Refill
  BY <1>0, <1>1 DEF BeginIssue, EndIssue, AbortStart, set_caps, Spend, Refill, OursUnchanged
<1>2. CASE OpenPiece
  BY <1>2, <1>e DEF OpenPiece
<1>3. ASSUME NEW p \in Pieces, NextRequest(p) PROVE SlotInv'
  <2>1. Unasked(p) \in SUBSET Nat /\ Unasked(p) # {} /\ Unasked(p) \subseteq BlocksOf(p)
    BY <1>3, Sizes DEF NextRequest, Askable, Unasked
  <2>2. Min(Unasked(p)) \in BlocksOf(p)
    BY <2>1, MinIs
  <2>3. Sound(p, slot[p]) /\ slot[p] \in Slot(p)
    BY DEF SlotInv, Sound
  <2>4. slot[p].requested \cup {Min(Unasked(p))} \subseteq BlocksOf(p)
    BY <2>2, <2>3 DEF Slot
  <2>5. Sound(p, [slot[p] EXCEPT !.requested = slot[p].requested \cup {Min(Unasked(p))}])
    BY <2>3, <2>4, SlotMoves
  <2>6. slot' = [slot EXCEPT ![p] = [slot[p] EXCEPT !.requested = slot[p].requested \cup {Min(Unasked(p))}]]
    BY <1>3 DEF NextRequest
  <2>7. QED
    BY <2>5, <2>6, SlotSet
<1>4. ASSUME NEW p \in Pieces, StartPiece(p) PROVE SlotInv'
  BY <1>0, <1>4 DEF StartPiece
<1>5. CASE OnChoke \/ OnUnchoke \/ OnAllowedFast
  BY <1>0, <1>5 DEF OnChoke, OnUnchoke, OnAllowedFast
<1>6. CASE OnReject
  <2>1. PICK b : b = Head(fromRemote).block
    OBVIOUS
  <2>2. CASE slot' = slot
    BY <1>0, <2>2
  <2>3. CASE b \in outstanding_list /\ slot' = [slot EXCEPT ![b[1]].requested = @ \ {b[2]}]
    <3>1. Slots
      BY DEF SlotInv, Slots, Sound
    <3>2. b[1] \in Pieces
      BY <2>3, <3>1, Outstanding, IsBlock
    <3>3. Sound(b[1], slot[b[1]]) /\ slot[b[1]] \in Slot(b[1])
      BY <3>2 DEF SlotInv, Sound
    <3>4. slot[b[1]].requested \ {b[2]} \subseteq BlocksOf(b[1])
      BY <3>3 DEF Slot
    <3>5. Sound(b[1], [slot[b[1]] EXCEPT !.requested = slot[b[1]].requested \ {b[2]}])
      BY <3>2, <3>3, <3>4, SlotMoves
    <3>6. slot' = [slot EXCEPT ![b[1]] = [slot[b[1]] EXCEPT !.requested = slot[b[1]].requested \ {b[2]}]]
      BY <2>3
    <3>7. QED
      BY <3>2, <3>5, <3>6, SlotSet
  <2>4. QED
    BY <1>6, <2>1, <2>2, <2>3 DEF OnReject
<1>7. CASE OnPiece
  <2>1. Head(fromRemote) \in FromMsg /\ Head(fromRemote).kind = "piece"
    BY <1>7, SeqFacts DEF OnPiece, Receives, Wires
  <2>2. PICK m \in [kind : {"piece"}, piece : Pieces, begin : Nat, len : Nat] : m = Head(fromRemote)
    BY <2>1 DEF FromMsg
  <2>3. PICK p \in Pieces, begin \in Nat, len \in Nat :
            p = m.piece /\ begin = m.begin /\ len = m.len
    BY <2>2
  <2>4. CASE slot' = slot
    BY <1>0, <2>4
  <2>5. CASE slot' = [q \in Pieces |-> NoSlot]
    BY <1>e, <2>5
  <2>6. CASE /\ p \in Staged /\ ~Malformed(p, begin, len)
             /\ slot' = [slot EXCEPT ![p] = IF Ingest(p, begin, len).have = BlocksOf(p)
                                            THEN [Ingest(p, begin, len) EXCEPT !.st = "hashing"]
                                            ELSE Ingest(p, begin, len)]
    <3>1. slot[p].st = "assembling"
      BY <2>6 DEF Staged
    <3>2. Sound(p, IF Ingest(p, begin, len).have = BlocksOf(p)
                   THEN [Ingest(p, begin, len) EXCEPT !.st = "hashing"]
                   ELSE Ingest(p, begin, len))
      BY <2>6, <3>1, Ingested
    <3>3. QED
      BY <2>6, <3>2, SlotSet
  <2>7. QED
    <3>1. IF ~downloading \/ p \in has \/ p \notin Staged
           THEN UNCHANGED <<slot, free, over>>
           ELSE IF Malformed(p, begin, len)
           THEN slot' = [q \in Pieces |-> NoSlot]
           ELSE slot' = [slot EXCEPT ![p] = IF Ingest(p, begin, len).have = BlocksOf(p)
                                            THEN [Ingest(p, begin, len) EXCEPT !.st = "hashing"]
                                            ELSE Ingest(p, begin, len)]
      BY <1>7, <2>2, <2>3 DEF OnPiece
    <3>2. QED
      BY <2>4, <2>5, <2>6, <3>1
<1>8. ASSUME NEW p \in Pieces, NEW ok \in BOOLEAN, HashOutcome(p, ok) \/ RivalEnds(p, ok) PROVE SlotInv'
  <2>1. CASE HashOutcome(p, ok)
    BY <2>1, SlotMoves, SlotSet DEF HashOutcome
  <2>2. CASE RivalEnds(p, ok)
    BY <1>0, <2>2 DEF RivalEnds, OursUnchanged
  <2>3. QED
    BY <1>8, <2>1, <2>2
<1>9. CASE EnterEndgame \/ \E early \in BOOLEAN : Stall(early)
  BY <1>9, SlotSweeps, SlotFill DEF EnterEndgame, Stall, TakeBack
<1>10. CASE LeechComplete \/ \E early \in BOOLEAN : IdleClose(early)
  BY <1>10, <1>e DEF LeechComplete, IdleClose
<1>11. CASE \E n \in Pipelines : AdaptPipeline(n)
  BY <1>0, <1>11 DEF AdaptPipeline
<1>12. ASSUME NEW p \in Pieces, RivalClaims(p) \/ RemoteAllowsFast(p) PROVE SlotInv'
  BY <1>0, <1>12 DEF RivalClaims, RemoteAllowsFast, RemoteUnchanged, OursUnchanged
<1>13. CASE RemoteReads \/ RemoteUnchokes \/ RemoteChokes
  BY <1>0, <1>13 DEF RemoteReads, RemoteUnchokes, RemoteChokes, RemoteUnchanged, OursUnchanged
<1>14. ASSUME NEW b \in AllBlocks, RemoteServes(b) \/ RemoteDrops(b) PROVE SlotInv'
  BY <1>0, <1>14 DEF RemoteServes, RemoteDrops, RemoteUnchanged, OursUnchanged
<1>15. ASSUME NEW p \in Pieces, NEW begin \in 0..BlockSize, NEW len \in 1..2 * BlockSize,
              RemoteInvents(p, begin, len)
       PROVE  SlotInv'
  BY <1>0, <1>15 DEF RemoteInvents, OursUnchanged
<1>16. CASE UNCHANGED vars
  BY <1>0, <1>16 DEF vars
<1>17. QED
  BY <1>1, <1>2, <1>3, <1>4, <1>5, <1>6, <1>7, <1>8, <1>9, <1>10, <1>11, <1>12, <1>13, <1>14, <1>15, <1>16
  DEF Next, IssueNext, ReceiveNext, RemoteNext
-----------------------------------------------------------------------------
(* One issue of requests.                                                  *)

\* In terms of one slot: asked for, and not yet here.
Asks(b) ==
    slot[b[1]].st = "assembling" /\ b[2] \in slot[b[1]].requested /\ b[2] \notin slot[b[1]].have

\* The blocks of an issue are different, outstanding, and at most as many as were granted.
IssueInv ==
    /\ issue \in Issues
    /\ over => issue = NoIssue
    /\ \A j, k \in 1..Len(issue.reqs) : issue.reqs[j] = issue.reqs[k] => j = k
    /\ \A k \in 1..Len(issue.reqs) : Asks(issue.reqs[k])
    /\ Len(issue.reqs) <= issue.limit
    /\ issue.paid > 0 => issue.limit * BlockSize <= issue.paid
    /\ \A p \in issue.starting : slot[p].st = "none" /\ \A q \in issue.starting : q = p

\* No issue is under way.
LEMMA NoIssueIs == NoIssue \in Issues /\ NoIssue.reqs = <<>> /\ NoIssue.starting = {} /\ NoIssue.limit = 0 /\ NoIssue.paid = 0
BY TopIs DEF NoIssue, Issues

\* The end of an issue leaves nothing to keep.
LEMMA IssueNone == issue' = NoIssue => IssueInv'
BY NoIssueIs DEF IssueInv

\* A step that touches neither the issue nor the slots.
LEMMA IssueCarry == IssueInv /\ UNCHANGED <<issue, slot, over>> => IssueInv'
BY DEF IssueInv, Asks

\* Whole blocks out of a number of bytes.
LEMMA DivFacts ==
  /\ \A a \in Nat, d \in Nat \ {0} : a \div d \in Nat /\ (a \div d) * d <= a
  /\ \A a, n \in Nat, d \in Nat \ {0} : a <= n * d => a \div d <= n
  /\ \A a, n \in Nat, d \in Nat \ {0} : a < (n + 1) * d => a \div d <= n
<1>1. \A a \in Nat, d \in Nat \ {0} : a \div d \in Nat /\ (a \div d) * d <= a
  OBVIOUS
<1>2. \A x, y \in Nat, d \in Nat \ {0} : x < y => x * d + d <= y * d
  <2>1. \A x, y, d \in Nat : x <= y => x * d <= y * d
    OBVIOUS
  <2>2. \A x, d \in Nat : (x + 1) * d = x * d + d
    OBVIOUS
  <2>3. ASSUME NEW x \in Nat, NEW y \in Nat, NEW d \in Nat \ {0}, x < y PROVE x * d + d <= y * d
    <3>1. (x + 1) * d <= y * d
      BY <2>1, <2>3
    <3>2. QED
      BY <2>2, <3>1
  <2>4. QED
    BY <2>3
<1>3. ASSUME NEW a \in Nat, NEW n \in Nat, NEW d \in Nat \ {0}, a < (n + 1) * d PROVE a \div d <= n
  <2>1. SUFFICES ASSUME n + 1 <= a \div d PROVE FALSE
    BY <1>1
  <2>2. (n + 1) * d <= (a \div d) * d
    <3>1. \A x, y, e \in Nat : x <= y => x * e <= y * e
      OBVIOUS
    <3>2. QED
      BY <1>1, <2>1, <3>1
  <2>3. (a \div d) * d <= a /\ (a \div d) * d \in Nat /\ (n + 1) * d \in Nat
    BY <1>1
  <2>4. QED
    BY <1>3, <2>2, <2>3
<1>4. ASSUME NEW a \in Nat, NEW n \in Nat, NEW d \in Nat \ {0}, a <= n * d PROVE a \div d <= n
  <2>1. \A x, e \in Nat : (x + 1) * e = x * e + e /\ x * e \in Nat
    OBVIOUS
  <2>2. a < (n + 1) * d
    BY <1>4, <2>1
  <2>3. QED
    BY <1>3, <2>2
<1>5. QED
  BY <1>1, <1>3, <1>4

\* What the limiter grants is whole blocks, and no more than it holds.
LEMMA GrantFits ==
  ASSUME pipeline \in Pipelines, tokens \in Nat
  PROVE  /\ Grant.limit \in 0..Top /\ Grant.paid \in 0..tokens
         /\ Grant.paid > 0 => Grant.limit * BlockSize <= Grant.paid
<1>1. pipeline \in Nat /\ pipeline <= Top /\ Top \in Nat /\ BlockSize \in Nat \ {0}
  BY TopIs, BlockAssumption
<1>2. pipeline * BlockSize \in Nat
  BY <1>1
<1>3. PICK pre : pre = Min({pipeline * BlockSize, tokens})
  OBVIOUS
<1>4. pre \in Nat /\ pre <= pipeline * BlockSize /\ pre <= tokens
  BY <1>2, <1>3, MinIs
<1>5. pre \div BlockSize \in Nat /\ (pre \div BlockSize) * BlockSize <= pre /\ pre \div BlockSize <= pipeline
  BY <1>1, <1>4, DivFacts
<1>6. CASE limited
  BY <1>1, <1>3, <1>4, <1>5, <1>6 DEF Grant
<1>7. CASE ~limited
  BY <1>1, <1>7 DEF Grant
<1>8. QED
  BY <1>6, <1>7

\* The blocks of an issue are all outstanding, so there are no more of them
\* than total_outstanding.
LEMMA NotMoreThanOutstanding ==
  ASSUME SlotInv, IssueInv
  PROVE  Len(issue.reqs) <= total_outstanding /\ total_outstanding \in Nat
<1>1. Slots
  BY DEF SlotInv, Slots, Sound
<1>2. issue.reqs \in Seq(AllBlocks) /\ Len(issue.reqs) \in Nat
  BY DEF IssueInv, Issues
<1>3. issue.reqs \in [1..Len(issue.reqs) -> outstanding_list]
  <2>1. \A k \in 1..Len(issue.reqs) : issue.reqs[k] \in AllBlocks /\ Asks(issue.reqs[k])
    BY <1>2 DEF IssueInv
  <2>2. \A k \in 1..Len(issue.reqs) : issue.reqs[k] \in outstanding_list
    BY <1>1, <2>1, Outstanding DEF Asks
  <2>3. QED
    BY <1>2, <2>2
<1>4. issue.reqs \in Injection(1..Len(issue.reqs), outstanding_list)
  BY <1>3 DEF IssueInv, Injection, IsInjective
<1>5. Cardinality(1..Len(issue.reqs)) = Len(issue.reqs)
  BY <1>2, FS_Interval
<1>6. IsFiniteSet(outstanding_list) /\ total_outstanding \in Nat
  BY <1>1, Outstanding
<1>7. QED
  BY <1>4, <1>5, <1>6, FS_Injection DEF total_outstanding

\* IssueInv is inductive: next_request stops at the limit of outstanding
\* blocks, and nothing is received while an issue runs.
LEMMA IssueStep == SlotInv /\ Flags /\ tokens \in Nat /\ IssueInv /\ [Next]_vars => IssueInv'
<1> SUFFICES ASSUME SlotInv, Flags, tokens \in Nat, IssueInv, [Next]_vars PROVE IssueInv'
  OBVIOUS
<1>1. ASSUME issue = NoIssue, UNCHANGED issue PROVE IssueInv'
  BY <1>1, IssueNone
<1>t. issue \in Issues /\ issue.reqs \in Seq(AllBlocks) /\ Len(issue.reqs) \in Nat
  BY DEF IssueInv, Issues
<1>2. CASE BeginIssue
  <2>1. /\ issue' = [NoIssue EXCEPT !.limit = Grant.limit, !.paid = Grant.paid, !.stop = Full(Grant.limit)]
        /\ UNCHANGED <<slot, over>> /\ ~over
    BY <1>2 DEF BeginIssue, Working
  <2>2. Grant.limit \in 0..Top /\ Grant.paid \in Nat /\ (Grant.paid > 0 => Grant.limit * BlockSize <= Grant.paid)
    BY GrantFits DEF Flags
  <2>3. Full(Grant.limit) \in BOOLEAN
    BY DEF Full
  <2>4. /\ issue'.limit = Grant.limit /\ issue'.paid = Grant.paid /\ issue'.reqs = <<>> /\ issue'.starting = {}
        /\ issue' \in Issues
    <3>1. PICK l \in 0..Top, g \in Nat, st \in BOOLEAN : l = Grant.limit /\ g = Grant.paid /\ st = Full(Grant.limit)
      BY <2>2, <2>3
    <3>2. issue' = [NoIssue EXCEPT !.limit = l, !.paid = g, !.stop = st]
      BY <2>1, <3>1
    <3>3. issue' = [limit |-> l, paid |-> g, reqs |-> <<>>, starting |-> {}, stop |-> st]
      BY <3>2 DEF NoIssue
    <3>4. QED
      BY <3>1, <3>3 DEF Issues
  <2>5. QED
    BY <2>1, <2>2, <2>4 DEF IssueInv
<1>3. CASE EndIssue
  BY <1>3, IssueNone DEF EndIssue
<1>4. CASE OpenPiece
  <2>1. /\ issue' = [issue EXCEPT !.starting = {}] /\ ~over /\ UNCHANGED over
        /\ slot' = [p \in Pieces |-> IF p \in issue.starting THEN Fresh ELSE slot[p]]
    BY <1>4 DEF OpenPiece, IssueUnchanged
  <2>2. issue' \in Issues /\ issue'.reqs = issue.reqs /\ issue'.limit = issue.limit /\ issue'.paid = issue.paid
        /\ issue'.starting = {}
    BY <1>t, <2>1 DEF Issues
  <2>3. ASSUME NEW k \in 1..Len(issue.reqs) PROVE Asks(issue.reqs[k])'
    <3>1. PICK b \in AllBlocks : b = issue.reqs[k]
      BY <1>t
    <3>2. Asks(b) /\ b[1] \in Pieces
      BY <3>1, IsBlock DEF IssueInv
    <3>3. b[1] \notin issue.starting
      BY <3>2 DEF Asks, IssueInv
    <3>4. slot'[b[1]] = slot[b[1]]
      BY <2>1, <3>2, <3>3
    <3>5. issue'.reqs[k] = b
      BY <2>2, <3>1
    <3>6. QED
      BY <3>2, <3>4, <3>5 DEF Asks
  <2>4. QED
    BY <2>1, <2>2, <2>3 DEF IssueInv, Asks
<1>5. CASE AbortStart
  <2>1. issue' = [issue EXCEPT !.starting = {}, !.stop = TRUE] /\ ~over /\ UNCHANGED <<over, slot>>
    BY <1>5 DEF AbortStart, IssueUnchanged
  <2>2. issue' \in Issues /\ issue'.reqs = issue.reqs /\ issue'.limit = issue.limit /\ issue'.paid = issue.paid
        /\ issue'.starting = {}
    BY <1>t, <2>1 DEF Issues
  <2>3. QED
    BY <2>1, <2>2 DEF IssueInv, Asks
<1>6. ASSUME NEW p \in Pieces, NextRequest(p) PROVE IssueInv'
  <2>1. PICK i : i = Min(Unasked(p))
    OBVIOUS
  <2>2. /\ ~over /\ UNCHANGED over /\ issue.starting = {} /\ total_outstanding < issue.limit
        /\ slot' = [slot EXCEPT ![p].requested = @ \cup {i}]
        /\ issue' = [issue EXCEPT !.reqs = Append(@, <<p, i>>)]
        /\ p \in Askable
    BY <1>6, <2>1 DEF NextRequest, Filling, IssueUnchanged
  <2>3. i \in Unasked(p)
    <3>1. Unasked(p) \in SUBSET Nat /\ Unasked(p) # {}
      BY <2>2, Sizes DEF Askable, Unasked
    <3>2. QED
      BY <2>1, <3>1, MinIs
  <2>4. <<p, i>> \in AllBlocks /\ i \notin slot[p].have /\ i \notin slot[p].requested /\ slot[p].st = "assembling"
    BY <2>2, <2>3, IsBlock DEF Unasked, Askable, Staged
  <2>5. Len(issue.reqs) + 1 <= issue.limit
    BY <1>t, <2>2, NotMoreThanOutstanding DEF Issues
  <2>6. /\ issue' \in Issues /\ issue'.limit = issue.limit /\ issue'.paid = issue.paid
        /\ issue'.starting = {} /\ issue'.reqs = Append(issue.reqs, <<p, i>>)
    <3>1. Append(issue.reqs, <<p, i>>) \in Seq(AllBlocks)
      BY <1>t, <2>4, SeqFacts
    <3>2. issue' = [issue EXCEPT !.reqs = Append(issue.reqs, <<p, i>>)]
      BY <2>2
    <3>3. QED
      BY <1>t, <2>2, <3>1, <3>2 DEF Issues
  <2>7. /\ Len(issue'.reqs) = Len(issue.reqs) + 1
        /\ \A k \in 1..Len(issue.reqs) : issue'.reqs[k] = issue.reqs[k]
        /\ issue'.reqs[Len(issue.reqs) + 1] = <<p, i>>
    BY <1>t, <2>4, <2>6
  <2>8. \A k \in 1..Len(issue.reqs) : issue.reqs[k] # <<p, i>> /\ Asks(issue.reqs[k]) /\ issue.reqs[k][1] \in Pieces
    <3>1. ~Asks(<<p, i>>)
      BY <2>4 DEF Asks
    <3>2. ASSUME NEW k \in 1..Len(issue.reqs)
          PROVE  issue.reqs[k] # <<p, i>> /\ Asks(issue.reqs[k]) /\ issue.reqs[k][1] \in Pieces
      <4>1. PICK b \in AllBlocks : b = issue.reqs[k]
        BY <1>t
      <4>2. Asks(b) /\ b[1] \in Pieces
        BY <4>1, IsBlock DEF IssueInv
      <4>3. QED
        BY <3>1, <4>1, <4>2
    <3>3. QED
      BY <3>2
  <2>9. ASSUME NEW b \in AllBlocks, Asks(b) \/ b = <<p, i>> PROVE Asks(b)'
    <3>1. slot[p] \in AnySlot /\ slot \in [Pieces -> AnySlot]
      BY DEF SlotInv
    <3>2. /\ slot'[p].st = slot[p].st /\ slot'[p].have = slot[p].have
          /\ slot'[p].requested = slot[p].requested \cup {i}
          /\ \A q \in Pieces \ {p} : slot'[q] = slot[q]
      BY <2>2, <3>1 DEF AnySlot
    <3>3. CASE b[1] = p
      <4>1. b # <<p, i>> => Asks(b)
        BY <2>9
      <4>2. QED
        BY <2>4, <2>9, <3>2, <3>3 DEF Asks
    <3>4. CASE b[1] # p
      BY <2>9, <3>2, <3>4, IsBlock DEF Asks
    <3>5. QED
      BY <3>3, <3>4
  <2>10. ASSUME NEW k \in 1..Len(issue'.reqs) PROVE Asks(issue.reqs[k])'
    <3>1. PICK b : b = issue'.reqs[k]
      OBVIOUS
    <3>2. b \in AllBlocks /\ (Asks(b) \/ b = <<p, i>>)
      <4>1. CASE k \in 1..Len(issue.reqs)
        BY SMTT(20), <1>t, <2>7, <2>8, <3>1, <4>1
      <4>2. CASE k = Len(issue.reqs) + 1
        BY <2>4, <2>7, <3>1, <4>2
      <4>3. QED
        BY <1>t, <2>7, <4>1, <4>2
    <3>3. Asks(b)'
      BY <2>9, <3>2
    <3>4. QED
      BY <3>1, <3>3 DEF Asks
  <2>11. \A j, k \in 1..Len(issue'.reqs) : issue'.reqs[j] = issue'.reqs[k] => j = k
    <3>1. PICK n \in Nat : n = Len(issue.reqs)
      BY <1>t
    <3>r. PICK r, t, e : r = issue.reqs /\ t = issue'.reqs /\ e = <<p, i>>
      OBVIOUS
    <3>2. \A j, k \in 1..n : r[j] = r[k] => j = k
      BY <3>1, <3>r DEF IssueInv
    <3>3. /\ \A k \in 1..n : t[k] = r[k] /\ r[k] # e
          /\ t[n + 1] = e /\ Len(t) = n + 1
      BY <2>7, <2>8, <3>1, <3>r
    <3>4. \A j, k \in 1..n + 1 : t[j] = t[k] => j = k
      BY <3>2, <3>3
    <3>5. QED
      BY <3>1, <3>r, <3>3, <3>4
  <2>12. QED
    BY <2>2, <2>5, <2>6, <2>7, <2>10, <2>11 DEF IssueInv
<1>7. ASSUME NEW p \in Pieces, StartPiece(p) PROVE IssueInv'
  <2>1. issue' = [issue EXCEPT !.starting = {p}] /\ ~over /\ UNCHANGED <<over, slot>> /\ p \notin Staged \cup Hashing
    BY <1>7 DEF StartPiece, Filling, Startable, IssueUnchanged
  <2>2. issue' \in Issues /\ issue'.reqs = issue.reqs /\ issue'.limit = issue.limit /\ issue'.paid = issue.paid
        /\ issue'.starting = {p}
    BY <1>t, <2>1 DEF Issues
  <2>3. slot[p].st = "none"
    BY <2>1 DEF Staged, Hashing, SlotInv, AnySlot
  <2>4. QED
    BY <2>1, <2>2, <2>3 DEF IssueInv, Asks
<1>8. CASE ReceiveNext
  BY <1>1, <1>8 DEF ReceiveNext, OnChoke, OnUnchoke, OnAllowedFast, OnReject, OnPiece, Receives
<1>9. ASSUME NEW p \in Pieces, NEW ok \in BOOLEAN, HashOutcome(p, ok) \/ RivalEnds(p, ok) PROVE IssueInv'
  BY <1>1, <1>9, IssueCarry DEF HashOutcome, RivalEnds, OursUnchanged
<1>10. CASE EnterEndgame \/ LeechComplete \/ \E early \in BOOLEAN : Stall(early) \/ IdleClose(early)
  BY <1>1, <1>10 DEF EnterEndgame, LeechComplete, Stall, IdleClose, SessionUnchanged
<1>11. CASE \E n \in Pipelines : AdaptPipeline(n)
  BY <1>1, <1>11 DEF AdaptPipeline, SessionUnchanged
<1>12. ASSUME NEW p \in Pieces, RivalClaims(p) \/ RemoteAllowsFast(p) PROVE IssueInv'
  BY <1>12, IssueCarry DEF RivalClaims, RemoteAllowsFast, RemoteUnchanged, OursUnchanged
<1>13. CASE set_caps \/ Spend \/ Refill \/ RemoteReads \/ RemoteUnchokes \/ RemoteChokes
  BY <1>13, IssueCarry DEF set_caps, Spend, Refill, RemoteReads, RemoteUnchokes, RemoteChokes,
                           RemoteUnchanged, OursUnchanged
<1>14. ASSUME NEW b \in AllBlocks, RemoteServes(b) \/ RemoteDrops(b) PROVE IssueInv'
  BY <1>14, IssueCarry DEF RemoteServes, RemoteDrops, RemoteUnchanged, OursUnchanged
<1>15. ASSUME NEW p \in Pieces, NEW begin \in 0..BlockSize, NEW len \in 1..2 * BlockSize,
              RemoteInvents(p, begin, len)
       PROVE  IssueInv'
  BY <1>15, IssueCarry DEF RemoteInvents, OursUnchanged
<1>16. CASE UNCHANGED vars
  BY <1>16, IssueCarry DEF vars
<1>17. QED
  BY <1>2, <1>3, <1>4, <1>5, <1>6, <1>7, <1>8, <1>9, <1>10, <1>11, <1>12, <1>13, <1>14, <1>15, <1>16
  DEF Next, IssueNext, RemoteNext
-----------------------------------------------------------------------------
(* Flags, tokens and buffers.                                              *)

\* The flags and counters keep their types.
LEMMA FlagsStep == Flags /\ Wires /\ [Next]_vars => Flags'
<1> SUFFICES ASSUME Flags, Wires, [Next]_vars PROVE Flags'
  OBVIOUS
<1>1. ASSUME UNCHANGED <<mode, has, taken, mine, choking, allowed, endgame, pipeline, over, limited>>,
             trouble' = trouble \/ Trouble
      PROVE  Flags'
  BY <1>1, BlockAssumption DEF Flags, Trouble
<1>2. CASE IssueNext
  <2>1. CASE BeginIssue \/ EndIssue \/ OpenPiece
    BY <1>1, <2>1 DEF BeginIssue, EndIssue, OpenPiece, IssueUnchanged, torrentVars, tokenVars
  <2>2. CASE AbortStart
    BY <2>2 DEF AbortStart, IssueUnchanged, tokenVars, Flags
  <2>3. ASSUME NEW p \in Pieces, NextRequest(p) \/ StartPiece(p) PROVE Flags'
    BY <2>3 DEF NextRequest, StartPiece, IssueUnchanged, torrentVars, tokenVars, Flags
  <2>4. QED
    BY <1>2, <2>1, <2>2, <2>3 DEF IssueNext
<1>3. CASE ReceiveNext
  <2>1. CASE OnChoke \/ OnUnchoke \/ OnReject
    BY <2>1 DEF OnChoke, OnUnchoke, OnReject, Receives, torrentVars, tokenVars, Flags
  <2>2. CASE OnAllowedFast
    <3>1. Head(fromRemote) \in FromMsg /\ Head(fromRemote).kind = "allow"
      BY <2>2, SeqFacts DEF OnAllowedFast, Receives, Wires
    <3>2. Head(fromRemote).piece \in Pieces
      BY <3>1 DEF FromMsg
    <3>3. QED
      BY <2>2, <3>2 DEF OnAllowedFast, Receives, torrentVars, tokenVars, Flags
  <2>3. CASE OnPiece
    <3>1. over' \in BOOLEAN
      BY <2>3 DEF OnPiece, Flags
    <3>2. mine' \subseteq Pieces
      BY <2>3 DEF OnPiece, Flags
    <3>3. QED
      BY <2>3, <3>1, <3>2 DEF OnPiece, Receives, tokenVars, Flags
  <2>4. QED
    BY <1>3, <2>1, <2>2, <2>3 DEF ReceiveNext
<1>4. ASSUME NEW p \in Pieces, NEW ok \in BOOLEAN, HashOutcome(p, ok) \/ RivalEnds(p, ok) PROVE Flags'
  <2>1. CASE HashOutcome(p, ok)
    <3>1. trouble' \in 0..MaxTrouble
      BY <2>1, BlockAssumption DEF HashOutcome, Flags
    <3>2. has' \subseteq Pieces
      BY <2>1 DEF HashOutcome, Flags
    <3>3. QED
      BY <2>1, <3>1, <3>2 DEF HashOutcome, tokenVars, Flags
  <2>2. CASE RivalEnds(p, ok)
    BY <2>2 DEF RivalEnds, OursUnchanged, tokenVars, Flags
  <2>3. QED
    BY <1>4, <2>1, <2>2
<1>5. CASE EnterEndgame \/ LeechComplete
  BY <1>5 DEF EnterEndgame, LeechComplete, SessionUnchanged, torrentVars, tokenVars, Flags
<1>6. ASSUME NEW early \in BOOLEAN, Stall(early) \/ IdleClose(early) PROVE Flags'
  <2>1. trouble' \in 0..MaxTrouble
    BY <1>6, BlockAssumption DEF Stall, IdleClose, Trouble, Flags
  <2>2. QED
    BY <1>6, <2>1 DEF Stall, IdleClose, SessionUnchanged, torrentVars, tokenVars, Flags
<1>7. ASSUME NEW n \in Pipelines, AdaptPipeline(n) PROVE Flags'
  BY <1>7, BlockAssumption DEF AdaptPipeline, Trouble, SessionUnchanged, torrentVars, tokenVars, Flags
<1>8. ASSUME NEW p \in Pieces, RivalClaims(p) \/ RemoteAllowsFast(p) PROVE Flags'
  <2>1. CASE RivalClaims(p)
    BY <2>1, BlockAssumption DEF RivalClaims, OursUnchanged, Trouble, tokenVars, Flags
  <2>2. CASE RemoteAllowsFast(p)
    BY <1>1, <2>2 DEF RemoteAllowsFast, RemoteUnchanged, OursUnchanged, tokenVars
  <2>3. QED
    BY <1>8, <2>1, <2>2
<1>9. CASE set_caps
  BY <1>9, BlockAssumption DEF set_caps, OursUnchanged, Trouble, Flags
<1>10. CASE Spend \/ Refill \/ RemoteReads \/ RemoteUnchokes \/ RemoteChokes
  BY <1>1, <1>10 DEF Spend, Refill, RemoteReads, RemoteUnchokes, RemoteChokes, RemoteUnchanged,
                     OursUnchanged, tokenVars
<1>11. ASSUME NEW b \in AllBlocks, RemoteServes(b) \/ RemoteDrops(b) PROVE Flags'
  BY <1>1, <1>11 DEF RemoteServes, RemoteDrops, RemoteUnchanged, OursUnchanged, tokenVars
<1>12. ASSUME NEW p \in Pieces, NEW begin \in 0..BlockSize, NEW len \in 1..2 * BlockSize,
              RemoteInvents(p, begin, len)
       PROVE  Flags'
  BY <1>1, <1>12 DEF RemoteInvents, OursUnchanged, tokenVars
<1>13. CASE UNCHANGED vars
  BY <1>1, <1>13 DEF vars
<1>14. QED
  BY <1>2, <1>3, <1>4, <1>5, <1>6, <1>7, <1>8, <1>9, <1>10, <1>11, <1>12, <1>13 DEF Next, RemoteNext

\* The limiter holds at most its capacity, or one refund.
Most == Max({Capacity, Top * BlockSize})
\* What the limiter holds at most: its capacity, or one refund.
LEMMA MostIs == Most \in Nat /\ Capacity \in 0..Most /\ \A n \in 0..Top * BlockSize : n <= Most
<1>1. Capacity \in Nat /\ Top * BlockSize \in Nat
  BY TopIs, BlockAssumption
<1>2. PICK y \in Nat : y = Top * BlockSize
  BY <1>1
<1>3. Max({Capacity, y}) \in {Capacity, y} /\ \A z \in {Capacity, y} : Max({Capacity, y}) >= z
  <2>1. \A z \in {Capacity, y} : z <= Capacity + y
    BY <1>1
  <2>2. {Capacity, y} \in SUBSET Nat /\ {Capacity, y} # {} /\ Capacity + y \in Nat
    BY <1>1
  <2>3. QED
    BY <2>1, <2>2, MaxIs
<1>4. Most = Max({Capacity, y})
  BY <1>2 DEF Most
<1>5. Most \in {Capacity, y} /\ Most >= Capacity /\ Most >= y
  BY <1>3, <1>4
<1>6. QED
  BY <1>1, <1>2, <1>5

\* refund_download caps what it gives back.
LEMMA RefundFits ==
  ASSUME NEW n \in 0..Top * BlockSize, tokens \in 0..Most
  PROVE  refund_download(n) \in 0..Most
<1>1. n \in Nat /\ Capacity \in Nat /\ n <= Most /\ Capacity <= Most /\ tokens \in Nat /\ Most \in Nat
  BY MostIs, TopIs, BlockAssumption
<1>2. PICK m : m = Max({Capacity, n})
  OBVIOUS
<1>3. m \in {Capacity, n}
  <2>1. \A z \in {Capacity, n} : z <= Capacity + n
    BY <1>1
  <2>2. {Capacity, n} \in SUBSET Nat /\ {Capacity, n} # {} /\ Capacity + n \in Nat
    BY <1>1
  <2>3. QED
    BY <1>2, <2>1, <2>2, MaxIs
<1>4. m \in Nat /\ m <= Most
  BY <1>1, <1>3
<1>5. Min({tokens + n, m}) \in Nat /\ Min({tokens + n, m}) <= m
  <2>1. {tokens + n, m} \in SUBSET Nat
    BY <1>1, <1>4
  <2>2. QED
    BY <2>1, MinIs
<1>6. QED
  BY <1>1, <1>2, <1>4, <1>5 DEF refund_download

\* The limiter never holds more than Most.
LEMMA TokensStep == Flags /\ IssueInv /\ tokens \in 0..Most /\ [Next]_vars => (tokens \in 0..Most)'
<1> SUFFICES ASSUME Flags, IssueInv, tokens \in 0..Most, [Next]_vars PROVE tokens' \in 0..Most
  BY DEF Most, Top
<1>0. ASSUME UNCHANGED tokens PROVE tokens' \in 0..Most
  BY <1>0
<1>m. Most \in Nat /\ Capacity \in 0..Most
  BY MostIs
<1>1. CASE BeginIssue
  <2>1. tokens \in Nat
    BY <1>m
  <2>2. Grant.paid \in 0..tokens
    BY <2>1, GrantFits DEF Flags
  <2>3. tokens' = tokens - Grant.paid
    BY <1>1 DEF BeginIssue
  <2>4. QED
    BY <1>m, <2>2, <2>3
<1>2. CASE EndIssue
  <2>1. issue.reqs \in Seq(AllBlocks) /\ issue.limit \in 0..Top /\ Len(issue.reqs) <= issue.limit
    BY DEF IssueInv, Issues
  <2>2. SumLen(issue.reqs) \in Nat /\ SumLen(issue.reqs) <= Len(issue.reqs) * BlockSize
    BY <2>1, SumLenFits
  <2>3. Len(issue.reqs) * BlockSize <= issue.limit * BlockSize /\ issue.limit * BlockSize <= Top * BlockSize
    <3>1. \A x, y, d \in Nat : x <= y => x * d <= y * d
      OBVIOUS
    <3>2. Len(issue.reqs) \in Nat /\ issue.limit \in Nat /\ Top \in Nat /\ BlockSize \in Nat
      BY <2>1, TopIs, BlockAssumption
    <3>3. QED
      BY SMTT(20), <2>1, <3>1, <3>2
  <2>4. issue.limit * BlockSize \in Nat /\ Top * BlockSize \in Nat /\ Len(issue.reqs) * BlockSize \in Nat
    BY <2>1, TopIs, BlockAssumption
  <2>5. issue.limit * BlockSize - SumLen(issue.reqs) \in 0..Top * BlockSize
    BY <2>2, <2>3, <2>4
  <2>6. QED
    BY <1>2, <2>5, RefundFits DEF EndIssue
<1>3. CASE OpenPiece \/ AbortStart \/ \E p \in Pieces : NextRequest(p) \/ StartPiece(p)
  BY <1>0, <1>3 DEF OpenPiece, AbortStart, NextRequest, StartPiece, IssueUnchanged, tokenVars
<1>4. CASE ReceiveNext
  BY <1>0, <1>4 DEF ReceiveNext, OnChoke, OnUnchoke, OnAllowedFast, OnReject, OnPiece, Receives, tokenVars
<1>5. ASSUME NEW p \in Pieces, NEW ok \in BOOLEAN, HashOutcome(p, ok) \/ RivalEnds(p, ok) PROVE tokens' \in 0..Most
  BY <1>0, <1>5 DEF HashOutcome, RivalEnds, tokenVars
<1>6. CASE EnterEndgame \/ LeechComplete \/ \E early \in BOOLEAN : Stall(early) \/ IdleClose(early)
  BY <1>0, <1>6 DEF EnterEndgame, LeechComplete, Stall, IdleClose, SessionUnchanged, tokenVars
<1>7. CASE \E n \in Pipelines : AdaptPipeline(n)
  BY <1>0, <1>7 DEF AdaptPipeline, SessionUnchanged, tokenVars
<1>8. CASE \E p \in Pieces : RivalClaims(p) \/ RemoteAllowsFast(p)
  BY <1>0, <1>8 DEF RivalClaims, RemoteAllowsFast, RemoteUnchanged, tokenVars
<1>9. CASE set_caps \/ Spend \/ Refill
  <2>1. CASE set_caps
    BY <1>m, <2>1 DEF set_caps
  <2>2. CASE Spend
    BY <1>m, <2>2 DEF Spend
  <2>3. CASE Refill
    BY <1>m, <2>3 DEF Refill
  <2>4. QED
    BY <1>9, <2>1, <2>2, <2>3
<1>10. CASE RemoteReads \/ RemoteUnchokes \/ RemoteChokes
  BY <1>0, <1>10 DEF RemoteReads, RemoteUnchokes, RemoteChokes, RemoteUnchanged, tokenVars
<1>11. CASE \E b \in AllBlocks : RemoteServes(b) \/ RemoteDrops(b)
  BY <1>0, <1>11 DEF RemoteServes, RemoteDrops, RemoteUnchanged, tokenVars
<1>12. ASSUME NEW p \in Pieces, NEW begin \in 0..BlockSize, NEW len \in 1..2 * BlockSize,
              RemoteInvents(p, begin, len)
       PROVE  tokens' \in 0..Most
  BY <1>0, <1>12 DEF RemoteInvents, tokenVars
<1>13. CASE UNCHANGED vars
  BY <1>0, <1>13 DEF vars
<1>14. QED
  BY <1>1, <1>2, <1>3, <1>4, <1>5, <1>6, <1>7, <1>8, <1>9, <1>10, <1>11, <1>12, <1>13
  DEF Next, IssueNext, RemoteNext
\* A buffer is free, under a piece of this session, or with a rival.
Room == free \in Nat /\ free + Cardinality(Staged) + Cardinality(taken) <= Buffers

\* Sets of pieces are finite.
LEMMA Finite ==
  \A S \in SUBSET Pieces : IsFiniteSet(S) /\ Cardinality(S) \in Nat
                           /\ \A T \in SUBSET S : Cardinality(T) <= Cardinality(S)
<1>1. ASSUME NEW S \in SUBSET Pieces PROVE IsFiniteSet(S)
  BY BlockAssumption, FS_Subset
<1>2. QED
  BY <1>1, FS_CardinalityType, FS_Subset

\* What a step does to the buffers.
LEMMA RoomKept ==
  ASSUME Flags, Flags', Room, free' = free, Staged' \subseteq Staged, taken' \subseteq taken
  PROVE  Room'
<1>1. /\ Cardinality(Staged') \in Nat /\ Cardinality(Staged) \in Nat /\ Cardinality(Staged') <= Cardinality(Staged)
      /\ Cardinality(taken') \in Nat /\ Cardinality(taken) \in Nat /\ Cardinality(taken') <= Cardinality(taken)
  BY Finite DEF Flags, Staged
<1>2. QED
  BY <1>1, BlockAssumption DEF Room

\* clear gives all the buffers of the session back.
LEMMA RoomBack ==
  ASSUME Flags, Room, Staged' = {}, taken' = taken, free' = free + Cardinality(Staged)
  PROVE  Room'
<1>1. Cardinality(Staged) \in Nat /\ Cardinality(taken) \in Nat /\ Cardinality({}) = 0
  BY Finite, FS_EmptySet DEF Flags, Staged
<1>2. QED
  BY <1>1, BlockAssumption DEF Room

\* No step makes a buffer: what free gains, the slots or a rival lose.
LEMMA RoomStep == Flags /\ Flags' /\ SlotInv /\ Wires /\ IssueInv /\ Room /\ [Next]_vars => Room'
<1> SUFFICES ASSUME Flags, Flags', SlotInv, Wires, IssueInv, Room, [Next]_vars PROVE Room'
  OBVIOUS
<1>0. ASSUME free' = free, slot' = slot, taken' \subseteq taken PROVE Room'
  BY <1>0, RoomKept DEF Staged
<1>f. /\ Cardinality(Staged) \in Nat /\ Cardinality(taken) \in Nat /\ free \in Nat
      /\ free + Cardinality(Staged) + Cardinality(taken) <= Buffers /\ Buffers \in Nat
      /\ IsFiniteSet(Staged) /\ IsFiniteSet(taken)
  BY Finite, BlockAssumption DEF Room, Flags, Staged
<1>s. slot \in [Pieces -> AnySlot]
  BY DEF SlotInv
<1>1. CASE BeginIssue \/ EndIssue \/ AbortStart \/ set_caps \/ Spend \/ Refill
  BY <1>0, <1>1 DEF BeginIssue, EndIssue, AbortStart, set_caps, Spend, Refill, OursUnchanged, torrentVars
<1>2. CASE OpenPiece
  <2>1. PICK p \in issue.starting : TRUE
    BY <1>2 DEF OpenPiece
  <2>2. Staged' \subseteq Staged \cup {p}
    BY <1>2, <2>1 DEF OpenPiece, Staged, IssueInv
  <2>3. IsFiniteSet(Staged \cup {p}) /\ Cardinality(Staged \cup {p}) <= Cardinality(Staged) + 1
        /\ Cardinality(Staged \cup {p}) \in Nat
    <3>1. IsFiniteSet(Staged \cup {p}) /\ Cardinality(Staged \cup {p})
            = IF p \in Staged THEN Cardinality(Staged) ELSE Cardinality(Staged) + 1
      BY <1>f, FS_AddElement
    <3>2. QED
      BY <1>f, <3>1
  <2>4. Cardinality(Staged') <= Cardinality(Staged \cup {p}) /\ Cardinality(Staged') \in Nat
    BY <2>2, <2>3, FS_Subset, FS_CardinalityType
  <2>5. free' = free - 1 /\ free > 0 /\ taken' = taken
    BY <1>2 DEF OpenPiece
  <2>6. QED
    BY <1>f, <2>3, <2>4, <2>5 DEF Room
<1>3. ASSUME NEW p \in Pieces, NextRequest(p) PROVE Room'
  <2>1. Staged' \subseteq Staged
    BY <1>3, <1>s DEF NextRequest, Staged, AnySlot
  <2>2. QED
    BY <1>3, <2>1, RoomKept DEF NextRequest, torrentVars
<1>4. ASSUME NEW p \in Pieces, StartPiece(p) PROVE Room'
  BY <1>0, <1>4 DEF StartPiece
<1>5. CASE OnChoke \/ OnUnchoke \/ OnAllowedFast
  BY <1>0, <1>5 DEF OnChoke, OnUnchoke, OnAllowedFast, torrentVars
<1>6. CASE OnReject
  <2>1. PICK b : b = Head(fromRemote).block
    OBVIOUS
  <2>2. slot' = slot \/ slot' = [slot EXCEPT ![b[1]].requested = @ \ {b[2]}]
    BY <1>6, <2>1 DEF OnReject
  <2>3. Staged' \subseteq Staged
    BY <1>s, <2>2 DEF Staged, AnySlot
  <2>4. QED
    BY <1>6, <2>3, RoomKept DEF OnReject, torrentVars
<1>7. CASE OnPiece
  <2>1. PICK p : p = Head(fromRemote).piece
    OBVIOUS
  <2>2. PICK s : s = Ingest(p, Head(fromRemote).begin, Head(fromRemote).len)
    OBVIOUS
  <2>3. taken' = taken
    BY <1>7 DEF OnPiece
  <2>4. CASE UNCHANGED <<slot, free>>
    BY <1>0, <2>3, <2>4
  <2>5. CASE slot' = [q \in Pieces |-> NoSlot] /\ free' = free + Cardinality(Staged)
    <3>1. Staged' = {}
      BY <2>5 DEF Staged, NoSlot
    <3>2. QED
      BY <2>3, <2>5, <3>1, RoomBack
  <2>6. CASE /\ p \in Staged
             /\ slot' = [slot EXCEPT ![p] = IF s.have = BlocksOf(p) THEN [s EXCEPT !.st = "hashing"] ELSE s]
             /\ free' = IF s.have = BlocksOf(p) THEN free + 1 ELSE free
    <3>1. p \in Pieces
      BY <2>6 DEF Staged
    <3>2. s.st = "assembling" /\ [s EXCEPT !.st = "hashing"].st = "hashing"
      BY <1>s, <2>2, <2>6, <3>1 DEF Ingest, Staged, AnySlot
    <3>3. CASE s.have = BlocksOf(p)
      <4>1. Staged' = Staged \ {p}
        BY <1>s, <2>6, <3>1, <3>2, <3>3 DEF Staged
      <4>2. Cardinality(Staged') = Cardinality(Staged) - 1
        BY <1>f, <2>6, <4>1, FS_RemoveElement
      <4>3. QED
        BY <1>f, <2>3, <2>6, <3>3, <4>2 DEF Room
    <3>4. CASE s.have # BlocksOf(p)
      <4>1. Staged' \subseteq Staged
        BY <1>s, <2>6, <3>1, <3>2, <3>4 DEF Staged
      <4>2. QED
        BY <2>3, <2>6, <3>4, <4>1, RoomKept
    <3>5. QED
      BY <3>3, <3>4
  <2>7. QED
    BY <1>7, <2>1, <2>2, <2>4, <2>5, <2>6 DEF OnPiece
<1>8. ASSUME NEW p \in Pieces, NEW ok \in BOOLEAN, HashOutcome(p, ok) PROVE Room'
  <2>1. Staged' \subseteq Staged
    BY <1>8, <1>s DEF HashOutcome, Staged, NoSlot
  <2>2. QED
    BY <1>8, <2>1, RoomKept DEF HashOutcome
<1>9. ASSUME NEW p \in Pieces, NEW ok \in BOOLEAN, RivalEnds(p, ok) PROVE Room'
  <2>1. Cardinality(taken') = Cardinality(taken) - 1
    BY <1>9, <1>f, FS_RemoveElement DEF RivalEnds
  <2>2. Staged' = Staged /\ free' = free + 1
    BY <1>9 DEF RivalEnds, OursUnchanged, Staged
  <2>3. QED
    BY <1>f, <2>1, <2>2 DEF Room
<1>10. CASE EnterEndgame \/ \E early \in BOOLEAN : Stall(early)
  <2>1. slot' = requeue_timed_out /\ free' = free /\ taken' = taken
    BY <1>10 DEF EnterEndgame, Stall, TakeBack, torrentVars
  <2>2. Staged' \subseteq Staged
    BY <1>s, <2>1 DEF Staged, requeue_timed_out, AnySlot
  <2>3. QED
    BY <2>1, <2>2, RoomKept
<1>11. CASE LeechComplete \/ \E early \in BOOLEAN : IdleClose(early)
  <2>1. Staged' = {}
    <3>1. \A p \in Pieces : slot'[p] = NoSlot \/ (p \notin Staged /\ slot'[p] = slot[p])
      BY <1>11 DEF LeechComplete, IdleClose
    <3>2. \A p \in Pieces : slot'[p].st # "assembling"
      BY <3>1 DEF Staged, NoSlot
    <3>3. QED
      BY <3>2 DEF Staged
  <2>2. QED
    BY <1>11, <2>1, RoomBack DEF LeechComplete, IdleClose
<1>12. CASE \E n \in Pipelines : AdaptPipeline(n)
  BY <1>0, <1>12 DEF AdaptPipeline, torrentVars
<1>13. ASSUME NEW p \in Pieces, RivalClaims(p) PROVE Room'
  <2>1. Cardinality(taken') <= Cardinality(taken) + 1 /\ Cardinality(taken') \in Nat
    <3>1. taken' = taken \cup {p}
      BY <1>13 DEF RivalClaims
    <3>2. Cardinality(taken \cup {p}) = IF p \in taken THEN Cardinality(taken) ELSE Cardinality(taken) + 1
      BY <1>f, FS_AddElement
    <3>3. QED
      BY <1>f, <3>1, <3>2
  <2>2. Staged' = Staged /\ free' = free - 1 /\ free > 0
    BY <1>13 DEF RivalClaims, OursUnchanged, Staged
  <2>3. QED
    BY <1>f, <2>1, <2>2 DEF Room
<1>14. CASE RemoteReads \/ RemoteUnchokes \/ RemoteChokes \/ \E p \in Pieces : RemoteAllowsFast(p)
  BY <1>0, <1>14 DEF RemoteReads, RemoteUnchokes, RemoteChokes, RemoteAllowsFast, RemoteUnchanged, OursUnchanged
<1>15. CASE \E b \in AllBlocks : RemoteServes(b) \/ RemoteDrops(b)
  BY <1>0, <1>15 DEF RemoteServes, RemoteDrops, RemoteUnchanged, OursUnchanged
<1>16. ASSUME NEW p \in Pieces, NEW begin \in 0..BlockSize, NEW len \in 1..2 * BlockSize,
              RemoteInvents(p, begin, len)
       PROVE  Room'
  BY <1>0, <1>16 DEF RemoteInvents, OursUnchanged
<1>17. CASE UNCHANGED vars
  BY <1>0, <1>17 DEF vars
<1>18. QED
  BY <1>1, <1>2, <1>3, <1>4, <1>5, <1>6, <1>7, <1>8, <1>9, <1>10, <1>11, <1>12, <1>13, <1>14, <1>15, <1>16, <1>17
  DEF Next, IssueNext, ReceiveNext, RemoteNext

-----------------------------------------------------------------------------
(* The theorems.                                                           *)

BlockInv == Flags /\ SlotInv /\ Wires /\ IssueInv /\ tokens \in 0..Most /\ Room

\* A new session holds nothing.
LEMMA BlockStarts == Init => BlockInv
<1> SUFFICES ASSUME Init PROVE BlockInv
  OBVIOUS
<1>1. SlotInv
  BY SlotMoves DEF Init, SlotInv, Sound
<1>2. Min(Pipelines) \in Pipelines
  <2>1. Pipelines \in SUBSET Nat /\ Pipelines # {}
    BY BlockAssumption
  <2>2. QED
    BY <2>1, MinIs
<1>3. Flags /\ Wires
  <2>1. mode \in Modes /\ limited \in BOOLEAN
    BY BlockAssumption DEF Init
  <2>2. <<>> \in Seq(ToMsg) /\ <<>> \in Seq(FromMsg)
    OBVIOUS
  <2>3. Flags
    <3>1. trouble \in 0..MaxTrouble
      BY BlockAssumption DEF Init
    <3>2. pipeline \in Pipelines
      BY <1>2 DEF Init
    <3>3. has \subseteq Pieces /\ taken \subseteq Pieces /\ mine \subseteq Pieces /\ allowed \subseteq Pieces
      BY DEF Init
    <3>4. choking \in BOOLEAN /\ endgame \in BOOLEAN /\ over \in BOOLEAN
      BY DEF Init
    <3>5. QED
      BY <2>1, <3>1, <3>2, <3>3, <3>4 DEF Flags
  <2>4. Wires
    BY <2>2 DEF Init, Wires
  <2>5. QED
    BY <2>3, <2>4
<1>4. IssueInv
  BY NoIssueIs DEF Init, IssueInv
<1>5. tokens \in 0..Most
  BY MostIs DEF Init
<1>6. Room
  <2>1. Staged = {}
    BY DEF Init, Staged, NoSlot
  <2>2. QED
    BY <2>1, FS_EmptySet, BlockAssumption DEF Init, Room
<1>7. QED
  BY <1>1, <1>3, <1>4, <1>5, <1>6 DEF BlockInv

\* BlockInv is inductive.
LEMMA BlockStep == BlockInv /\ [Next]_vars => BlockInv'
<1> SUFFICES ASSUME BlockInv, [Next]_vars PROVE BlockInv'
  OBVIOUS
<1>1. Slots /\ issue.reqs \in Seq(AllBlocks) /\ tokens \in Nat
  BY MostIs DEF BlockInv, SlotInv, Slots, Sound, IssueInv, Issues
<1>2. Wires'
  BY <1>1, WiresStep DEF BlockInv
<1>3. SlotInv'
  BY SlotStep DEF BlockInv
<1>4. IssueInv'
  BY <1>1, IssueStep DEF BlockInv
<1>5. Flags'
  BY FlagsStep DEF BlockInv
<1>6. (tokens \in 0..Most)'
  BY TokensStep DEF BlockInv
<1>7. Room'
  BY <1>5, RoomStep DEF BlockInv
<1>8. QED
  BY <1>2, <1>3, <1>4, <1>5, <1>6, <1>7 DEF BlockInv

\* BlockInv holds of the specification.
LEMMA BlockHolds == Spec => []BlockInv
BY BlockStarts, BlockStep, PTL DEF Spec

\* The state of a session has its type; the limiter never holds more than its
\* capacity or one refund, and no step makes a staging buffer out of nothing
\* (requeue, abort_start, hash outcomes, the end of a session).
THEOREM BlocksTypeCorrect == Spec => []TypeOK
<1>1. BlockInv => TypeOK
  <2> SUFFICES ASSUME BlockInv PROVE TypeOK
    OBVIOUS
  <2>1. free \in 0..Buffers
    <3>1. Cardinality(Staged) \in Nat /\ Cardinality(taken) \in Nat
      BY Finite DEF BlockInv, Flags, Staged
    <3>2. QED
      BY <3>1, BlockAssumption DEF BlockInv, Room
  <2>2. \A k \in 1..Len(toRemote) : toRemote[k].block \in AllBlocks
    <3>1. \A k \in 1..Len(toRemote) : toRemote[k] \in ToMsg
      BY SeqFacts DEF BlockInv, Wires
    <3>2. QED
      BY <3>1 DEF ToMsg
  <2>3. QED
    BY <2>1, <2>2 DEF BlockInv, TypeOK, Flags, SlotInv, Sound, Wires, IssueInv, Issues, Most, Top
<1>2. QED
  BY <1>1, BlockHolds, PTL

\* The blocks of a piece cover it.
LEMMA BlocksCover ==
  ASSUME NEW p \in Pieces, NEW u \in Units(p)
  PROVE  \E i \in BlocksOf(p) : u \in BlockUnits(p, i)
<1>1. PICK L \in Nat \ {0}, B \in Nat \ {0} : L = PieceLen[p] /\ B = BlockSize
  BY Sizes
<1>2. u \in Nat /\ u < L
  BY <1>1 DEF Units
<1>3. PICK i : i = u \div B
  OBVIOUS
<1>4. i \in Nat /\ i * B <= u /\ u < i * B + B
  <2>1. \A a \in Nat, d \in Nat \ {0} : (a \div d) * d <= a /\ a < (a \div d) * d + d /\ a \div d \in Nat
    OBVIOUS
  <2>2. QED
    BY <1>1, <1>2, <1>3, <2>1
<1>5. i \in BlocksOf(p)
  <2>1. PICK n : n = (L + B - 1) \div B
    OBVIOUS
  <2>2. n \in Nat /\ L + B - 1 < n * B + B /\ n * B \in Nat /\ i * B \in Nat
    <3>1. \A a \in Nat, d \in Nat \ {0} : a < (a \div d) * d + d /\ a \div d \in Nat /\ (a \div d) * d \in Nat
      OBVIOUS
    <3>2. L + B - 1 \in Nat
      BY <1>1
    <3>3. PICK a \in Nat : a = L + B - 1
      BY <3>2
    <3>4. n \in Nat /\ a < n * B + B /\ n * B \in Nat
      BY <1>1, <2>1, <3>1, <3>3
    <3>5. \A x, y \in Nat : x * y \in Nat
      OBVIOUS
    <3>6. QED
      BY <1>1, <1>4, <3>3, <3>4, <3>5
  <2>3. i * B < n * B
    BY <1>1, <1>2, <1>4, <2>2
  <2>4. \A x, y, d \in Nat : x <= y => x * d <= y * d
    OBVIOUS
  <2>5. i < n
    <3>1. SUFFICES ASSUME n <= i PROVE FALSE
      BY <1>4, <2>2
    <3>2. n * B <= i * B
      BY <1>1, <1>4, <2>2, <2>4, <3>1
    <3>3. QED
      BY <2>2, <2>3, <3>2
  <2>6. QED
    BY <1>1, <1>4, <2>1, <2>2, <2>5 DEF BlocksOf, num_blocks
<1>6. PICK d : d = block_len(p, i)
  OBVIOUS
<1>7. u <= i * B + d - 1
  <2>1. L - i * B \in Nat /\ i * B \in Nat
    BY <1>1, <1>2, <1>4
  <2>2. d \in {L - i * B, B}
    <3>1. {L - i * B, B} \in SUBSET Nat
      BY <1>1, <2>1
    <3>2. d = Min({L - i * B, B})
      BY <1>1, <1>6 DEF block_len
    <3>3. QED
      BY <3>1, <3>2, MinIs
  <2>3. QED
    BY <1>1, <1>2, <1>4, <2>1, <2>2
<1>8. QED
  BY <1>1, <1>2, <1>4, <1>5, <1>6, <1>7, BlockLen, IsBlock DEF BlockUnits

\* What the hash threads read was received, to the last unit: a piece leaves
\* the staging pool when all its bits are set (mark_range_have), and a bit is
\* set only for a block that was written whole, with whatever lengths and
\* alignments the data came.
THEOREM NoStaleBytes == Spec => []BufferIsFresh
<1>1. BlockInv => BufferIsFresh
  <2> SUFFICES ASSUME BlockInv, NEW p \in Hashing PROVE slot[p].written = Units(p)
    BY DEF BufferIsFresh
  <2>1. p \in Pieces /\ slot[p].st = "hashing" /\ Sound(p, slot[p])
    BY DEF Hashing, BlockInv, SlotInv
  <2>2. slot[p].written \subseteq Units(p)
    BY <2>1 DEF Sound, Slot
  <2>3. \A i \in BlocksOf(p) : BlockUnits(p, i) \subseteq slot[p].written
    BY <2>1 DEF Sound
  <2>4. Units(p) \subseteq slot[p].written
    BY <2>1, <2>3, BlocksCover
  <2>5. QED
    BY <2>2, <2>4
<1>2. QED
  BY <1>1, BlockHolds, PTL

\* The blocks of one issue fit in what try_consume_download granted it.  The
\* argument goes through the marks: the blocks of an issue are different and
\* outstanding until it ends, and next_request stops at the limit of
\* outstanding blocks, so there are never more of them than whole blocks paid.
THEOREM RequestsArePaid == Spec => []PaidFor
<1>1. BlockInv => PaidFor
  <2> SUFFICES ASSUME BlockInv, issue.paid > 0 PROVE SumLen(issue.reqs) <= issue.paid
    BY DEF PaidFor
  <2>1. issue.reqs \in Seq(AllBlocks) /\ issue.limit \in 0..Top /\ issue.paid \in Nat
        /\ Len(issue.reqs) <= issue.limit /\ issue.limit * BlockSize <= issue.paid
    BY DEF BlockInv, IssueInv, Issues
  <2>2. SumLen(issue.reqs) \in Nat /\ SumLen(issue.reqs) <= Len(issue.reqs) * BlockSize
    BY <2>1, SumLenFits
  <2>3. Len(issue.reqs) \in Nat /\ issue.limit \in Nat /\ BlockSize \in Nat
    BY <2>1, TopIs, BlockAssumption
  <2>4. \A x, y, d \in Nat : x <= y => x * d <= y * d /\ x * d \in Nat /\ y * d \in Nat
    OBVIOUS
  <2>5. /\ Len(issue.reqs) * BlockSize <= issue.limit * BlockSize
        /\ Len(issue.reqs) * BlockSize \in Nat /\ issue.limit * BlockSize \in Nat
    BY <2>1, <2>3, <2>4
  <2>6. QED
    BY <2>1, <2>2, <2>5
<1>2. QED
  BY <1>1, BlockHolds, PTL
-----------------------------------------------------------------------------
(* What is on its way.                                                     *)

\* What Tail and Head return.
LEMMA TailIs ==
  ASSUME NEW T, NEW s \in Seq(T), s # <<>>
  PROVE  /\ Tail(s) \in Seq(T) /\ Len(s) \in Nat \ {0} /\ Len(Tail(s)) = Len(s) - 1
         /\ Head(s) = s[1] /\ Head(s) \in T
         /\ \A k \in 1..Len(s) - 1 : Tail(s)[k] = s[k + 1]
BY HeadTailProperties

\* What concatenation returns, and where its elements come from.
LEMMA JoinIs ==
  ASSUME NEW T, NEW s \in Seq(T), NEW t \in Seq(T)
  PROVE  /\ s \o t \in Seq(T) /\ Len(s) \in Nat /\ Len(t) \in Nat /\ Len(s \o t) = Len(s) + Len(t)
         /\ \A k \in 1..Len(s) : (s \o t)[k] = s[k]
         /\ \A k \in 1..Len(t) : (s \o t)[Len(s) + k] = t[k]
         /\ \A k \in 1..Len(s \o t) : k \in 1..Len(s) \/ \E j \in 1..Len(t) : k = Len(s) + j
<1>1. /\ s \o t \in Seq(T) /\ Len(s) \in Nat /\ Len(t) \in Nat /\ Len(s \o t) = Len(s) + Len(t)
  OBVIOUS
<1>2. \A k \in 1..Len(s \o t) : (s \o t)[k] = IF k <= Len(s) THEN s[k] ELSE t[k - Len(s)]
  OBVIOUS
<1>3. PICK n \in Nat, m \in Nat : n = Len(s) /\ m = Len(t)
  BY <1>1
<1>u. PICK u : u = s \o t
  OBVIOUS
<1>4. \A k \in 1..n : u[k] = s[k]
  BY <1>1, <1>2, <1>3, <1>u
<1>5. \A k \in 1..m : u[n + k] = t[k]
  <2>1. ASSUME NEW k \in 1..m PROVE u[n + k] = t[k]
    <3>1. n + k \in 1..n + m /\ ~(n + k <= n) /\ (n + k) - n = k
      OBVIOUS
    <3>2. QED
      BY <1>1, <1>2, <1>3, <1>u, <3>1
  <2>2. QED
    BY <2>1
<1>6. \A k \in 1..n + m : k \in 1..n \/ \E j \in 1..m : k = n + j
  <2>1. ASSUME NEW k \in 1..n + m, k \notin 1..n PROVE \E j \in 1..m : k = n + j
    <3>1. k - n \in 1..m /\ k = n + (k - n)
      BY <2>1
    <3>2. QED
      BY <3>1
  <2>2. QED
    BY <2>1
<1>7. QED
  BY <1>1, <1>3, <1>u, <1>4, <1>5, <1>6

\* Append is concatenation with one element.
LEMMA OneMore ==
  ASSUME NEW T, NEW s \in Seq(T), NEW e \in T
  PROVE  Append(s, e) = s \o <<e>> /\ <<e>> \in Seq(T) /\ Len(<<e>>) = 1 /\ <<e>>[1] = e
OBVIOUS

\* The same as Pending and Answered, of any wire.
Quiet(s, b, k) == \A l \in k..Len(s) : s[l].block # b
PendingIn(s, Q, b) ==
    \/ b \in Q /\ Quiet(s, b, 1)
    \/ \E k \in 1..Len(s) : s[k] = Req(b) /\ Quiet(s, b, k + 1)
Answers(m, b) == m = Rej(b) \/ (m.kind = "piece" /\ m = Whole(b))
AnsweredIn(s, b) == \E k \in 1..Len(s) : Answers(s[k], b)

\* Pending and Answered, in terms of a wire.
LEMMA LiveIs ==
  /\ \A b : Pending(b) <=> PendingIn(toRemote, remoteQ, b)
  /\ \A b : Answered(b) <=> AnsweredIn(fromRemote, b)
BY DEF Pending, Silent, PendingIn, Quiet, Answered, AnsweredIn, Answers

\* The remote reads one message.
LEMMA PendingTail ==
  ASSUME NEW s \in Seq(ToMsg), s # <<>>, NEW Q, NEW R, NEW b, PendingIn(s, Q, b), b \in Q => b \in R
  PROVE  PendingIn(Tail(s), R, b) \/ (Head(s) = Req(b) /\ Quiet(Tail(s), b, 1))
<1> HIDE DEF ToMsg
<1>1. /\ Len(s) \in Nat \ {0} /\ Len(Tail(s)) = Len(s) - 1 /\ Head(s) = s[1]
      /\ \A k \in 1..Len(s) - 1 : Tail(s)[k] = s[k + 1]
  BY TailIs
<1>2. ASSUME NEW k \in Nat \ {0}, Quiet(s, b, k + 1) PROVE Quiet(Tail(s), b, k)
  <2>1. ASSUME NEW l \in k..Len(Tail(s)) PROVE Tail(s)[l].block # b
    <3>1. l \in 1..Len(s) - 1 /\ l + 1 \in k + 1..Len(s)
      BY <1>1, <2>1
    <3>2. QED
      BY <1>1, <1>2, <3>1 DEF Quiet
  <2>2. QED
    BY <2>1 DEF Quiet
<1>3. CASE b \in Q /\ Quiet(s, b, 1)
  <2>1. Quiet(s, b, 1 + 1)
    BY <1>3 DEF Quiet
  <2>2. Quiet(Tail(s), b, 1)
    BY <1>2, <2>1
  <2>3. QED
    BY <1>3, <2>2 DEF PendingIn
<1>4. ASSUME NEW k \in 1..Len(s), s[k] = Req(b), Quiet(s, b, k + 1)
      PROVE  PendingIn(Tail(s), R, b) \/ (Head(s) = Req(b) /\ Quiet(Tail(s), b, 1))
  <2>1. CASE k = 1
    BY <1>1, <1>2, <1>4, <2>1
  <2>2. CASE k # 1
    <3>1. PICK j \in Nat \ {0} : k = j + 1
      BY <1>1, <2>2
    <3>2. j \in 1..Len(Tail(s)) /\ Tail(s)[j] = Req(b)
      BY <1>1, <1>4, <3>1
    <3>3. Quiet(Tail(s), b, j + 1)
      BY <1>2, <1>4, <3>1
    <3>4. QED
      BY <3>2, <3>3 DEF PendingIn
  <2>3. QED
    BY <2>1, <2>2
<1>5. QED
  BY <1>3, <1>4 DEF PendingIn

\* Messages about other blocks are sent, or a request for this one.
LEMMA PendingJoin ==
  ASSUME NEW s \in Seq(ToMsg), NEW t \in Seq(ToMsg), NEW Q, NEW b
  PROVE  /\ PendingIn(s, Q, b) /\ Quiet(t, b, 1) => PendingIn(s \o t, Q, b)
         /\ \A k \in 1..Len(t) : t[k] = Req(b) /\ Quiet(t, b, k + 1) => PendingIn(s \o t, Q, b)
<1> HIDE DEF ToMsg
<1>1. /\ Len(s) \in Nat /\ Len(t) \in Nat /\ Len(s \o t) = Len(s) + Len(t)
      /\ \A k \in 1..Len(s) : (s \o t)[k] = s[k]
      /\ \A k \in 1..Len(t) : (s \o t)[Len(s) + k] = t[k]
      /\ \A k \in 1..Len(s \o t) : k \in 1..Len(s) \/ \E j \in 1..Len(t) : k = Len(s) + j
  BY JoinIs
<1>2. ASSUME NEW k \in Nat \ {0}, Quiet(t, b, 1), Quiet(s, b, k) PROVE Quiet(s \o t, b, k)
  <2>1. ASSUME NEW l \in k..Len(s \o t) PROVE (s \o t)[l].block # b
    <3>1. CASE l \in 1..Len(s)
      BY <1>1, <1>2, <3>1 DEF Quiet
    <3>2. CASE l \notin 1..Len(s)
      <4>1. PICK j \in 1..Len(t) : l = Len(s) + j
        BY <1>1, <2>1, <3>2
      <4>2. QED
        BY <1>1, <1>2, <4>1 DEF Quiet
    <3>3. QED
      BY <3>1, <3>2
  <2>2. QED
    BY <2>1 DEF Quiet
<1>3. ASSUME NEW k \in 1..Len(t), Quiet(t, b, k + 1) PROVE Quiet(s \o t, b, Len(s) + k + 1)
  <2>1. ASSUME NEW l \in Len(s) + k + 1..Len(s \o t) PROVE (s \o t)[l].block # b
    <3>1. PICK j \in k + 1..Len(t) : l = Len(s) + j
      <4>1. l - Len(s) \in k + 1..Len(t) /\ l = Len(s) + (l - Len(s))
        BY <1>1, <2>1
      <4>2. QED
        BY <4>1
    <3>2. j \in 1..Len(t)
      BY <1>1, <3>1
    <3>3. QED
      BY <1>1, <1>3, <3>1, <3>2 DEF Quiet
  <2>2. QED
    BY <2>1 DEF Quiet
<1>4. ASSUME PendingIn(s, Q, b), Quiet(t, b, 1) PROVE PendingIn(s \o t, Q, b)
  <2>1. CASE b \in Q /\ Quiet(s, b, 1)
    BY <1>2, <1>4, <2>1 DEF PendingIn
  <2>2. ASSUME NEW k \in 1..Len(s), s[k] = Req(b), Quiet(s, b, k + 1) PROVE PendingIn(s \o t, Q, b)
    <3>1. k \in 1..Len(s \o t) /\ (s \o t)[k] = Req(b) /\ Quiet(s \o t, b, k + 1)
      BY <1>1, <1>2, <1>4, <2>2
    <3>2. QED
      BY <3>1 DEF PendingIn
  <2>3. QED
    BY <1>4, <2>1, <2>2 DEF PendingIn
<1>5. ASSUME NEW k \in 1..Len(t), t[k] = Req(b), Quiet(t, b, k + 1) PROVE PendingIn(s \o t, Q, b)
  <2>1. Len(s) + k \in 1..Len(s \o t) /\ (s \o t)[Len(s) + k] = Req(b) /\ Quiet(s \o t, b, Len(s) + k + 1)
    BY <1>1, <1>3, <1>5
  <2>2. QED
    BY <2>1 DEF PendingIn
<1>6. QED
  BY <1>4, <1>5

\* Answers are read one by one, and more of them come.
LEMMA AnsweredMoves ==
  ASSUME NEW s \in Seq(FromMsg), NEW t \in Seq(FromMsg), NEW b
  PROVE  /\ AnsweredIn(s \o t, b) <=> AnsweredIn(s, b) \/ AnsweredIn(t, b)
         /\ s # <<>> => (AnsweredIn(s, b) <=> Answers(Head(s), b) \/ AnsweredIn(Tail(s), b))
<1> HIDE DEF FromMsg
<1>1. /\ Len(s) \in Nat /\ Len(t) \in Nat /\ Len(s \o t) = Len(s) + Len(t)
      /\ \A k \in 1..Len(s) : (s \o t)[k] = s[k]
      /\ \A k \in 1..Len(t) : (s \o t)[Len(s) + k] = t[k]
      /\ \A k \in 1..Len(s \o t) : k \in 1..Len(s) \/ \E j \in 1..Len(t) : k = Len(s) + j
  BY JoinIs
<1>2. AnsweredIn(s, b) => AnsweredIn(s \o t, b)
  <2>1. 1..Len(s) \subseteq 1..Len(s \o t)
    BY <1>1
  <2>2. QED
    BY <1>1, <2>1 DEF AnsweredIn
<1>3. AnsweredIn(t, b) => AnsweredIn(s \o t, b)
  <2>1. \A k \in 1..Len(t) : Len(s) + k \in 1..Len(s \o t)
    BY <1>1
  <2>2. QED
    BY <1>1, <2>1 DEF AnsweredIn
<1>4. AnsweredIn(s \o t, b) => AnsweredIn(s, b) \/ AnsweredIn(t, b)
  BY <1>1 DEF AnsweredIn
<1>5. ASSUME s # <<>> PROVE AnsweredIn(s, b) <=> Answers(Head(s), b) \/ AnsweredIn(Tail(s), b)
  <2>1. /\ Len(s) \in Nat \ {0} /\ Len(Tail(s)) = Len(s) - 1 /\ Head(s) = s[1]
        /\ \A k \in 1..Len(s) - 1 : Tail(s)[k] = s[k + 1]
    BY <1>5, TailIs
  <2>2. \A k \in 1..Len(s) : k = 1 \/ \E j \in 1..Len(s) - 1 : k = j + 1
    <3>1. ASSUME NEW k \in 1..Len(s), k # 1 PROVE k - 1 \in 1..Len(s) - 1 /\ k = (k - 1) + 1
      BY <2>1, <3>1
    <3>2. QED
      BY <3>1
  <2>3. 1 \in 1..Len(s) /\ \A j \in 1..Len(s) - 1 : j + 1 \in 1..Len(s)
    BY <2>1
  <2>4. QED
    BY <2>1, <2>2, <2>3 DEF AnsweredIn
<1>6. QED
  BY <1>2, <1>3, <1>4, <1>5
\* Data that answers a request covers this one block.
LEMMA WholeIs ==
  ASSUME NEW b \in AllBlocks
  PROVE  /\ Whole(b).kind = "piece" /\ Whole(b).piece = b[1]
         /\ Whole(b).begin = b[2] * BlockSize /\ Whole(b).len = block_len(b[1], b[2])
         /\ Whole(b).begin \in Nat /\ Whole(b).len \in Nat
         /\ Covers(b[1], Whole(b).begin, Whole(b).len) = {b[2]}
         /\ \A c \in AllBlocks : Whole(c) = Whole(b) => c = b
<1>1. PICK p \in Pieces, i \in Nat, B \in Nat \ {0} :
          b = <<p, i>> /\ p = b[1] /\ i = b[2] /\ i \in BlocksOf(p) /\ B = BlockSize
  BY IsBlock, Sizes
<1>2. \A x, y \in Nat, d \in Nat \ {0} : y * d <= x * d /\ x * d < y * d + d => x = y
  <2>1. \A x, y, d \in Nat : x <= y => x * d <= y * d
    OBVIOUS
  <2>2. \A x, d \in Nat : (x + 1) * d = x * d + d /\ x * d \in Nat
    OBVIOUS
  <2>3. ASSUME NEW x \in Nat, NEW y \in Nat, NEW d \in Nat \ {0}, y * d <= x * d, x * d < y * d + d PROVE x = y
    <3>1. CASE x < y
      <4>1. (x + 1) * d <= y * d
        BY <2>1, <3>1
      <4>2. QED
        BY <2>2, <2>3, <4>1
    <3>2. CASE y < x
      <4>1. (y + 1) * d <= x * d
        BY <2>1, <3>2
      <4>2. QED
        BY <2>2, <2>3, <4>1
    <3>3. QED
      BY <3>1, <3>2
  <2>4. QED
    BY <2>3
<1>3. /\ Whole(b).kind = "piece" /\ Whole(b).piece = b[1]
      /\ Whole(b).begin = b[2] * BlockSize /\ Whole(b).len = block_len(b[1], b[2])
  BY DEF Whole, Data
<1>4. PICK n \in 1..B : n = block_len(p, i)
  BY <1>1, BlockLen
<1>5. i * B \in Nat /\ n \in Nat
  BY <1>1, <1>4
<1>6. ASSUME NEW j \in BlocksOf(p), BlockUnits(p, j) \subseteq i * B..i * B + n - 1 PROVE j = i
  <2>1. j \in Nat /\ <<p, j>> \in AllBlocks
    BY Sizes, IsBlock
  <2>2. block_len(p, j) \in 1..B
    BY <1>1, <2>1, BlockLen
  <2>3. PICK l \in 1..B : l = block_len(p, j)
    BY <2>2
  <2>4. j * B \in Nat
    BY <1>1, <2>1
  <2>5. j * B \in j * B..j * B + l - 1
    BY <2>3, <2>4
  <2>6. j * B \in BlockUnits(p, j)
    BY <1>1, <2>3, <2>5 DEF BlockUnits
  <2>7. i * B <= j * B /\ j * B < i * B + B
    BY <1>1, <1>4, <1>5, <1>6, <2>4, <2>6
  <2>8. QED
    BY <1>1, <1>2, <2>1, <2>7
<1>7. BlockUnits(p, i) = i * B..i * B + n - 1
  BY <1>1, <1>4 DEF BlockUnits
<1>8. Covers(p, i * B, n) = {i}
  BY <1>1, <1>6, <1>7 DEF Covers
<1>9. ASSUME NEW c \in AllBlocks, Whole(c) = Whole(b) PROVE c = b
  <2>1. c[1] = p /\ c[2] * B = i * B /\ c[2] \in Nat /\ c = <<c[1], c[2]>>
    <3>1. Whole(c).piece = c[1] /\ Whole(c).begin = c[2] * BlockSize
      BY DEF Whole, Data
    <3>2. QED
      BY <1>1, <1>3, <1>9, <3>1, IsBlock, Sizes
  <2>2. c[2] = i
    <3>1. PICK j \in Nat : j = c[2]
      BY <2>1
    <3>2. i * B <= j * B /\ j * B < i * B + B
      BY <1>1, <1>5, <2>1, <3>1
    <3>3. QED
      BY <1>1, <1>2, <3>1, <3>2
  <2>3. QED
    BY <1>1, <2>1, <2>2
<1>10. QED
  BY <1>1, <1>3, <1>4, <1>5, <1>8, <1>9

\* A mark outlives its request in nothing but dropped, or a rival's piece.
InIssue(b) == \E k \in 1..Len(issue.reqs) : issue.reqs[k] = b
LiveAt(b) == ~over /\ Asks(b) /\ ~InIssue(b) /\ b \notin dropped => b[1] \in has \/ Live(b)
LiveInv == \A b \in AllBlocks : LiveAt(b)

\* A step that adds no mark and takes no message away.
LEMMA LiveCarry ==
  ASSUME LiveInv, NEW b \in AllBlocks, over => over', Asks(b)' => Asks(b), InIssue(b) => InIssue(b)',
         b \in dropped => b \in dropped', has \subseteq has', Live(b) => Live(b)'
  PROVE  LiveAt(b)'
BY DEF LiveInv, LiveAt

\* Nothing sent, read or served: the same blocks are alive.
LEMMA LiveSame ==
  ASSUME UNCHANGED <<toRemote, fromRemote, remoteQ>>, NEW b
  PROVE  Live(b)' <=> Live(b)
BY DEF Live, Pending, Silent, Answered

\* The marks of the slots: only next_request adds one.
LEMMA MarksOnlyAsked ==
  ASSUME SlotInv, Wires, IssueInv, [Next]_vars, NEW b \in AllBlocks, Asks(b)', ~Asks(b)
  PROVE  InIssue(b)' /\ ~InIssue(b) /\ issue' # issue /\ NextRequest(b[1]) /\ b[2] = Min(Unasked(b[1]))
<1>1. b[1] \in Pieces /\ slot \in [Pieces -> AnySlot] /\ b = <<b[1], b[2]>>
  BY IsBlock DEF SlotInv
<1>2. slot' # slot
  BY DEF Asks
<1>3. ~ \E f \in {[p \in Pieces |-> NoSlot],
                  [p \in Pieces |-> IF p \in Staged THEN NoSlot ELSE slot[p]],
                  [p \in Pieces |-> IF p \in issue.starting THEN Fresh ELSE slot[p]]} : slot' = f
  BY <1>1 DEF Asks, NoSlot, Fresh
<1>4. ASSUME NEW p \in Pieces, NextRequest(p)
      PROVE  InIssue(b)' /\ ~InIssue(b) /\ issue' # issue /\ NextRequest(b[1]) /\ b[2] = Min(Unasked(b[1]))
  <2>1. PICK i : i = Min(Unasked(p))
    OBVIOUS
  <2>2. slot' = [slot EXCEPT ![p].requested = @ \cup {i}] /\ issue' = [issue EXCEPT !.reqs = Append(@, <<p, i>>)]
    BY <1>4, <2>1 DEF NextRequest
  <2>3. b[1] = p /\ b[2] = i
    BY <1>1, <2>2 DEF Asks, AnySlot
  <2>4. issue \in Issues /\ issue.reqs \in Seq(AllBlocks) /\ Len(issue.reqs) \in Nat
    BY DEF IssueInv, Issues
  <2>5. issue'.reqs = Append(issue.reqs, b)
    BY <1>1, <2>2, <2>3, <2>4 DEF Issues
  <2>6. Len(issue'.reqs) = Len(issue.reqs) + 1 /\ issue'.reqs[Len(issue.reqs) + 1] = b
    BY <2>4, <2>5
  <2>7. ~InIssue(b)
    BY DEF InIssue, IssueInv
  <2>8. InIssue(b)' /\ issue' # issue
    BY <2>4, <2>6 DEF InIssue
  <2>9. QED
    BY <1>4, <2>1, <2>3, <2>7, <2>8
<1>5. ~ (\E p \in Pieces : StartPiece(p)) /\ ~BeginIssue /\ ~EndIssue /\ ~AbortStart /\ ~OpenPiece
  BY <1>2, <1>3 DEF StartPiece, BeginIssue, EndIssue, AbortStart, OpenPiece
<1>6. ~ OnChoke /\ ~OnUnchoke /\ ~OnAllowedFast
  BY <1>2 DEF OnChoke, OnUnchoke, OnAllowedFast
<1>7. ~ OnReject
  <2>1. SUFFICES ASSUME NEW c, slot' = [slot EXCEPT ![c[1]].requested = @ \ {c[2]}] PROVE FALSE
    BY <1>2 DEF OnReject
  <2>2. QED
    BY <1>1, <2>1 DEF Asks, AnySlot
<1>8. ~ OnPiece
  <2>1. SUFFICES ASSUME NEW p, NEW begin, NEW len, p \in Staged,
                        slot' = [slot EXCEPT ![p] = IF Ingest(p, begin, len).have = BlocksOf(p)
                                            THEN [Ingest(p, begin, len) EXCEPT !.st = "hashing"]
                                            ELSE Ingest(p, begin, len)]
                 PROVE FALSE
    BY <1>2, <1>3 DEF OnPiece
  <2>2. p \in Pieces /\ slot[p].st = "assembling" /\ slot[p] \in AnySlot
    BY <1>1, <2>1 DEF Staged
  <2>3. /\ Ingest(p, begin, len).requested = slot[p].requested
        /\ Ingest(p, begin, len).have = slot[p].have \cup Covers(p, begin, len)
        /\ Ingest(p, begin, len).st = "assembling"
        /\ [Ingest(p, begin, len) EXCEPT !.st = "hashing"].st = "hashing"
    BY <2>2 DEF Ingest, AnySlot
  <2>4. \A q \in Pieces : q # p => slot'[q] = slot[q]
    BY <1>1, <2>1
  <2>5. slot'[p] = IF Ingest(p, begin, len).have = BlocksOf(p)
                   THEN [Ingest(p, begin, len) EXCEPT !.st = "hashing"] ELSE Ingest(p, begin, len)
    BY <1>1, <2>1, <2>2
  <2>6. b[1] = p
    BY <1>1, <2>4 DEF Asks
  <2>7. QED
    BY <2>2, <2>3, <2>5, <2>6 DEF Asks
<1>9. ~ \E p \in Pieces, ok \in BOOLEAN : HashOutcome(p, ok) \/ RivalEnds(p, ok)
  BY <1>1, <1>2 DEF HashOutcome, RivalEnds, OursUnchanged, Asks, NoSlot
<1>10. ~EnterEndgame /\ ~ \E early \in BOOLEAN : Stall(early)
  <2>1. SUFFICES ASSUME slot' = requeue_timed_out PROVE FALSE
    BY DEF EnterEndgame, Stall, TakeBack
  <2>2. slot'[b[1]] = [slot[b[1]] EXCEPT !.requested = @ \cap slot[b[1]].have] \/ slot'[b[1]] = slot[b[1]]
    BY <1>1, <2>1 DEF requeue_timed_out
  <2>3. QED
    BY <1>1, <2>2 DEF Asks, AnySlot
<1>11. ~LeechComplete /\ ~ \E early \in BOOLEAN : IdleClose(early)
  BY <1>3 DEF LeechComplete, IdleClose
<1>12. ~ \E n \in Pipelines : AdaptPipeline(n)
  BY <1>2 DEF AdaptPipeline
<1>13. ~ \E p \in Pieces : RivalClaims(p) \/ RemoteAllowsFast(p)
  BY <1>2 DEF RivalClaims, RemoteAllowsFast, RemoteUnchanged, OursUnchanged
<1>14. ~set_caps /\ ~Spend /\ ~Refill /\ ~RemoteReads /\ ~RemoteUnchokes /\ ~RemoteChokes
  BY <1>2 DEF set_caps, Spend, Refill, RemoteReads, RemoteUnchokes, RemoteChokes, RemoteUnchanged, OursUnchanged
<1>15. ~ \E c \in AllBlocks : RemoteServes(c) \/ RemoteDrops(c)
  BY <1>2 DEF RemoteServes, RemoteDrops, RemoteUnchanged, OursUnchanged
<1>16. ~ \E p \in Pieces, begin \in 0..BlockSize, len \in 1..2 * BlockSize : RemoteInvents(p, begin, len)
  BY <1>2 DEF RemoteInvents, OursUnchanged
<1>17. ~UNCHANGED vars
  BY <1>2 DEF vars
<1>18. QED
  BY <1>4, <1>5, <1>6, <1>7, <1>8, <1>9, <1>10, <1>11, <1>12, <1>13, <1>14, <1>15, <1>16, <1>17
  DEF Next, IssueNext, ReceiveNext, RemoteNext
\* The end of an issue sends its requests: each is the last word about its block.
LEMMA IssueSent ==
  ASSUME SlotInv, Wires, IssueInv, EndIssue, NEW b \in AllBlocks
  PROVE  IF InIssue(b) THEN Pending(b)' ELSE Pending(b) => Pending(b)'
<1> DEFINE t == [k \in 1..Len(issue.reqs) |-> Req(issue.reqs[k])]
<1>1. issue.reqs \in Seq(AllBlocks) /\ Len(issue.reqs) \in Nat
  BY DEF IssueInv, Issues
<1>2. t \in Seq(ToMsg) /\ Len(t) = Len(issue.reqs)
  BY <1>1, Messages
<1>3. toRemote' = toRemote \o t /\ remoteQ' = remoteQ
  BY DEF EndIssue, remoteVars
<1>4. \A k \in 1..Len(t) : t[k] = Req(issue.reqs[k]) /\ t[k].block = issue.reqs[k]
  BY <1>2 DEF Req
<1>5. toRemote \in Seq(ToMsg)
  BY DEF Wires
<1> HIDE DEF t
<1>6. ASSUME NEW k \in 1..Len(issue.reqs), issue.reqs[k] = b PROVE Pending(b)'
  <2>1. k \in 1..Len(t) /\ t[k] = Req(b)
    BY <1>2, <1>4, <1>6
  <2>2. \A l \in k + 1..Len(t) : l \in 1..Len(issue.reqs) /\ l # k
    BY <1>1, <1>2
  <2>3. Quiet(t, b, k + 1)
    BY <1>2, <1>4, <1>6, <2>2 DEF Quiet, IssueInv
  <2>4. PendingIn(toRemote \o t, remoteQ, b)
    BY <1>2, <1>5, <2>1, <2>3, PendingJoin
  <2>5. QED
    BY <1>3, <2>4 DEF Pending, Silent, PendingIn, Quiet
<1>7. ASSUME ~InIssue(b), Pending(b) PROVE Pending(b)'
  <2>1. Quiet(t, b, 1)
    BY <1>2, <1>4, <1>7 DEF Quiet, InIssue
  <2>2. PendingIn(toRemote, remoteQ, b)
    BY <1>7, LiveIs
  <2>3. PendingIn(toRemote \o t, remoteQ, b)
    BY <1>2, <1>5, <2>1, <2>2, PendingJoin
  <2>4. QED
    BY <1>3, <2>3 DEF Pending, Silent, PendingIn, Quiet
<1>8. QED
  BY <1>6, <1>7 DEF InIssue

\* A message is read: what it does not answer stays alive.
LEMMA StillAlive ==
  ASSUME Wires, NEW k, Receives(k), NEW b \in AllBlocks, ~Answers(Head(fromRemote), b), Live(b)
  PROVE  Live(b)'
<1>1. fromRemote \in Seq(FromMsg) /\ fromRemote # <<>> /\ fromRemote' = Tail(fromRemote)
      /\ toRemote' = toRemote /\ remoteQ' = remoteQ
  BY DEF Wires, Receives, remoteVars
<1>2. Pending(b) => Pending(b)'
  BY <1>1 DEF Pending, Silent
<1>3. ASSUME Answered(b) PROVE Answered(b)'
  <2>1. AnsweredIn(fromRemote, b)
    BY <1>3, LiveIs
  <2>2. AnsweredIn(Tail(fromRemote), b)
    BY <1>1, <2>1, AnsweredMoves
  <2>3. QED
    BY <1>1, <2>2 DEF Answered, AnsweredIn, Answers
<1>4. QED
  BY <1>2, <1>3 DEF Live

\* An answer is read: the mark is gone, or the piece is here.
LEMMA AnswerTakesMark ==
  ASSUME Wires, SlotInv, ReceiveNext, NEW b \in AllBlocks, Answers(Head(fromRemote), b), Asks(b)'
  PROVE  over' \/ b[1] \in has'
<1>1. b[1] \in Pieces /\ slot \in [Pieces -> AnySlot] /\ b = <<b[1], b[2]>>
  BY IsBlock DEF SlotInv
<1>2. Head(fromRemote).kind \in {"reject", "piece"}
  BY DEF Answers, Rej
<1>3. CASE OnReject
  <2>1. Head(fromRemote) = Rej(b)
    BY <1>3 DEF OnReject, Receives, Answers
  <2>2. has' = has
    BY <1>3 DEF OnReject, torrentVars
  <2>3. CASE ~downloading
    BY <1>1, <2>2, <2>3 DEF downloading
  <2>4. CASE downloading
    <3>1. slot' = IF b \in outstanding_list THEN [slot EXCEPT ![b[1]].requested = @ \ {b[2]}] ELSE slot
      <4>1. Head(fromRemote).block = b
        BY <2>1 DEF Rej
      <4>2. QED
        BY <1>3, <2>4, <4>1 DEF OnReject
    <3>2. Slots
      BY DEF SlotInv, Slots, Sound
    <3>3. b \in outstanding_list <=> Asks(b)
      BY <3>2, Outstanding DEF Asks
    <3>4. QED
      BY <1>1, <3>1, <3>3 DEF Asks, AnySlot
  <2>5. QED
    BY <2>3, <2>4
<1>4. CASE OnPiece
  <2>1. Head(fromRemote) = Whole(b)
    BY <1>4 DEF OnPiece, Receives, Answers, Rej
  <2>2. PICK m : m = Head(fromRemote)
    OBVIOUS
  <2>3. m.piece = b[1] /\ Covers(b[1], m.begin, m.len) = {b[2]}
    BY <2>1, <2>2, WholeIs
  <2>4. has' = has /\ (~downloading => b[1] \in has)
    BY <1>1, <1>4 DEF OnPiece, downloading
  <2>5. CASE b[1] \in has \/ ~downloading
    BY <2>4, <2>5
  <2>6. CASE b[1] \notin has /\ downloading /\ b[1] \notin Staged
    <3>1. slot' = slot
      BY <1>4, <2>2, <2>3, <2>6 DEF OnPiece
    <3>2. QED
      BY <1>1, <2>6, <3>1 DEF Asks, Staged
  <2>7. CASE b[1] \notin has /\ downloading /\ b[1] \in Staged
    <3>1. CASE Malformed(b[1], m.begin, m.len)
      BY <1>4, <2>2, <2>3, <2>7, <3>1 DEF OnPiece
    <3>2. CASE ~Malformed(b[1], m.begin, m.len)
      <4> DEFINE s == Ingest(b[1], m.begin, m.len)
      <4>1. slot' = [slot EXCEPT ![b[1]] = IF s.have = BlocksOf(b[1]) THEN [s EXCEPT !.st = "hashing"] ELSE s]
        BY <1>4, <2>2, <2>3, <2>7, <3>2 DEF OnPiece
      <4>2. b[2] \in s.have /\ [s EXCEPT !.st = "hashing"].st = "hashing"
        BY <1>1, <2>3 DEF Ingest, AnySlot
      <4> HIDE DEF s
      <4>3. QED
        BY <1>1, <4>1, <4>2 DEF Asks
    <3>3. QED
      BY <3>1, <3>2
  <2>8. QED
    BY <2>5, <2>6, <2>7
<1>5. QED
  BY <1>2, <1>3, <1>4 DEF ReceiveNext, OnChoke, OnUnchoke, OnAllowedFast, Receives

\* The remote serves, chokes or drops: a live request stays alive or is dropped.
LEMMA RemoteKeeps ==
  ASSUME Wires, NEW b \in AllBlocks, Live(b), NEW sent \in Seq(FromMsg),
         fromRemote' = fromRemote \o sent, toRemote' = toRemote,
         b \in remoteQ => b \in remoteQ' \/ AnsweredIn(sent, b) \/ b \in dropped'
  PROVE  Live(b)' \/ b \in dropped'
<1>1. fromRemote \in Seq(FromMsg)
  BY DEF Wires
<1>2. AnsweredIn(fromRemote, b) \/ AnsweredIn(sent, b) => Answered(b)'
  <2>1. AnsweredIn(fromRemote, b) \/ AnsweredIn(sent, b) => AnsweredIn(fromRemote \o sent, b)
    BY <1>1, AnsweredMoves
  <2>2. QED
    BY <2>1 DEF Answered, AnsweredIn, Answers
<1>3. ASSUME Pending(b) PROVE Live(b)' \/ b \in dropped'
  <2>1. CASE b \in remoteQ' \/ b \notin remoteQ
    BY <1>3, <2>1 DEF Live, Pending, Silent
  <2>2. CASE AnsweredIn(sent, b) \/ b \in dropped'
    BY <1>2, <2>2 DEF Live
  <2>3. QED
    BY <2>1, <2>2
<1>4. QED
  BY <1>2, <1>3, LiveIs DEF Live

\* What RemoteReads does with a message, as one sequence of answers.
LEMMA ReadsSends ==
  ASSUME Wires, RemoteReads
  PROVE  \E sent \in Seq(FromMsg) : \E c \in AllBlocks :
            /\ fromRemote' = fromRemote \o sent /\ c = Head(toRemote).block
            /\ toRemote # <<>> /\ toRemote' = Tail(toRemote) /\ Head(toRemote) \in {Req(c), Can(c)}
            /\ \A b \in AllBlocks : b # c => (b \in remoteQ' <=> b \in remoteQ)
            /\ Head(toRemote) = Can(c) => sent = <<>> /\ c \notin remoteQ'
            /\ Head(toRemote) = Req(c) =>
                  \/ sent = <<>> /\ (c \in remoteQ' \/ c \in dropped')
                  \/ sent = <<Rej(c)>> /\ c \notin remoteQ'
            /\ dropped \subseteq dropped'
<1>1. toRemote \in Seq(ToMsg) /\ fromRemote \in Seq(FromMsg) /\ toRemote # <<>> /\ toRemote' = Tail(toRemote)
  BY DEF Wires, RemoteReads
<1>2. Head(toRemote) \in ToMsg
  BY <1>1, SeqFacts
<1>3. PICK c \in AllBlocks : c = Head(toRemote).block
  BY <1>2 DEF ToMsg
<1>4. Head(toRemote) \in {Req(c), Can(c)} /\ Req(c).kind = "request" /\ Can(c).kind = "cancel"
  BY <1>2, <1>3 DEF ToMsg, Req, Can
<1>5. fromRemote \o <<>> = fromRemote /\ <<>> \in Seq(FromMsg) /\ <<Rej(c)>> \in Seq(FromMsg)
  <2>1. Rej(c) \in FromMsg
    BY Messages
  <2> HIDE DEF FromMsg
  <2>2. QED
    BY <1>1, <2>1
<1>6. CASE Head(toRemote).kind = "cancel"
  <2>1. remoteQ' = remoteQ \ {c} /\ fromRemote' = fromRemote /\ dropped' = dropped
    BY <1>3, <1>6 DEF RemoteReads
  <2>2. QED
    BY <1>1, <1>3, <1>4, <1>5, <1>6, <2>1
<1>7. CASE /\ Head(toRemote).kind # "cancel"
           /\ ~(c \in remoteQ \/ (remoteChokes /\ c[1] \notin remoteAllows))
  <2>1. remoteQ' = remoteQ \cup {c} /\ fromRemote' = fromRemote /\ dropped' = dropped
    BY <1>3, <1>7 DEF RemoteReads
  <2>2. QED
    BY <1>1, <1>3, <1>4, <1>5, <1>7, <2>1
<1>8. CASE /\ Head(toRemote).kind # "cancel"
           /\ c \in remoteQ \/ (remoteChokes /\ c[1] \notin remoteAllows)
  <2>1. Discard({c} \ remoteQ) /\ remoteQ' = remoteQ
    BY <1>3, <1>8 DEF RemoteReads
  <2>2. CASE ~mode.fast
    <3>1. dropped' = dropped \cup ({c} \ remoteQ) /\ fromRemote' = fromRemote
      BY <2>1, <2>2 DEF Discard
    <3>2. QED
      BY <1>1, <1>3, <1>4, <1>5, <1>8, <2>1, <3>1
  <2>3. CASE mode.fast
    <3> DEFINE B == {c} \ remoteQ
               t == [k \in 1..Cardinality(B) |-> Rej(SetToSeq(B)[k])]
    <3>1. fromRemote' = fromRemote \o t /\ dropped' = dropped
      BY <2>1, <2>3 DEF Discard
    <3>2. CASE c \in remoteQ
      <4>1. B = {}
        BY <3>2
      <4>2. Cardinality(B) = 0
        BY <4>1, FS_EmptySet
      <4>3. t = <<>>
        <5>1. B \in SUBSET AllBlocks
          OBVIOUS
        <5>2. t \in Seq(FromMsg)
          <6> HIDE DEF B
          <6>1. QED
            BY <5>1, Batches
        <5>3. Len(t) = 0
          BY <4>2
        <5> HIDE DEF t
        <5>4. QED
          BY <5>2, <5>3
      <4>4. QED
        BY <1>1, <1>3, <1>4, <1>5, <1>8, <2>1, <3>1, <3>2, <4>3
    <3>3. CASE c \notin remoteQ
      <4>a. B = {c}
        BY <3>3
      <4>s. IsFiniteSet({c}) /\ Cardinality({c}) = 1
        BY FS_Singleton
      <4>1. B = {c} /\ IsFiniteSet(B) /\ Cardinality(B) = 1
        <5> HIDE DEF B
        <5>1. QED
          BY <4>a, <4>s
      <4>2. Cardinality(B) = 1
        BY <4>1
      <4>3. SetToSeq(B)[1] = c
        <5>1. SetToSeq(B) \in [1..Cardinality(B) -> B]
          BY <4>1, ListedOnce
        <5>2. QED
          BY <4>1, <4>2, <5>1
      <4>4. t = <<Rej(c)>>
        BY <4>2, <4>3
      <4>5. QED
        BY <1>1, <1>3, <1>4, <1>5, <1>8, <2>1, <3>1, <3>3, <4>4
    <3>4. QED
      BY <3>2, <3>3
  <2>4. QED
    BY <2>2, <2>3
<1>9. QED
  BY <1>6, <1>7, <1>8

\* The remote reads one message: a block that was alive stays so, or it was
\* dropped (a full queue, a Cancel, a choke without the fast extension).
LEMMA ReadsKeep ==
  ASSUME Wires, RemoteReads, NEW b \in AllBlocks, Live(b)
  PROVE  Live(b)' \/ b \in dropped'
<1>1. PICK sent \in Seq(FromMsg), c \in AllBlocks :
            /\ fromRemote' = fromRemote \o sent /\ c = Head(toRemote).block
            /\ toRemote # <<>> /\ toRemote' = Tail(toRemote) /\ Head(toRemote) \in {Req(c), Can(c)}
            /\ \A e \in AllBlocks : e # c => (e \in remoteQ' <=> e \in remoteQ)
            /\ Head(toRemote) = Can(c) => sent = <<>> /\ c \notin remoteQ'
            /\ Head(toRemote) = Req(c) =>
                  \/ sent = <<>> /\ (c \in remoteQ' \/ c \in dropped')
                  \/ sent = <<Rej(c)>> /\ c \notin remoteQ'
            /\ dropped \subseteq dropped'
  BY ReadsSends
<1>2. toRemote \in Seq(ToMsg) /\ fromRemote \in Seq(FromMsg)
  BY DEF Wires
<1>3. AnsweredIn(fromRemote, b) \/ AnsweredIn(sent, b) => Answered(b)'
  <2>1. AnsweredIn(fromRemote, b) \/ AnsweredIn(sent, b) => AnsweredIn(fromRemote \o sent, b)
    BY <1>2, AnsweredMoves
  <2>2. QED
    BY <1>1, <2>1 DEF Answered, AnsweredIn, Answers
<1>4. \A R : PendingIn(Tail(toRemote), R, b) /\ R = remoteQ' => Pending(b)'
  BY <1>1 DEF PendingIn, Quiet, Pending, Silent
<1>5. ASSUME Pending(b) PROVE Live(b)' \/ b \in dropped'
  <2>1. PendingIn(toRemote, remoteQ, b)
    BY <1>5, LiveIs
  <2>2. CASE c # b
    <3>1. b \in remoteQ => b \in remoteQ'
      BY <1>1, <2>2
    <3>2. Head(toRemote) # Req(b)
      BY <1>1, <2>2 DEF Req, Can
    <3>3. PendingIn(Tail(toRemote), remoteQ', b)
      BY <1>1, <1>2, <2>1, <3>1, <3>2, PendingTail
    <3>4. QED
      BY <1>4, <3>3 DEF Live
  <2>3. CASE c = b
    <3>1. ~Quiet(toRemote, b, 1)
      <4>1. 1 \in 1..Len(toRemote) /\ toRemote[1].block = b
        BY <1>1, <1>2, <2>3, TailIs
      <4>2. QED
        BY <4>1 DEF Quiet
    <3>2. PendingIn(toRemote, {}, b)
      BY <2>1, <3>1 DEF PendingIn
    <3>3. PendingIn(Tail(toRemote), remoteQ', b) \/ (Head(toRemote) = Req(b) /\ Quiet(Tail(toRemote), b, 1))
      BY <1>1, <1>2, <3>2, PendingTail
    <3>4. CASE Head(toRemote) = Req(b) /\ Quiet(Tail(toRemote), b, 1)
      <4>1. CASE b \in remoteQ'
        <5>1. PendingIn(Tail(toRemote), remoteQ', b)
          BY <3>4, <4>1 DEF PendingIn
        <5>2. QED
          BY <1>4, <5>1 DEF Live
      <4>2. CASE b \in dropped'
        BY <4>2
      <4>3. CASE sent = <<Rej(b)>>
        <5>1. AnsweredIn(sent, b)
          BY <4>3 DEF AnsweredIn, Answers
        <5>2. QED
          BY <1>3, <5>1 DEF Live
      <4>4. QED
        BY <1>1, <2>3, <3>4, <4>1, <4>2, <4>3
    <3>5. QED
      BY <1>4, <3>3, <3>4 DEF Live
  <2>4. QED
    BY <2>2, <2>3
<1>6. QED
  BY <1>3, <1>5, LiveIs DEF Live

\* RemoteChokes, as one sequence of answers.
LEMMA ChokeSends ==
  ASSUME Wires, RemoteChokes
  PROVE  \E rejects \in Seq(AllBlocks) : \E sent \in Seq(FromMsg) :
            /\ fromRemote' = fromRemote \o sent
            /\ sent = <<Note("choke")>> \o [k \in 1..Len(rejects) |-> Rej(rejects[k])]
            /\ \A j, k \in 1..Len(rejects) : rejects[j] = rejects[k] => j = k
            /\ \A k \in 1..Len(rejects) : rejects[k] \in remoteQ \ remoteQ'
            /\ remoteQ' \subseteq remoteQ /\ dropped \subseteq dropped'
            /\ \A b \in remoteQ : b \in remoteQ' \/ b \in dropped' \/ AnsweredIn(sent, b)
<1> DEFINE gone == {b \in remoteQ : b[1] \notin remoteAllows}
           rejects == IF mode.fast THEN SetToSeq(gone) ELSE <<>>
           t == [k \in 1..Len(rejects) |-> Rej(rejects[k])]
           sent == <<Note("choke")>> \o t
<1>1. /\ remoteQ' = remoteQ \ gone
      /\ fromRemote' = fromRemote \o <<Note("choke")>> \o t
      /\ dropped' = IF mode.fast THEN dropped ELSE dropped \cup gone
  BY DEF RemoteChokes
<1>2. gone \in SUBSET AllBlocks /\ gone \in SUBSET remoteQ
  BY DEF Wires
<1>3. IsFiniteSet(gone)
  BY <1>2, FiniteBlocks, FS_Subset
<1> HIDE DEF gone
<1>4. /\ SetToSeq(gone) \in [1..Cardinality(gone) -> gone] /\ Cardinality(gone) \in Nat
      /\ \A e \in gone : \E k \in 1..Cardinality(gone) : SetToSeq(gone)[k] = e
      /\ \A j, k \in 1..Cardinality(gone) : SetToSeq(gone)[j] = SetToSeq(gone)[k] => j = k
  BY <1>3, ListedOnce
<1>5. SetToSeq(gone) \in Seq(AllBlocks) /\ Len(SetToSeq(gone)) = Cardinality(gone)
  BY <1>2, Batches
<1>6. /\ rejects \in Seq(AllBlocks)
      /\ \A j, k \in 1..Len(rejects) : rejects[j] = rejects[k] => j = k
      /\ \A k \in 1..Len(rejects) : rejects[k] \in gone
      /\ mode.fast => \A e \in gone : \E k \in 1..Len(rejects) : rejects[k] = e
  <2>1. CASE mode.fast
    <3>1. rejects = SetToSeq(gone)
      BY <2>1
    <3> HIDE DEF rejects
    <3>2. QED
      BY <1>4, <1>5, <3>1
  <2>2. CASE ~mode.fast
    BY <2>2
  <2>3. QED
    BY <2>1, <2>2
<1> HIDE DEF rejects
<1>7. t \in Seq(FromMsg) /\ Len(t) = Len(rejects) /\ \A k \in 1..Len(rejects) : t[k] = Rej(rejects[k])
  BY <1>6, Messages
<1>8. <<Note("choke")>> \in Seq(FromMsg) /\ fromRemote \in Seq(FromMsg)
  <2>1. Note("choke") \in FromMsg
    BY Messages
  <2> HIDE DEF FromMsg
  <2>2. QED
    BY <2>1 DEF Wires
<1>a. sent = <<Note("choke")>> \o [k \in 1..Len(rejects) |-> Rej(rejects[k])]
  OBVIOUS
<1> HIDE DEF t
<1>9. sent \in Seq(FromMsg) /\ fromRemote' = fromRemote \o sent
  <2> HIDE DEF FromMsg
  <2>1. QED
    BY <1>1, <1>7, <1>8
<1>10. ASSUME NEW b \in remoteQ PROVE b \in remoteQ' \/ b \in dropped' \/ AnsweredIn(sent, b)
  <2>1. CASE b \in gone /\ mode.fast
    <3>1. PICK k \in 1..Len(rejects) : rejects[k] = b
      BY <1>6, <2>1
    <3>2. k \in 1..Len(t) /\ t[k] = Rej(b)
      BY <1>7, <3>1
    <3>3. AnsweredIn(t, b)
      BY <3>2 DEF AnsweredIn, Answers
    <3>4. QED
      BY <1>7, <1>8, <3>3, AnsweredMoves
  <2>2. QED
    BY <1>1, <2>1
<1> HIDE DEF sent
<1>11. QED
  BY <1>1, <1>2, <1>6, <1>9, <1>10, <1>a
\* LiveInv is inductive, given BlockInv before and after the step.
LEMMA LiveStep ==
  ASSUME BlockInv, BlockInv', LiveInv, [Next]_vars
  PROVE  LiveInv'
<1>i. SlotInv /\ Wires /\ IssueInv /\ Flags
  BY DEF BlockInv
<1> SUFFICES ASSUME NEW b \in AllBlocks PROVE LiveAt(b)'
  BY DEF LiveInv, AllBlocks, BlocksOf, num_blocks
<1>0. ~InIssue(b)' /\ Asks(b)' => Asks(b)
  BY <1>i, MarksOnlyAsked
<1>1. ASSUME UNCHANGED <<toRemote, fromRemote, remoteQ>>, b \in dropped => b \in dropped' \/ InIssue(b)',
             InIssue(b) => InIssue(b)', over => over', has \subseteq has'
      PROVE  LiveAt(b)'
  <2>1. Live(b) => Live(b)'
    BY <1>1, LiveSame
  <2>2. QED
    BY <1>0, <1>1, <2>1 DEF LiveInv, LiveAt
<1>2. ASSUME Live(b) => Live(b)' \/ b \in dropped', UNCHANGED <<over, has, issue>>, dropped \subseteq dropped' PROVE LiveAt(b)'
  <2>1. InIssue(b)' <=> InIssue(b)
    BY <1>2 DEF InIssue
  <2>2. QED
    BY <1>0, <1>2, <2>1 DEF LiveInv, LiveAt
<1>3. CASE BeginIssue
  <2>1. ~InIssue(b)
    BY <1>3, NoIssueIs DEF BeginIssue, InIssue
  <2>2. QED
    BY <1>1, <1>3, <2>1 DEF BeginIssue, torrentVars, wires, remoteVars, history
<1>4. CASE OpenPiece \/ AbortStart
  <2>1. issue'.reqs = issue.reqs
    BY <1>4, <1>i DEF OpenPiece, AbortStart, IssueInv, Issues
  <2>2. InIssue(b) => InIssue(b)'
    BY <2>1 DEF InIssue
  <2>3. QED
    BY <1>1, <1>4, <2>2 DEF OpenPiece, AbortStart, IssueUnchanged, wires, remoteVars
<1>5. CASE EndIssue
  <2>1. IF InIssue(b) THEN Pending(b)' ELSE Pending(b) => Pending(b)'
    BY <1>5, <1>i, IssueSent
  <2>2. Answered(b) => Answered(b)'
    BY <1>5 DEF EndIssue, Answered
  <2>3. InIssue(b) => Live(b)'
    BY <2>1 DEF Live
  <2>4. ~InIssue(b) => (Live(b) => Live(b)')
    BY <2>1, <2>2 DEF Live
  <2>5. UNCHANGED <<has, over, dropped>>
    BY <1>5 DEF EndIssue, torrentVars, history
  <2>6. slot' = slot
    BY <1>5 DEF EndIssue
  <2>7. Asks(b)' => Asks(b)
    BY <2>6 DEF Asks
  <2>8. QED
    BY <2>3, <2>4, <2>5, <2>7 DEF LiveInv, LiveAt
<1>6. ASSUME NEW p \in Pieces, StartPiece(p) PROVE LiveAt(b)'
  <2>1. issue'.reqs = issue.reqs
    BY <1>6, <1>i DEF StartPiece, IssueInv, Issues
  <2>2. InIssue(b) => InIssue(b)'
    BY <2>1 DEF InIssue
  <2>3. QED
    BY <1>1, <1>6, <2>2 DEF StartPiece, IssueUnchanged, wires, remoteVars
<1>7. ASSUME NEW p \in Pieces, NextRequest(p) PROVE LiveAt(b)'
  <2>1. PICK e : e = <<p, Min(Unasked(p))>>
    OBVIOUS
  <2>2. issue' = [issue EXCEPT !.reqs = Append(@, e)] /\ dropped' = dropped \ {e}
    BY <1>7, <2>1 DEF NextRequest
  <2>3. issue.reqs \in Seq(AllBlocks) /\ issue \in Issues
    BY <1>i DEF IssueInv, Issues
  <2>4. issue'.reqs = Append(issue.reqs, e)
    BY <2>2, <2>3 DEF Issues
  <2>5. /\ Len(issue.reqs) \in Nat /\ Len(issue'.reqs) = Len(issue.reqs) + 1
        /\ \A k \in 1..Len(issue.reqs) : issue'.reqs[k] = issue.reqs[k]
        /\ issue'.reqs[Len(issue.reqs) + 1] = e
    BY <2>3, <2>4
  <2>6. InIssue(b) => InIssue(b)'
    BY <2>5 DEF InIssue
  <2>7. b = e => InIssue(b)'
    BY <2>5 DEF InIssue
  <2>8. QED
    BY <1>1, <1>7, <2>2, <2>6, <2>7 DEF NextRequest, IssueUnchanged, wires, remoteVars, torrentVars
<1>8. CASE ReceiveNext
  <2>1. PICK k \in {"choke", "unchoke", "allow", "reject", "piece"} : Receives(k)
    BY <1>8 DEF ReceiveNext, OnChoke, OnUnchoke, OnAllowedFast, OnReject, OnPiece
  <2>2. issue' = issue /\ dropped' = dropped
    BY <2>1 DEF Receives, history
  <2>3. InIssue(b)' <=> InIssue(b)
    BY <2>2 DEF InIssue
  <2>4. has' = has
    BY <1>8 DEF ReceiveNext, OnChoke, OnUnchoke, OnAllowedFast, OnReject, OnPiece, torrentVars
  <2>5. over => over'
    BY <2>1 DEF Receives
  <2>6. CASE Answers(Head(fromRemote), b)
    <3>1. Asks(b)' => over' \/ b[1] \in has'
      BY <1>8, <1>i, <2>6, AnswerTakesMark
    <3>2. QED
      BY <3>1 DEF LiveAt
  <2>7. CASE ~Answers(Head(fromRemote), b)
    <3>1. Live(b) => Live(b)'
      BY <1>i, <2>1, <2>7, StillAlive
    <3>2. QED
      BY <1>0, <2>2, <2>3, <2>4, <2>5, <3>1 DEF LiveInv, LiveAt
  <2>8. QED
    BY <2>6, <2>7
<1>9. ASSUME NEW p \in Pieces, NEW ok \in BOOLEAN, HashOutcome(p, ok) \/ RivalEnds(p, ok) PROVE LiveAt(b)'
  <2>1. issue' = issue /\ UNCHANGED <<toRemote, fromRemote, remoteQ, dropped, over>> /\ has \subseteq has'
    BY <1>9 DEF HashOutcome, RivalEnds, OursUnchanged, wires, remoteVars, history
  <2>2. InIssue(b) => InIssue(b)'
    BY <2>1 DEF InIssue
  <2>3. QED
    BY <1>1, <2>1, <2>2
<1>10. CASE EnterEndgame \/ (\E early \in BOOLEAN : Stall(early)) \/ LeechComplete
            \/ \E early \in BOOLEAN : IdleClose(early)
  <2>1. slot' = requeue_timed_out \/ slot' = [p \in Pieces |-> IF p \in Staged THEN NoSlot ELSE slot[p]]
        \/ slot' = [p \in Pieces |-> NoSlot]
    BY <1>10 DEF EnterEndgame, Stall, TakeBack, LeechComplete, IdleClose
  <2>2. b[1] \in Pieces /\ slot[b[1]] \in AnySlot
    BY <1>i, IsBlock DEF SlotInv
  <2>3. ~Asks(b)'
    BY <2>1, <2>2 DEF Asks, requeue_timed_out, Staged, NoSlot, AnySlot
  <2>4. QED
    BY <2>3 DEF LiveAt
<1>11. ASSUME NEW n \in Pipelines, AdaptPipeline(n) PROVE LiveAt(b)'
  BY <1>1, <1>11 DEF AdaptPipeline, SessionUnchanged, torrentVars, remoteVars, history, InIssue
<1>12. ASSUME NEW p \in Pieces, RivalClaims(p) PROVE LiveAt(b)'
  BY <1>1, <1>12 DEF RivalClaims, OursUnchanged, wires, remoteVars, history, InIssue
<1>13. CASE set_caps \/ Spend \/ Refill
  BY <1>1, <1>13 DEF set_caps, Spend, Refill, OursUnchanged, wires, remoteVars, history, InIssue
<1>14. CASE RemoteReads
  BY <1>2, <1>14, <1>i, ReadsKeep, ReadsSends DEF RemoteReads, RemoteUnchanged, OursUnchanged
<1>f. fromRemote \in Seq(FromMsg)
  BY <1>i DEF Wires
<1>a. ASSUME NEW e \in FromMsg, fromRemote' = Append(fromRemote, e), toRemote' = toRemote,
             b \in remoteQ => b \in remoteQ' \/ Answers(e, b) \/ b \in dropped'
      PROVE  Live(b) => Live(b)' \/ b \in dropped'
  <2>1. <<e>> \in Seq(FromMsg) /\ fromRemote' = fromRemote \o <<e>> /\ Len(<<e>>) = 1 /\ <<e>>[1] = e
    <3> HIDE DEF FromMsg
    <3>1. QED
      BY <1>f, <1>a, OneMore
  <2>2. Answers(e, b) => AnsweredIn(<<e>>, b)
    BY DEF AnsweredIn
  <2>3. QED
    BY <1>i, <1>a, <2>1, <2>2, RemoteKeeps
<1>15. ASSUME NEW c \in AllBlocks, RemoteServes(c) PROVE LiveAt(b)'
  <2>1. fromRemote' = Append(fromRemote, Whole(c)) /\ toRemote' = toRemote /\ remoteQ' = remoteQ \ {c} /\ dropped' = dropped
    BY <1>15 DEF RemoteServes
  <2>2. Whole(c) \in FromMsg /\ Answers(Whole(c), c)
    BY Messages, WholeIs DEF Answers
  <2>3. Live(b) => Live(b)' \/ b \in dropped'
    BY <1>a, <2>1, <2>2
  <2>4. QED
    BY <1>2, <1>15, <2>1, <2>3 DEF RemoteServes, RemoteUnchanged, OursUnchanged
<1>16. CASE RemoteUnchokes
  <2>1. Note("unchoke") \in FromMsg
    BY Messages
  <2>2. Live(b) => Live(b)' \/ b \in dropped'
    BY <1>a, <1>16, <2>1 DEF RemoteUnchokes
  <2>3. QED
    BY <1>2, <1>16, <2>2 DEF RemoteUnchokes, RemoteUnchanged, OursUnchanged
<1>17. ASSUME NEW p \in Pieces, RemoteAllowsFast(p) PROVE LiveAt(b)'
  <2>1. Allow(p) \in FromMsg
    BY Messages
  <2>2. Live(b) => Live(b)' \/ b \in dropped'
    BY <1>a, <1>17, <2>1 DEF RemoteAllowsFast
  <2>3. QED
    BY <1>2, <1>17, <2>2 DEF RemoteAllowsFast, RemoteUnchanged, OursUnchanged
<1>18. ASSUME NEW p \in Pieces, NEW begin \in 0..BlockSize, NEW len \in 1..2 * BlockSize,
              RemoteInvents(p, begin, len)
       PROVE  LiveAt(b)'
  <2>1. begin \in Nat /\ len \in Nat
    BY Sizes
  <2>2. Data(p, begin, len) \in FromMsg
    BY <2>1, Messages
  <2>3. Live(b) => Live(b)' \/ b \in dropped'
    BY <1>a, <1>18, <2>2 DEF RemoteInvents, remoteVars
  <2>4. QED
    BY <1>2, <1>18, <2>3 DEF RemoteInvents, OursUnchanged
<1>19. CASE RemoteChokes
  <2>1. PICK sent \in Seq(FromMsg) :
            /\ fromRemote' = fromRemote \o sent /\ dropped \subseteq dropped'
            /\ \A e \in remoteQ : e \in remoteQ' \/ e \in dropped' \/ AnsweredIn(sent, e)
    BY <1>19, <1>i, ChokeSends
  <2>2. toRemote' = toRemote
    BY <1>19 DEF RemoteChokes
  <2>3. Live(b) => Live(b)' \/ b \in dropped'
    BY <1>i, <2>1, <2>2, RemoteKeeps
  <2>4. QED
    BY <1>2, <1>19, <2>1, <2>3 DEF RemoteChokes, RemoteUnchanged, OursUnchanged
<1>20. ASSUME NEW c \in AllBlocks, RemoteDrops(c) PROVE LiveAt(b)'
  <2>1. remoteQ' = remoteQ \ {c} /\ dropped' = dropped \cup {c} /\ UNCHANGED <<toRemote, fromRemote>>
    BY <1>20 DEF RemoteDrops, wires
  <2>2. Live(b) => Live(b)' \/ b \in dropped'
    BY <2>1 DEF Live, Pending, Silent, Answered
  <2>3. QED
    BY <1>2, <1>20, <2>1, <2>2 DEF RemoteDrops, RemoteUnchanged, OursUnchanged
<1>21. CASE UNCHANGED vars
  BY <1>1, <1>21 DEF vars, InIssue
<1>22. QED
  BY <1>3, <1>4, <1>5, <1>6, <1>7, <1>8, <1>9, <1>10, <1>11, <1>12, <1>13, <1>14, <1>15, <1>16, <1>17,
     <1>18, <1>19, <1>20, <1>21
  DEF Next, IssueNext, RemoteNext
-----------------------------------------------------------------------------
(* Nobody is asked twice.                                                  *)

\* Messages of a set on a wire, and at most one of them.
On(s, E) == \E k \in 1..Len(s) : s[k] \in E
Few(s, E) == \A j, k \in 1..Len(s) : s[j] \in E /\ s[k] \in E => j = k
\* Every Cancel of a block goes before its request.
Behind(s, b) == \A j, k \in 1..Len(s) : s[j] = Can(b) /\ s[k] = Req(b) => j < k

\* On, Few and Behind when the head of a wire is taken.
LEMMA TailFew ==
  ASSUME NEW T, NEW s \in Seq(T), s # <<>>, NEW E, NEW b
  PROVE  /\ On(s, E) <=> Head(s) \in E \/ On(Tail(s), E)
         /\ Few(s, E) => Few(Tail(s), E) /\ ~(Head(s) \in E /\ On(Tail(s), E))
         /\ Behind(s, b) => Behind(Tail(s), b) /\ ~(Head(s) = Req(b) /\ On(Tail(s), {Can(b)}))
<1>1. /\ Len(s) \in Nat \ {0} /\ Len(Tail(s)) = Len(s) - 1 /\ Head(s) = s[1]
      /\ \A k \in 1..Len(s) - 1 : Tail(s)[k] = s[k + 1]
  BY TailIs
<1>2. \A k \in 1..Len(s) : k = 1 \/ \E j \in 1..Len(s) - 1 : k = j + 1
  <2>1. ASSUME NEW k \in 1..Len(s), k # 1 PROVE k - 1 \in 1..Len(s) - 1 /\ k = (k - 1) + 1
    BY <1>1, <2>1
  <2>2. QED
    BY <2>1
<1>3. 1 \in 1..Len(s) /\ \A j \in 1..Len(s) - 1 : j + 1 \in 1..Len(s) /\ j \in Nat
  BY <1>1
<1>4. On(s, E) <=> Head(s) \in E \/ On(Tail(s), E)
  BY <1>1, <1>2, <1>3 DEF On
<1>5. ASSUME Few(s, E) PROVE Few(Tail(s), E) /\ ~(Head(s) \in E /\ On(Tail(s), E))
  <2>1. ASSUME NEW j \in 1..Len(s) - 1, NEW k \in 1..Len(s) - 1, Tail(s)[j] \in E, Tail(s)[k] \in E PROVE j = k
    <3>1. j + 1 = k + 1
      BY <1>1, <1>3, <1>5, <2>1 DEF Few
    <3>2. QED
      BY <1>3, <3>1
  <2>2. Few(Tail(s), E)
    BY <1>1, <2>1 DEF Few
  <2>3. ASSUME NEW j \in 1..Len(s) - 1, Tail(s)[j] \in E, Head(s) \in E PROVE FALSE
    <3>1. j + 1 = 1
      BY <1>1, <1>3, <1>5, <2>3 DEF Few
    <3>2. QED
      BY <3>1
  <2>4. QED
    BY <1>1, <2>2, <2>3 DEF On
<1>6. ASSUME Behind(s, b) PROVE Behind(Tail(s), b) /\ ~(Head(s) = Req(b) /\ On(Tail(s), {Can(b)}))
  <2>1. ASSUME NEW j \in 1..Len(s) - 1, NEW k \in 1..Len(s) - 1, Tail(s)[j] = Can(b), Tail(s)[k] = Req(b) PROVE j < k
    <3>1. j + 1 < k + 1
      BY <1>1, <1>3, <1>6, <2>1 DEF Behind
    <3>2. QED
      BY <1>3, <3>1
  <2>2. Behind(Tail(s), b)
    BY <1>1, <2>1 DEF Behind
  <2>3. ASSUME NEW j \in 1..Len(s) - 1, Tail(s)[j] = Can(b), Head(s) = Req(b) PROVE FALSE
    <3>1. j + 1 < 1
      BY <1>1, <1>3, <1>6, <2>3 DEF Behind
    <3>2. QED
      BY <3>1
  <2>4. QED
    BY <1>1, <2>2, <2>3 DEF On
<1>7. QED
  BY <1>4, <1>5, <1>6

\* On, Few and Behind when something is sent.
LEMMA JoinFew ==
  ASSUME NEW T, NEW s \in Seq(T), NEW t \in Seq(T), NEW E, NEW b
  PROVE  /\ On(s \o t, E) <=> On(s, E) \/ On(t, E)
         /\ Few(s, E) /\ Few(t, E) /\ ~(On(s, E) /\ On(t, E)) => Few(s \o t, E)
         /\ Behind(s, b) /\ ~On(t, {Can(b)}) => Behind(s \o t, b)
<1>1. PICK n \in Nat, m \in Nat : n = Len(s) /\ m = Len(t)
  BY JoinIs
<1>u. PICK u : u = s \o t
  OBVIOUS
<1>2. /\ Len(u) = n + m
      /\ \A k \in 1..n : u[k] = s[k]
      /\ \A k \in 1..m : u[n + k] = t[k]
      /\ \A k \in 1..n + m : k \in 1..n \/ \E j \in 1..m : k = n + j
  BY <1>1, <1>u, JoinIs
<1>3. (\A k \in 1..n : k \in 1..n + m) /\ \A k \in 1..m : n + k \in 1..n + m
  OBVIOUS
<1>4. On(u, E) <=> On(s, E) \/ On(t, E)
  <2>1. On(s, E) => On(u, E)
    BY <1>1, <1>u, <1>2, <1>3 DEF On
  <2>2. ASSUME NEW k \in 1..m, t[k] \in E PROVE On(u, E)
    BY <1>2, <1>3, <2>2 DEF On
  <2>3. ASSUME NEW k \in 1..n + m, u[k] \in E PROVE On(s, E) \/ On(t, E)
    <3>1. CASE k \in 1..n
      BY <1>1, <1>u, <1>2, <2>3, <3>1 DEF On
    <3>2. CASE k \notin 1..n
      <4>1. PICK j \in 1..m : k = n + j
        BY <1>2, <3>2
      <4>2. QED
        BY <1>1, <1>u, <1>2, <2>3, <4>1 DEF On
    <3>3. QED
      BY <3>1, <3>2
  <2>4. QED
    BY <1>1, <1>u, <1>2, <2>1, <2>2, <2>3 DEF On
<1>5. ASSUME Few(s, E), Few(t, E), ~(On(s, E) /\ On(t, E)) PROVE Few(u, E)
  <2>1. ASSUME NEW j \in 1..n + m, NEW k \in 1..n + m, u[j] \in E, u[k] \in E PROVE j = k
    <3>1. CASE j \in 1..n /\ k \in 1..n
      BY <1>1, <1>u, <1>2, <1>5, <2>1, <3>1 DEF Few
    <3>2. CASE j \in 1..n /\ k \notin 1..n
      <4>1. PICK i \in 1..m : k = n + i
        BY <1>2, <3>2
      <4>2. On(s, E) /\ On(t, E)
        BY <1>1, <1>u, <1>2, <2>1, <3>2, <4>1 DEF On
      <4>3. QED
        BY <1>5, <4>2
    <3>3. CASE j \notin 1..n /\ k \in 1..n
      <4>1. PICK i \in 1..m : j = n + i
        BY <1>2, <3>3
      <4>2. On(t, E) /\ On(s, E)
        BY <1>1, <1>u, <1>2, <2>1, <3>3, <4>1 DEF On
      <4>3. QED
        BY <1>5, <4>2
    <3>4. CASE j \notin 1..n /\ k \notin 1..n
      <4>1. PICK i \in 1..m : j = n + i
        BY <1>2, <3>4
      <4>2. PICK l \in 1..m : k = n + l
        BY <1>2, <3>4
      <4>3. t[i] \in E /\ t[l] \in E
        BY <1>2, <2>1, <4>1, <4>2
      <4>4. i = l
        BY <1>1, <1>u, <1>5, <4>3 DEF Few
      <4>5. QED
        BY <4>1, <4>2, <4>4
    <3>5. QED
      BY <3>1, <3>2, <3>3, <3>4
  <2>2. QED
    BY <1>2, <2>1 DEF Few
<1>6. ASSUME Behind(s, b), ~On(t, {Can(b)}) PROVE Behind(u, b)
  <2>1. ASSUME NEW j \in 1..n + m, NEW k \in 1..n + m, u[j] = Can(b), u[k] = Req(b) PROVE j < k
    <3>1. j \in 1..n
      <4>1. SUFFICES ASSUME j \notin 1..n PROVE FALSE
        OBVIOUS
      <4>2. PICK i \in 1..m : j = n + i
        BY <1>2, <4>1
      <4>3. On(t, {Can(b)})
        BY <1>1, <1>2, <2>1, <4>2 DEF On
      <4>4. QED
        BY <1>6, <4>3
    <3>2. CASE k \in 1..n
      BY <1>1, <1>u, <1>2, <1>6, <2>1, <3>1, <3>2 DEF Behind
    <3>3. CASE k \notin 1..n
      BY <3>1, <3>3
    <3>4. QED
      BY <3>2, <3>3
  <2>2. QED
    BY <1>2, <2>1 DEF Behind
<1>7. QED
  BY <1>1, <1>u, <1>4, <1>5, <1>6

\* The four places of a request: the issue, the wire, the remote's queue, the way back.
Ans(b) == {Rej(b), Whole(b)}
Sent(b) == On(toRemote, {Req(b)})
Replied(b) == On(fromRemote, Ans(b))
OnlyOnce(b) ==
    /\ Few(toRemote, {Req(b)}) /\ Few(fromRemote, Ans(b))
    /\ InIssue(b) => ~Sent(b) /\ b \notin remoteQ /\ ~Replied(b)
    /\ Sent(b) => b \notin remoteQ /\ ~Replied(b)
    /\ b \in remoteQ => ~Replied(b)
InPlace(b) == InIssue(b) \/ Sent(b) \/ b \in remoteQ \/ Replied(b)

\* No request is issued any more.
NoMore == over \/ (~downloading /\ issue = NoIssue)
NotCancelled(b) == Behind(toRemote, b) /\ (b \in remoteQ => ~On(toRemote, {Can(b)}))
Plain == \A k \in 1..Len(fromRemote) : fromRemote[k].kind = "piece" => \E c \in AllBlocks : fromRemote[k] = Whole(c)
OnceAt(b) ==
    /\ OnlyOnce(b)
    /\ InPlace(b) => NoMore \/ Asks(b)
    /\ NoMore \/ NotCancelled(b)
OnceInv == ~crossed => Plain /\ \A b \in AllBlocks : OnceAt(b)

\* The answers to a block answer no other block.
LEMMA AnsIs ==
  /\ \A b \in AllBlocks : Replied(b) <=> Answered(b)
  /\ \A b, c \in AllBlocks : (Rej(c) \in Ans(b) \/ Whole(c) \in Ans(b)) => b = c
  /\ \A b \in AllBlocks : \A p \in Pieces :
        Note("choke") \notin Ans(b) /\ Note("unchoke") \notin Ans(b) /\ Allow(p) \notin Ans(b)
  /\ \A b \in AllBlocks : \A m : m \in Ans(b) <=> Answers(m, b)
<1>1. \A b \in AllBlocks : Whole(b).kind = "piece" /\ Rej(b).kind = "reject" /\ Rej(b).block = b
  BY WholeIs DEF Rej
<1>2. \A b \in AllBlocks : \A m : m \in Ans(b) <=> Answers(m, b)
  BY <1>1 DEF Ans, Answers
<1>3. \A b \in AllBlocks : Replied(b) <=> Answered(b)
  BY <1>2, LiveIs DEF Replied, On, AnsweredIn
<1>4. ASSUME NEW b \in AllBlocks, NEW c \in AllBlocks, Rej(c) \in Ans(b) \/ Whole(c) \in Ans(b) PROVE b = c
  BY <1>1, <1>4, WholeIs DEF Ans
<1>5. ASSUME NEW b \in AllBlocks, NEW p \in Pieces
      PROVE  Note("choke") \notin Ans(b) /\ Note("unchoke") \notin Ans(b) /\ Allow(p) \notin Ans(b)
  <2>1. Note("choke").kind = "choke" /\ Note("unchoke").kind = "unchoke" /\ Allow(p).kind = "allow"
    BY DEF Note, Allow
  <2>2. QED
    BY <1>1, <2>1 DEF Ans
<1>6. QED
  BY <1>2, <1>3, <1>4, <1>5

\* What is done stays done.
LEMMA NoMoreStays ==
  ASSUME Flags, Flags', [Next]_vars
  PROVE  (NoMore => NoMore') /\ (crossed => crossed') /\ (over => over') /\ has \subseteq has'
<1>0. NoIssue.starting = {}
  BY NoIssueIs
<1>1. has \subseteq has' /\ (over => over') /\ (crossed => crossed')
      /\ (~downloading /\ issue = NoIssue => issue' = NoIssue)
  <2>1. CASE IssueNext
    BY <1>0, <2>1 DEF IssueNext, BeginIssue, EndIssue, OpenPiece, AbortStart, NextRequest, StartPiece, Filling,
                Working, IssueUnchanged, torrentVars, history
  <2>2. CASE ReceiveNext
    <3>1. has' = has /\ (over => over')
      BY <2>2 DEF ReceiveNext, OnChoke, OnUnchoke, OnAllowedFast, OnReject, OnPiece, Receives, torrentVars
    <3>2. crossed' = crossed /\ issue' = issue
      BY <2>2 DEF ReceiveNext, OnChoke, OnUnchoke, OnAllowedFast, OnReject, OnPiece, Receives, history
    <3>3. QED
      BY <3>1, <3>2
  <2>3. CASE RemoteNext
    BY <2>3 DEF RemoteNext, RemoteReads, RemoteUnchokes, RemoteServes, RemoteUnchanged, OursUnchanged
  <2>4. CASE \E p \in Pieces, ok \in BOOLEAN : HashOutcome(p, ok) \/ RivalEnds(p, ok)
    BY <2>4 DEF HashOutcome, RivalEnds, OursUnchanged, history
  <2>5. CASE EnterEndgame \/ LeechComplete \/ \E early \in BOOLEAN : Stall(early) \/ IdleClose(early)
    <3>1. issue' = issue /\ has' = has /\ (over => over')
      BY <2>5 DEF EnterEndgame, LeechComplete, Stall, IdleClose, SessionUnchanged, torrentVars
    <3>2. crossed => crossed'
      BY <2>5 DEF EnterEndgame, LeechComplete, Stall, IdleClose, TakeBack, history
    <3>3. QED
      BY <3>1, <3>2
  <2>6. CASE \E n \in Pipelines : AdaptPipeline(n)
    BY <2>6 DEF AdaptPipeline, SessionUnchanged, torrentVars, history
  <2>7. CASE \E p \in Pieces : RivalClaims(p) \/ RemoteAllowsFast(p)
    BY <2>7 DEF RivalClaims, RemoteAllowsFast, RemoteUnchanged, OursUnchanged, history
  <2>8. CASE set_caps \/ Spend \/ Refill
    BY <2>8 DEF set_caps, Spend, Refill, OursUnchanged, history
  <2>9. CASE RemoteChokes \/ \E b \in AllBlocks : RemoteDrops(b)
    BY <2>9 DEF RemoteChokes, RemoteDrops, RemoteUnchanged, OursUnchanged
  <2>10. CASE \E p \in Pieces, begin \in 0..BlockSize, len \in 1..2 * BlockSize : RemoteInvents(p, begin, len)
    BY <2>10 DEF RemoteInvents, OursUnchanged
  <2>11. CASE UNCHANGED vars
    BY <2>11 DEF vars
  <2>12. QED
    BY <2>1, <2>2, <2>3, <2>4, <2>5, <2>6, <2>7, <2>8, <2>9, <2>10, <2>11 DEF Next
<1>2. ~downloading => ~downloading'
  BY <1>1 DEF downloading, Flags
<1>3. QED
  BY <1>1, <1>2 DEF NoMore
\* The marks that a step takes away.
LEMMA MarksLost ==
  ASSUME BlockInv, [Next]_vars, NEW b \in AllBlocks, Asks(b), ~Asks(b)'
  PROVE  \/ over'
         \/ ReceiveNext /\ Head(fromRemote) \in Ans(b)
         \/ ReceiveNext /\ Head(fromRemote).kind = "piece"
              /\ \A c \in AllBlocks : Head(fromRemote) = Whole(c) => c = b
         \/ EnterEndgame \/ (\E early \in BOOLEAN : Stall(early))
         \/ LeechComplete
<1>i. SlotInv /\ Wires /\ IssueInv
  BY DEF BlockInv
<1>1. b[1] \in Pieces /\ slot \in [Pieces -> AnySlot] /\ b = <<b[1], b[2]>> /\ slot[b[1]].st = "assembling"
  BY <1>i, IsBlock DEF SlotInv, Asks
<1>2. slot' # slot
  BY DEF Asks
<1>3. ~ OpenPiece
  BY <1>i, <1>1 DEF OpenPiece, Asks, IssueInv
<1>4. ~ \E p \in Pieces : NextRequest(p)
  <2>1. SUFFICES ASSUME NEW p \in Pieces, NEW i, slot' = [slot EXCEPT ![p].requested = @ \cup {i}] PROVE FALSE
    BY DEF NextRequest
  <2>2. QED
    BY <1>1, <2>1 DEF Asks, AnySlot
<1>5. ~ (\E p \in Pieces : StartPiece(p)) /\ ~BeginIssue /\ ~EndIssue /\ ~AbortStart
  BY <1>2 DEF StartPiece, BeginIssue, EndIssue, AbortStart
<1>6. ~ OnChoke /\ ~OnUnchoke /\ ~OnAllowedFast
  BY <1>2 DEF OnChoke, OnUnchoke, OnAllowedFast
<1>7. CASE OnReject
  <2>1. PICK c : c = Head(fromRemote).block
    OBVIOUS
  <2>2. slot' = [slot EXCEPT ![c[1]].requested = @ \ {c[2]}] /\ c \in outstanding_list
    BY <1>2, <1>7, <2>1 DEF OnReject
  <2>3. Slots
    BY <1>i DEF SlotInv, Slots, Sound
  <2>4. c \in AllBlocks /\ c = <<c[1], c[2]>>
    BY <2>2, <2>3, Outstanding, IsBlock
  <2>5. c = b
    BY <1>1, <2>2, <2>4 DEF Asks, AnySlot
  <2>6. Head(fromRemote) \in FromMsg /\ Head(fromRemote).kind = "reject"
    BY <1>i, <1>7, SeqFacts DEF OnReject, Receives, Wires
  <2>7. Head(fromRemote) = Rej(b)
    BY <2>1, <2>5, <2>6 DEF FromMsg, Rej
  <2>8. QED
    BY <1>7, <2>7 DEF ReceiveNext, Ans
<1>8. CASE OnPiece
  <2>1. PICK m : m = Head(fromRemote)
    OBVIOUS
  <2>2. PICK p, begin, len : p = m.piece /\ begin = m.begin /\ len = m.len
    OBVIOUS
  <2>3. CASE over'
    BY <2>3
  <2>4. CASE ~over'
    <3>1. slot' = [slot EXCEPT ![p] = IF Ingest(p, begin, len).have = BlocksOf(p)
                                      THEN [Ingest(p, begin, len) EXCEPT !.st = "hashing"]
                                      ELSE Ingest(p, begin, len)] /\ p \in Staged
      BY <1>2, <1>8, <2>1, <2>2, <2>4 DEF OnPiece
    <3>2. p \in Pieces /\ slot[p] \in AnySlot
      BY <1>1, <3>1 DEF Staged
    <3>3. p = b[1]
      BY <1>1, <3>1 DEF Asks
    <3>4. /\ Ingest(p, begin, len).requested = slot[p].requested
          /\ Ingest(p, begin, len).have = slot[p].have \cup Covers(p, begin, len)
          /\ Ingest(p, begin, len).st = slot[p].st
      BY <3>2 DEF Ingest, AnySlot
    <3>5. slot'[p] = IF Ingest(p, begin, len).have = BlocksOf(p)
                     THEN [Ingest(p, begin, len) EXCEPT !.st = "hashing"] ELSE Ingest(p, begin, len)
      BY <1>1, <3>1, <3>2
    <3>6. b[2] \in Covers(p, begin, len)
      <4>1. b[2] \in BlocksOf(p) /\ b[2] \notin slot[p].have
        BY <3>3, IsBlock DEF Asks
      <4>2. CASE Ingest(p, begin, len).have = BlocksOf(p)
        BY <3>4, <4>1, <4>2
      <4>3. CASE Ingest(p, begin, len).have # BlocksOf(p)
        BY <3>3, <3>4, <3>5, <4>1, <4>3 DEF Asks
      <4>4. QED
        BY <4>2, <4>3
    <3>7. ASSUME NEW c \in AllBlocks, m = Whole(c) PROVE c = b
      <4>1. p = c[1] /\ Covers(p, begin, len) = {c[2]} /\ c = <<c[1], c[2]>>
        BY <2>2, <3>7, WholeIs, IsBlock
      <4>2. QED
        BY <1>1, <3>3, <3>6, <4>1
    <3>8. QED
      BY <1>8, <2>1, <3>7 DEF ReceiveNext, OnPiece, Receives
  <2>5. QED
    BY <2>3, <2>4
<1>9. ~ \E p \in Pieces, ok \in BOOLEAN : HashOutcome(p, ok) \/ RivalEnds(p, ok)
  BY <1>1, <1>2 DEF HashOutcome, RivalEnds, OursUnchanged, Asks
<1>10. CASE \E early \in BOOLEAN : IdleClose(early)
  BY <1>10 DEF IdleClose
<1>11. ~ \E n \in Pipelines : AdaptPipeline(n)
  BY <1>2 DEF AdaptPipeline
<1>12. ~ \E p \in Pieces : RivalClaims(p) \/ RemoteAllowsFast(p)
  BY <1>2 DEF RivalClaims, RemoteAllowsFast, RemoteUnchanged, OursUnchanged
<1>13. ~set_caps /\ ~Spend /\ ~Refill /\ ~RemoteReads /\ ~RemoteUnchokes /\ ~RemoteChokes
  BY <1>2 DEF set_caps, Spend, Refill, RemoteReads, RemoteUnchokes, RemoteChokes, RemoteUnchanged, OursUnchanged
<1>14. ~ \E c \in AllBlocks : RemoteServes(c) \/ RemoteDrops(c)
  BY <1>2 DEF RemoteServes, RemoteDrops, RemoteUnchanged, OursUnchanged
<1>15. ~ \E p \in Pieces, begin \in 0..BlockSize, len \in 1..2 * BlockSize : RemoteInvents(p, begin, len)
  BY <1>2 DEF RemoteInvents, OursUnchanged
<1>16. ~UNCHANGED vars
  BY <1>2 DEF vars
<1>17. QED
  BY <1>3, <1>4, <1>5, <1>6, <1>7, <1>8, <1>9, <1>10, <1>11, <1>12, <1>13, <1>14, <1>15, <1>16
  DEF Next, IssueNext, ReceiveNext, RemoteNext

\* A request that is in one place, and not cancelled, is alive.
LEMMA PlaceIsLive ==
  ASSUME Wires, NEW b \in AllBlocks, OnlyOnce(b), NotCancelled(b), InPlace(b), ~InIssue(b)
  PROVE  Live(b)
<1>1. \A k \in 1..Len(toRemote) : toRemote[k].block = b => toRemote[k] \in {Req(b), Can(b)}
  <2>1. \A k \in 1..Len(toRemote) : toRemote[k] \in ToMsg
    BY SeqFacts DEF Wires
  <2>2. \A m \in ToMsg : m.block = b => m \in {Req(b), Can(b)}
    BY DEF ToMsg, Req, Can
  <2>3. QED
    BY <2>1, <2>2
<1>2. Len(toRemote) \in Nat
  BY DEF Wires
<1>3. ASSUME NEW k \in 1..Len(toRemote), toRemote[k] = Req(b) PROVE Pending(b)
  <2>1. ASSUME NEW l \in k + 1..Len(toRemote), toRemote[l].block = b PROVE FALSE
    <3>1. l \in 1..Len(toRemote) /\ l # k /\ ~(l < k)
      BY <1>2, <2>1
    <3>2. toRemote[l] # Req(b)
      BY <1>3, <3>1 DEF OnlyOnce, Few
    <3>3. toRemote[l] # Can(b)
      BY <1>3, <3>1 DEF NotCancelled, Behind
    <3>4. QED
      BY <1>1, <2>1, <3>1, <3>2, <3>3
  <2>2. Silent(b, k + 1)
    BY <2>1 DEF Silent
  <2>3. QED
    BY <1>3, <2>2 DEF Pending
<1>4. ASSUME b \in remoteQ PROVE Pending(b)
  <2>1. ~Sent(b) /\ ~On(toRemote, {Can(b)})
    BY <1>4 DEF OnlyOnce, NotCancelled
  <2>2. Silent(b, 1)
    BY <1>1, <2>1 DEF Sent, On, Silent
  <2>3. QED
    BY <1>4, <2>2 DEF Pending
<1>5. QED
  BY <1>3, <1>4, AnsIs DEF InPlace, Sent, On, Live
\* Nothing moves on the wires.
LEMMA OnceSame ==
  ASSUME NEW b \in AllBlocks, OnceAt(b), NoMore => NoMore', UNCHANGED <<toRemote, fromRemote, remoteQ>>,
         InIssue(b)' => InIssue(b), Asks(b) => Asks(b)' \/ NoMore'
  PROVE  OnceAt(b)'
<1>1. (Sent(b)' <=> Sent(b)) /\ (Replied(b)' <=> Replied(b)) /\ (NotCancelled(b)' <=> NotCancelled(b))
  BY DEF Sent, Replied, NotCancelled, Behind, On
<1>2. OnlyOnce(b)'
  BY <1>1 DEF OnceAt, OnlyOnce, Few
<1>3. InPlace(b)' => InPlace(b)
  BY <1>1 DEF InPlace
<1>4. QED
  BY <1>1, <1>2, <1>3 DEF OnceAt

\* The session reads one message.
LEMMA OnceHeard ==
  ASSUME NEW b \in AllBlocks, OnceAt(b), NoMore => NoMore', UNCHANGED <<toRemote, remoteQ>>,
         fromRemote \in Seq(FromMsg), fromRemote # <<>>, fromRemote' = Tail(fromRemote),
         InIssue(b)' => InIssue(b), Asks(b) => Asks(b)' \/ NoMore' \/ Head(fromRemote) \in Ans(b)
  PROVE  OnceAt(b)'
<1>1. /\ Replied(b) <=> Head(fromRemote) \in Ans(b) \/ Replied(b)'
      /\ Few(fromRemote, Ans(b)) => Few(fromRemote', Ans(b)) /\ ~(Head(fromRemote) \in Ans(b) /\ Replied(b)')
  <2>1. /\ On(fromRemote, Ans(b)) <=> Head(fromRemote) \in Ans(b) \/ On(Tail(fromRemote), Ans(b))
        /\ Few(fromRemote, Ans(b)) =>
              Few(Tail(fromRemote), Ans(b)) /\ ~(Head(fromRemote) \in Ans(b) /\ On(Tail(fromRemote), Ans(b)))
    BY TailFew
  <2>2. On(Tail(fromRemote), Ans(b)) <=> Replied(b)'
    BY DEF Replied, On, Ans, Rej, Whole, Data, block_len
  <2>3. QED
    BY <2>1, <2>2 DEF Replied
<1>2. (Sent(b)' <=> Sent(b)) /\ (NotCancelled(b)' <=> NotCancelled(b)) /\ (Few(toRemote', {Req(b)}) <=> Few(toRemote, {Req(b)}))
  BY DEF Sent, NotCancelled, Behind, On
<1>3. OnlyOnce(b)'
  <2>1. Few(fromRemote', Ans(b)) /\ Few(toRemote', {Req(b)})
    BY <1>1, <1>2 DEF OnceAt, OnlyOnce
  <2>2. Few(fromRemote, Ans(b))' /\ Few(toRemote, {Req(b)})'
    BY <2>1 DEF Few, Ans, Rej, Whole, Data, block_len, Req
  <2>3. QED
    BY <1>1, <1>2, <2>2 DEF OnceAt, OnlyOnce
<1>4. InPlace(b)' => InPlace(b) /\ Head(fromRemote) \notin Ans(b)
  BY <1>1, <1>2 DEF InPlace, OnceAt, OnlyOnce
<1>5. QED
  BY <1>2, <1>3, <1>4 DEF OnceAt

\* The remote sends.
LEMMA OnceReplied ==
  ASSUME NEW b \in AllBlocks, OnceAt(b), NoMore => NoMore', UNCHANGED <<toRemote, issue, slot>>,
         fromRemote \in Seq(FromMsg), NEW sent \in Seq(FromMsg), fromRemote' = fromRemote \o sent,
         b \in remoteQ' => b \in remoteQ, Few(sent, Ans(b)),
         On(sent, Ans(b)) => b \in remoteQ /\ b \notin remoteQ'
  PROVE  OnceAt(b)'
<1>1. /\ Replied(b)' <=> Replied(b) \/ On(sent, Ans(b))
      /\ Few(fromRemote, Ans(b)) /\ ~(Replied(b) /\ On(sent, Ans(b))) => Few(fromRemote', Ans(b))
  BY JoinFew DEF Replied
<1>2. (Sent(b)' <=> Sent(b)) /\ (InIssue(b)' <=> InIssue(b)) /\ (Asks(b)' <=> Asks(b))
      /\ (NotCancelled(b) => NotCancelled(b)')
  BY DEF Sent, NotCancelled, Behind, On, InIssue, Asks
<1>3. OnlyOnce(b)'
  BY <1>1, <1>2 DEF OnceAt, OnlyOnce, Few, Ans
<1>4. InPlace(b)' => InPlace(b)
  BY <1>1, <1>2 DEF InPlace
<1>5. QED
  BY <1>2, <1>3, <1>4 DEF OnceAt

\* The remote reads one message.
LEMMA OnceRead ==
  ASSUME Wires, RemoteReads, NEW b \in AllBlocks, OnceAt(b), NoMore => NoMore'
  PROVE  OnceAt(b)'
<1>1. PICK sent \in Seq(FromMsg), c \in AllBlocks :
            /\ fromRemote' = fromRemote \o sent /\ c = Head(toRemote).block
            /\ toRemote # <<>> /\ toRemote' = Tail(toRemote) /\ Head(toRemote) \in {Req(c), Can(c)}
            /\ \A e \in AllBlocks : e # c => (e \in remoteQ' <=> e \in remoteQ)
            /\ Head(toRemote) = Can(c) => sent = <<>> /\ c \notin remoteQ'
            /\ Head(toRemote) = Req(c) =>
                  \/ sent = <<>> /\ (c \in remoteQ' \/ c \in dropped')
                  \/ sent = <<Rej(c)>> /\ c \notin remoteQ'
            /\ dropped \subseteq dropped'
  BY ReadsSends
<1>2. toRemote \in Seq(ToMsg) /\ fromRemote \in Seq(FromMsg) /\ UNCHANGED <<issue, slot>>
  BY DEF Wires, RemoteReads, RemoteUnchanged, OursUnchanged
<1>3. \A e \in AllBlocks : Req(e).kind = "request" /\ Can(e).kind = "cancel" /\ Req(e).block = e /\ Can(e).block = e
  BY DEF Req, Can
<1>4. /\ Sent(b) <=> Head(toRemote) = Req(b) \/ Sent(b)'
      /\ Few(toRemote, {Req(b)}) => Few(toRemote', {Req(b)}) /\ ~(Head(toRemote) = Req(b) /\ Sent(b)')
  BY <1>1, <1>2, TailFew DEF Sent
<1>5. /\ Behind(toRemote, b) => Behind(toRemote', b) /\ ~(Head(toRemote) = Req(b) /\ On(toRemote', {Can(b)}))
      /\ On(toRemote', {Can(b)}) => On(toRemote, {Can(b)})
  BY <1>1, <1>2, TailFew
<1>6. /\ Replied(b)' <=> Replied(b) \/ On(sent, Ans(b))
      /\ Few(fromRemote, Ans(b)) /\ Few(sent, Ans(b)) /\ ~(Replied(b) /\ On(sent, Ans(b))) => Few(fromRemote', Ans(b))
  BY <1>1, <1>2, JoinFew DEF Replied
<1>7. (InIssue(b)' <=> InIssue(b)) /\ (Asks(b)' <=> Asks(b))
  BY <1>2 DEF InIssue, Asks
<1>8. Few(sent, Ans(b)) /\ (On(sent, Ans(b)) => c = b /\ Head(toRemote) = Req(b) /\ b \notin remoteQ')
  <2>1. CASE sent = <<>>
    BY <2>1 DEF Few, On
  <2>2. CASE sent = <<Rej(c)>> /\ c \notin remoteQ' /\ Head(toRemote) = Req(c)
    <3>1. Len(sent) = 1 /\ sent[1] = Rej(c)
      BY <2>2
    <3>2. QED
      BY <2>2, <3>1, AnsIs DEF Few, On
  <2>3. QED
    BY <1>1, <2>1, <2>2
<1>9. b \in remoteQ' => b \in remoteQ \/ Head(toRemote) = Req(b)
  BY <1>1
<1>10. Sent(b) /\ Head(toRemote) = Req(b) => ~InIssue(b) /\ b \notin remoteQ /\ ~Replied(b)
  BY DEF OnceAt, OnlyOnce
<1>11. OnlyOnce(b)'
  <2>1. Few(toRemote', {Req(b)}) /\ Few(fromRemote', Ans(b))
    BY <1>4, <1>6, <1>8, <1>10 DEF OnceAt, OnlyOnce
  <2>2. Few(toRemote, {Req(b)})' /\ Few(fromRemote, Ans(b))'
    BY <2>1 DEF Few, Ans
  <2>3. InIssue(b)' => ~Sent(b)' /\ b \notin remoteQ' /\ ~Replied(b)'
    BY <1>4, <1>6, <1>7, <1>8, <1>9 DEF OnceAt, OnlyOnce
  <2>4. Sent(b)' => b \notin remoteQ' /\ ~Replied(b)'
    BY <1>4, <1>6, <1>8, <1>9 DEF OnceAt, OnlyOnce
  <2>5. b \in remoteQ' => ~Replied(b)'
    BY <1>4, <1>6, <1>8, <1>9, <1>10 DEF OnceAt, OnlyOnce
  <2>6. QED
    BY <2>2, <2>3, <2>4, <2>5 DEF OnlyOnce
<1>12. InPlace(b)' => InPlace(b)
  BY <1>4, <1>6, <1>7, <1>8, <1>9 DEF InPlace
<1>13. NotCancelled(b) => NotCancelled(b)'
  BY <1>5, <1>9 DEF NotCancelled
<1>14. QED
  BY <1>7, <1>11, <1>12, <1>13 DEF OnceAt

\* The issue sends its requests.
LEMMA OnceSent ==
  ASSUME SlotInv, Wires, IssueInv, EndIssue, NEW b \in AllBlocks, OnceAt(b), NoMore => NoMore'
  PROVE  OnceAt(b)'
<1> DEFINE t == [k \in 1..Len(issue.reqs) |-> Req(issue.reqs[k])]
<1>1. issue.reqs \in Seq(AllBlocks) /\ Len(issue.reqs) \in Nat
  BY DEF IssueInv, Issues
<1>2. t \in Seq(ToMsg) /\ Len(t) = Len(issue.reqs)
  BY <1>1, Messages
<1>3. toRemote' = toRemote \o t /\ UNCHANGED <<remoteQ, fromRemote, slot>> /\ issue' = NoIssue
  BY DEF EndIssue, remoteVars
<1>4. \A k \in 1..Len(t) : t[k] = Req(issue.reqs[k]) /\ t[k].block = issue.reqs[k] /\ t[k].kind = "request"
  BY <1>2 DEF Req
<1>5. toRemote \in Seq(ToMsg)
  BY DEF Wires
<1> HIDE DEF t
<1>6. Req(b).block = b /\ Can(b).kind = "cancel"
  BY DEF Req, Can
<1>7. On(t, {Req(b)}) <=> InIssue(b)
  BY <1>2, <1>4, <1>6 DEF On, InIssue
<1>8. Few(t, {Req(b)})
  BY <1>2, <1>4, <1>6 DEF Few, IssueInv
<1>9. ~On(t, {Can(b)})
  BY <1>2, <1>4, <1>6 DEF On
<1>10. /\ Sent(b)' <=> Sent(b) \/ InIssue(b)
       /\ Few(toRemote, {Req(b)}) /\ ~(Sent(b) /\ InIssue(b)) => Few(toRemote', {Req(b)})
  BY <1>2, <1>3, <1>5, <1>7, <1>8, JoinFew DEF Sent
<1>11. /\ Behind(toRemote, b) => Behind(toRemote', b)
       /\ On(toRemote', {Can(b)}) <=> On(toRemote, {Can(b)})
  BY <1>2, <1>3, <1>5, <1>9, JoinFew
<1>12. ~InIssue(b)' /\ (Replied(b)' <=> Replied(b)) /\ (Asks(b)' <=> Asks(b))
  BY <1>3, NoIssueIs DEF InIssue, Replied, On, Asks
<1>13. OnlyOnce(b)'
  BY <1>3, <1>10, <1>12 DEF OnceAt, OnlyOnce, Few
<1>14. InPlace(b)' => InPlace(b)
  BY <1>3, <1>10, <1>12 DEF InPlace
<1>15. NotCancelled(b) => NotCancelled(b)'
  BY <1>3, <1>11 DEF NotCancelled
<1>16. QED
  BY <1>12, <1>13, <1>14, <1>15 DEF OnceAt

\* Cancels of everything outstanding are sent.
LEMMA CancelsOn ==
  ASSUME SlotInv, Wires, toRemote' = toRemote \o Cancels, NEW b \in AllBlocks
  PROVE  (Sent(b)' <=> Sent(b)) /\ (Few(toRemote, {Req(b)}) => Few(toRemote', {Req(b)}))
<1>1. Slots
  BY DEF SlotInv, Slots, Sound
<1>2. outstanding_list \in SUBSET AllBlocks /\ total_outstanding = Cardinality(outstanding_list)
  BY <1>1, Outstanding DEF total_outstanding
<1>3. Cancels \in Seq(ToMsg)
  BY <1>2, Batches DEF Cancels
<1>4. \A k \in 1..Len(Cancels) : Cancels[k].kind = "cancel"
  <2>1. \A k \in 1..total_outstanding : Cancels[k].kind = "cancel"
    BY DEF Cancels, Can
  <2>2. Len(Cancels) = total_outstanding
    BY <1>1, Outstanding DEF Cancels
  <2>3. QED
    BY <2>1, <2>2
<1>5. ~On(Cancels, {Req(b)}) /\ Few(Cancels, {Req(b)})
  BY <1>4 DEF On, Few, Req
<1>6. toRemote \in Seq(ToMsg)
  BY DEF Wires
<1>7. QED
  BY <1>3, <1>5, <1>6, JoinFew DEF Sent
\* Everything outstanding is cancelled, and no answer is crossed: nothing was on its way.
LEMMA OnceTakenBack ==
  ASSUME BlockInv, BlockInv', Working, issue = NoIssue, issue' = issue, TakeBack, ~crossed',
         UNCHANGED <<fromRemote, remoteQ>>, NEW b \in AllBlocks, OnceAt(b)
  PROVE  OnceAt(b)'
<1>i. SlotInv /\ Wires
  BY DEF BlockInv
<1>1. toRemote' = toRemote \o Cancels /\ \A c \in outstanding_list : ~Live(c)
  BY DEF TakeBack
<1>2. ~NoMore /\ ~InIssue(b) /\ ~InIssue(b)'
  BY NoIssueIs DEF Working, NoMore, InIssue
<1>3. Slots
  BY <1>i DEF SlotInv, Slots, Sound
<1>4. ~InPlace(b)
  <2>1. SUFFICES ASSUME InPlace(b) PROVE FALSE
    OBVIOUS
  <2>2. Asks(b) /\ OnlyOnce(b) /\ NotCancelled(b)
    BY <1>2, <2>1 DEF OnceAt
  <2>3. b \in outstanding_list
    BY <1>3, <2>2, Outstanding DEF Asks
  <2>4. Live(b)
    BY <1>i, <1>2, <2>1, <2>2, PlaceIsLive
  <2>5. QED
    BY <1>1, <2>3, <2>4
<1>5. ~Sent(b)' /\ Few(toRemote', {Req(b)})
  BY <1>i, <1>1, <1>4, CancelsOn DEF InPlace, OnceAt, OnlyOnce
<1>6. b \notin remoteQ' /\ ~Replied(b)' /\ Few(fromRemote', Ans(b))
  BY <1>4 DEF InPlace, Replied, On, OnceAt, OnlyOnce
<1>7. OnlyOnce(b)' /\ ~InPlace(b)'
  BY <1>2, <1>5, <1>6 DEF OnlyOnce, InPlace, Few, Ans
<1>8. NotCancelled(b)'
  BY <1>5, <1>6 DEF NotCancelled, Behind, Sent, On
<1>9. QED
  BY <1>7, <1>8 DEF OnceAt

\* As long as no Cancel crossed an answer and the remote invented nothing, all
\* the data on the wire are whole blocks.
LEMMA PlainStep ==
  ASSUME Wires, Plain, [Next]_vars, ~crossed'
  PROVE  Plain'
<1>0. fromRemote \in Seq(FromMsg)
  BY DEF Wires
<1>1. ASSUME fromRemote' = fromRemote PROVE Plain'
  BY <1>1 DEF Plain, Whole, Data, block_len
<1>2. ASSUME NEW sent \in Seq(FromMsg), fromRemote' = fromRemote \o sent,
             \A k \in 1..Len(sent) : sent[k].kind = "piece" => \E c \in AllBlocks : sent[k] = Whole(c)
      PROVE  Plain'
  <2>1. ASSUME NEW k \in 1..Len(fromRemote'), fromRemote'[k].kind = "piece"
        PROVE  \E c \in AllBlocks : fromRemote'[k] = Whole(c)
    <3>1. CASE k \in 1..Len(fromRemote)
      <4>1. fromRemote'[k] = fromRemote[k]
        BY <1>0, <1>2, <3>1, JoinIs
      <4>2. QED
        BY <2>1, <3>1, <4>1 DEF Plain
    <3>2. CASE k \notin 1..Len(fromRemote)
      <4>1. PICK j \in 1..Len(sent) : k = Len(fromRemote) + j
        BY <1>0, <1>2, <3>2, JoinIs
      <4>2. fromRemote'[k] = sent[j]
        BY <1>0, <1>2, <4>1, JoinIs
      <4>3. QED
        BY <1>2, <2>1, <4>2
    <3>3. QED
      BY <3>1, <3>2
  <2>2. QED
    BY <2>1 DEF Plain, Whole, Data, block_len
<1>3. ASSUME NEW e \in FromMsg, fromRemote' = Append(fromRemote, e),
             e.kind = "piece" => \E c \in AllBlocks : e = Whole(c)
      PROVE  Plain'
  <2>1. <<e>> \in Seq(FromMsg) /\ fromRemote' = fromRemote \o <<e>> /\ Len(<<e>>) = 1 /\ <<e>>[1] = e
    <3> HIDE DEF FromMsg
    <3>1. QED
      BY <1>0, <1>3, OneMore
  <2>2. \A k \in 1..Len(<<e>>) : <<e>>[k].kind = "piece" => \E c \in AllBlocks : <<e>>[k] = Whole(c)
    <3>1. ASSUME NEW k \in 1..Len(<<e>>) PROVE <<e>>[k] = e
      BY <2>1
    <3>2. QED
      BY <1>3, <3>1
  <2>3. QED
    <3>1. PICK sent : sent = <<e>>
      OBVIOUS
    <3>2. /\ sent \in Seq(FromMsg) /\ fromRemote' = fromRemote \o sent
          /\ \A k \in 1..Len(sent) : sent[k].kind = "piece" => \E c \in AllBlocks : sent[k] = Whole(c)
      BY <2>1, <2>2, <3>1
    <3> HIDE DEF FromMsg
    <3>3. QED
      BY <1>2, <3>2
<1>4. CASE ReceiveNext
  <2>1. fromRemote' = Tail(fromRemote) /\ fromRemote # <<>>
    BY <1>4 DEF ReceiveNext, OnChoke, OnUnchoke, OnAllowedFast, OnReject, OnPiece, Receives
  <2>2. /\ Len(fromRemote) \in Nat \ {0} /\ Len(Tail(fromRemote)) = Len(fromRemote) - 1
        /\ \A k \in 1..Len(fromRemote) - 1 : Tail(fromRemote)[k] = fromRemote[k + 1]
    BY <1>0, <2>1, TailIs
  <2>3. \A k \in 1..Len(fromRemote) - 1 : k + 1 \in 1..Len(fromRemote)
    BY <2>2
  <2>4. \A k \in 1..Len(fromRemote') : fromRemote'[k].kind = "piece" => \E c \in AllBlocks : fromRemote'[k] = Whole(c)
    BY <2>1, <2>2, <2>3 DEF Plain
  <2>5. QED
    BY <2>4 DEF Plain, Whole, Data, block_len
<1>5. CASE RemoteReads
  <2>1. PICK sent \in Seq(FromMsg), c \in AllBlocks :
            fromRemote' = fromRemote \o sent /\ (sent = <<>> \/ sent = <<Rej(c)>>)
    BY <1>5, ReadsSends DEF Wires
  <2>2. \A k \in 1..Len(sent) : sent[k].kind # "piece"
    <3>1. CASE sent = <<>>
      BY <3>1
    <3>2. CASE sent = <<Rej(c)>>
      <4>1. Len(sent) = 1 /\ sent[1].kind = "reject"
        BY <3>2 DEF Rej
      <4>2. QED
        BY <4>1
    <3>3. QED
      BY <2>1, <3>1, <3>2
  <2>3. QED
    BY <1>2, <2>1, <2>2
<1>6. ASSUME NEW c \in AllBlocks, RemoteServes(c) PROVE Plain'
  BY <1>3, <1>6, Messages DEF RemoteServes
<1>7. CASE RemoteUnchokes
  BY <1>3, <1>7, Messages DEF RemoteUnchokes, Note
<1>8. ASSUME NEW p \in Pieces, RemoteAllowsFast(p) PROVE Plain'
  BY <1>3, <1>8, Messages DEF RemoteAllowsFast, Allow
<1>9. CASE RemoteChokes
  <2>1. PICK rejects \in Seq(AllBlocks), sent \in Seq(FromMsg) :
            /\ fromRemote' = fromRemote \o sent
            /\ sent = <<Note("choke")>> \o [k \in 1..Len(rejects) |-> Rej(rejects[k])]
    BY <1>9, ChokeSends
  <2> DEFINE t == [k \in 1..Len(rejects) |-> Rej(rejects[k])]
  <2>2. t \in Seq(FromMsg) /\ <<Note("choke")>> \in Seq(FromMsg) /\ \A k \in 1..Len(t) : t[k].kind = "reject"
    <3>1. t \in Seq(FromMsg) /\ Note("choke") \in FromMsg
      BY Messages
    <3>2. \A k \in 1..Len(t) : t[k].kind = "reject"
      BY DEF Rej
    <3> HIDE DEF FromMsg, t
    <3>3. QED
      BY <3>1, <3>2
  <2>3. sent = <<Note("choke")>> \o t /\ Len(<<Note("choke")>>) = 1 /\ <<Note("choke")>>[1].kind = "choke"
    BY <2>1 DEF Note
  <2> HIDE DEF t
  <2>4. \A k \in 1..Len(sent) : sent[k].kind # "piece"
    <3>1. ASSUME NEW k \in 1..Len(sent) PROVE sent[k].kind # "piece"
      <4>1. CASE k \in 1..1
        BY <2>2, <2>3, <4>1, JoinIs
      <4>2. CASE k \notin 1..1
        <5>1. PICK j \in 1..Len(t) : k = 1 + j
          BY <2>2, <2>3, <4>2, JoinIs
        <5>2. sent[k] = t[j]
          BY <2>2, <2>3, <5>1, JoinIs
        <5>3. QED
          BY <2>2, <5>2
      <4>3. QED
        BY <4>1, <4>2
    <3>2. QED
      BY <3>1
  <2>5. QED
    BY <1>2, <2>1, <2>4
<1>10. ~ \E p \in Pieces, begin \in 0..BlockSize, len \in 1..2 * BlockSize : RemoteInvents(p, begin, len)
  BY DEF RemoteInvents
<1>11. CASE \/ IssueNext \/ EnterEndgame \/ LeechComplete \/ set_caps \/ Spend \/ Refill
            \/ \E early \in BOOLEAN : Stall(early) \/ IdleClose(early)
            \/ \E n \in Pipelines : AdaptPipeline(n)
            \/ \E p \in Pieces, ok \in BOOLEAN : HashOutcome(p, ok) \/ RivalEnds(p, ok)
            \/ \E p \in Pieces : RivalClaims(p)
            \/ \E b \in AllBlocks : RemoteDrops(b)
            \/ UNCHANGED vars
  <2>1. fromRemote' = fromRemote
    BY <1>11 DEF IssueNext, BeginIssue, EndIssue, OpenPiece, AbortStart, NextRequest, StartPiece, IssueUnchanged,
                 EnterEndgame, LeechComplete, set_caps, Spend, Refill, Stall, IdleClose, AdaptPipeline,
                 SessionUnchanged, HashOutcome, RivalEnds, RivalClaims, RemoteDrops, wires, vars
  <2>2. QED
    BY <1>1, <2>1
<1>12. QED
  BY <1>4, <1>5, <1>6, <1>7, <1>8, <1>9, <1>10, <1>11 DEF Next, RemoteNext

\* OnceInv is inductive, given BlockInv before and after the step.
LEMMA OnceStep ==
  ASSUME BlockInv, BlockInv', OnceInv, [Next]_vars
  PROVE  OnceInv'
<1>i. SlotInv /\ Wires /\ IssueInv /\ Flags /\ Flags'
  BY DEF BlockInv
<1>n. (NoMore => NoMore') /\ (crossed => crossed') /\ (over => over') /\ has \subseteq has'
  BY <1>i, NoMoreStays
<1> SUFFICES ASSUME ~crossed' PROVE Plain' /\ \A b \in AllBlocks : OnceAt(b)'
  BY DEF OnceInv, AllBlocks, BlocksOf, num_blocks
<1>p. Plain /\ \A b \in AllBlocks : OnceAt(b)
  BY <1>n DEF OnceInv
<1>q. Plain'
  BY <1>i, <1>p, PlainStep
<1> SUFFICES ASSUME NEW b \in AllBlocks PROVE OnceAt(b)'
  BY <1>q
<1>0. OnceAt(b)
  BY <1>p
<1>f. fromRemote \in Seq(FromMsg)
  BY <1>i DEF Wires
<1>o. over' => NoMore'
  BY DEF NoMore
<1>1. ASSUME UNCHANGED <<toRemote, fromRemote, remoteQ>>, InIssue(b)' => InIssue(b), ~ReceiveNext,
             ~EnterEndgame, ~ \E early \in BOOLEAN : Stall(early), ~LeechComplete
      PROVE  OnceAt(b)'
  <2>1. Asks(b) => Asks(b)' \/ NoMore'
    BY <1>1, <1>o, MarksLost
  <2>2. QED
    BY <1>0, <1>1, <1>n, <2>1, OnceSame
<1>m. ASSUME fromRemote' = fromRemote PROVE ~ReceiveNext
  <2>1. SUFFICES ASSUME fromRemote # <<>>, fromRemote' = Tail(fromRemote) PROVE FALSE
    BY DEF ReceiveNext, OnChoke, OnUnchoke, OnAllowedFast, OnReject, OnPiece, Receives
  <2>2. Len(Tail(fromRemote)) = Len(fromRemote) - 1 /\ Len(fromRemote) \in Nat
    BY <1>f, <2>1, TailIs
  <2>3. QED
    BY <1>m, <2>1, <2>2
<1>2. CASE LeechComplete
  <2>1. NoMore /\ NoMore' /\ UNCHANGED <<fromRemote, remoteQ, issue>> /\ toRemote' = toRemote \o Cancels
    BY <1>2, <1>n DEF LeechComplete, NoMore, SessionUnchanged, remoteVars
  <2>2. (Sent(b)' <=> Sent(b)) /\ (Few(toRemote, {Req(b)}) => Few(toRemote', {Req(b)}))
    BY <1>i, <2>1, CancelsOn
  <2>3. (InIssue(b)' <=> InIssue(b)) /\ (Replied(b)' <=> Replied(b)) /\ (b \in remoteQ' <=> b \in remoteQ)
    BY <2>1 DEF InIssue, Replied, On
  <2>4. OnlyOnce(b)'
    BY <1>0, <2>1, <2>2, <2>3 DEF OnceAt, OnlyOnce, Few
  <2>5. QED
    BY <2>1, <2>4 DEF OnceAt
<1>3. CASE EnterEndgame \/ \E early \in BOOLEAN : Stall(early)
  BY <1>0, <1>3, OnceTakenBack DEF EnterEndgame, Stall, SessionUnchanged, remoteVars
<1>4. CASE EndIssue
  BY <1>0, <1>4, <1>i, <1>n, OnceSent
<1>5. CASE RemoteReads
  BY <1>0, <1>5, <1>i, <1>n, OnceRead
<1>6. CASE ReceiveNext
  <2>1. PICK k \in {"choke", "unchoke", "allow", "reject", "piece"} : Receives(k)
    BY <1>6 DEF ReceiveNext, OnChoke, OnUnchoke, OnAllowedFast, OnReject, OnPiece
  <2>2. /\ fromRemote # <<>> /\ fromRemote' = Tail(fromRemote) /\ UNCHANGED <<toRemote, remoteQ, issue>>
    BY <2>1 DEF Receives, remoteVars
  <2>3. InIssue(b)' => InIssue(b)
    BY <2>2 DEF InIssue
  <2>4. ~EnterEndgame /\ ~LeechComplete /\ ~ \E early \in BOOLEAN : Stall(early)
    <3>1. fromRemote' # fromRemote
      BY <1>6, <1>m
    <3>2. QED
      BY <3>1 DEF EnterEndgame, LeechComplete, Stall, SessionUnchanged
  <2>5. Head(fromRemote).kind = "piece" => \E c \in AllBlocks : Head(fromRemote) = Whole(c)
    <3>1. Head(fromRemote) = fromRemote[1] /\ 1 \in 1..Len(fromRemote)
      BY <1>f, <2>2, TailIs
    <3>2. QED
      BY <1>p, <3>1 DEF Plain
  <2>6. Asks(b) => Asks(b)' \/ NoMore' \/ Head(fromRemote) \in Ans(b)
    BY <1>o, <2>4, <2>5, MarksLost DEF Ans
  <2>7. QED
    BY <1>0, <1>f, <1>n, <2>2, <2>3, <2>6, OnceHeard
<1>7. ASSUME NEW p \in Pieces, NextRequest(p) PROVE OnceAt(b)'
  <2>1. PICK i : i = Min(Unasked(p))
    OBVIOUS
  <2>2. /\ ~over /\ issue # NoIssue /\ p \in Askable
        /\ slot' = [slot EXCEPT ![p].requested = @ \cup {i}]
        /\ issue' = [issue EXCEPT !.reqs = Append(@, <<p, i>>)]
        /\ UNCHANGED <<toRemote, fromRemote, remoteQ>>
    BY <1>7, <2>1 DEF NextRequest, Filling, IssueUnchanged, wires, remoteVars
  <2>3. issue.reqs \in Seq(AllBlocks) /\ issue \in Issues /\ Len(issue.reqs) \in Nat
    BY <1>i DEF IssueInv, Issues
  <2>4. issue'.reqs = Append(issue.reqs, <<p, i>>)
    BY <2>2, <2>3 DEF Issues
  <2>5. /\ Len(issue'.reqs) = Len(issue.reqs) + 1
        /\ \A k \in 1..Len(issue.reqs) : issue'.reqs[k] = issue.reqs[k]
        /\ issue'.reqs[Len(issue.reqs) + 1] = <<p, i>>
    BY <2>3, <2>4
  <2>6. CASE b # <<p, i>>
    <3>1. InIssue(b)' => InIssue(b)
      <4>1. ASSUME NEW k \in 1..Len(issue'.reqs), issue'.reqs[k] = b PROVE InIssue(b)
        <5>1. CASE k \in 1..Len(issue.reqs)
          BY <2>5, <4>1, <5>1 DEF InIssue
        <5>2. CASE k = Len(issue.reqs) + 1
          BY <2>5, <2>6, <4>1, <5>2
        <5>3. QED
          BY <2>3, <2>5, <5>1, <5>2
      <4>2. QED
        BY <4>1 DEF InIssue
    <3>2. issue' # issue
      BY <2>3, <2>5
    <3>3. ~EnterEndgame /\ ~LeechComplete /\ ~ \E early \in BOOLEAN : Stall(early)
      BY <2>2 DEF EnterEndgame, LeechComplete, Stall
    <3>4. QED
      BY <1>1, <1>m, <2>2, <3>1, <3>3
  <2>7. CASE b = <<p, i>>
    <3>1. i \in Unasked(p) /\ slot[p].st = "assembling"
      <4>1. Unasked(p) \in SUBSET Nat /\ Unasked(p) # {}
        BY <2>2, Sizes DEF Askable, Unasked
      <4>2. QED
        BY <2>1, <2>2, <4>1, MinIs DEF Askable, Staged
    <3>2. ~Asks(b) /\ ~NoMore
      BY <2>2, <2>7, <3>1 DEF Asks, Unasked, NoMore
    <3>3. ~InPlace(b)
      BY <1>0, <3>2 DEF OnceAt
    <3>4. ~Sent(b)' /\ ~Replied(b)' /\ b \notin remoteQ'
      BY <2>2, <3>3 DEF InPlace, Sent, Replied, On
    <3>5. OnlyOnce(b)'
      BY <3>4 DEF OnlyOnce, Sent, Replied, On, Few
    <3>6. NotCancelled(b)'
      BY <3>4 DEF NotCancelled, Behind, Sent, On
    <3>7. Asks(b)'
      <4>1. slot \in [Pieces -> AnySlot] /\ p \in Pieces /\ slot[p] \in AnySlot
        BY <1>i DEF SlotInv
      <4>2. /\ slot'[p].st = slot[p].st /\ slot'[p].have = slot[p].have
            /\ slot'[p].requested = slot[p].requested \cup {i}
        BY <2>2, <4>1 DEF AnySlot
      <4>3. QED
        BY <2>7, <3>1, <4>2 DEF Asks, Unasked
    <3>8. QED
      BY <3>5, <3>6, <3>7 DEF OnceAt
  <2>8. QED
    BY <2>6, <2>7
<1>8. CASE BeginIssue
  <2>1. ~InIssue(b)'
    <3>1. issue'.reqs = <<>>
      BY <1>8 DEF BeginIssue, NoIssue
    <3>2. QED
      BY <3>1 DEF InIssue
  <2>2. issue' # issue \/ slot' = slot
    BY <1>8 DEF BeginIssue
  <2>3. UNCHANGED <<toRemote, fromRemote, remoteQ, slot>>
    BY <1>8 DEF BeginIssue, wires, remoteVars
  <2>4. Asks(b) => Asks(b)'
    BY <2>3 DEF Asks
  <2>5. QED
    BY <1>0, <1>n, <2>1, <2>3, <2>4, OnceSame
<1>9. CASE OpenPiece \/ AbortStart
  <2>1. issue'.reqs = issue.reqs
    BY <1>9, <1>i DEF OpenPiece, AbortStart, IssueInv, Issues
  <2>2. InIssue(b)' => InIssue(b)
    BY <2>1 DEF InIssue
  <2>3. UNCHANGED <<toRemote, fromRemote, remoteQ>> /\ issue.starting # {}
    BY <1>9 DEF OpenPiece, AbortStart, IssueUnchanged, wires, remoteVars
  <2>4. ~EnterEndgame /\ ~LeechComplete /\ ~ \E early \in BOOLEAN : Stall(early)
    BY <2>3, NoIssueIs DEF EnterEndgame, LeechComplete, Stall
  <2>5. QED
    BY <1>1, <1>m, <2>2, <2>3, <2>4
<1>10. ASSUME UNCHANGED <<slot, issue, toRemote, fromRemote>>, b \in remoteQ' => b \in remoteQ PROVE OnceAt(b)'
  <2>1. <<>> \in Seq(FromMsg) /\ fromRemote' = fromRemote \o <<>>
    BY <1>f, <1>10
  <2>2. Few(<<>>, Ans(b)) /\ ~On(<<>>, Ans(b))
    BY DEF Few, On
  <2>3. QED
    BY <1>0, <1>f, <1>n, <1>10, <2>1, <2>2, OnceReplied
<1>11. ASSUME NEW p \in Pieces, StartPiece(p) PROVE OnceAt(b)'
  <2>1. issue'.reqs = issue.reqs /\ UNCHANGED <<slot, toRemote, fromRemote, remoteQ>>
    BY <1>11, <1>i DEF StartPiece, IssueUnchanged, wires, remoteVars, IssueInv, Issues
  <2>2. (InIssue(b)' <=> InIssue(b)) /\ (Asks(b)' <=> Asks(b))
    BY <2>1 DEF InIssue, Asks
  <2>3. QED
    BY <1>0, <1>n, <2>1, <2>2, OnceSame
<1>12. ASSUME NEW p \in Pieces, NEW ok \in BOOLEAN, HashOutcome(p, ok) PROVE OnceAt(b)'
  <2>1. UNCHANGED <<issue, toRemote, fromRemote, remoteQ>> /\ slot[p].st = "hashing" /\ slot' = [slot EXCEPT ![p] = NoSlot]
    BY <1>12 DEF HashOutcome, wires, remoteVars
  <2>2. b[1] \in Pieces /\ slot \in [Pieces -> AnySlot]
    BY <1>i, IsBlock DEF SlotInv
  <2>3. (InIssue(b)' <=> InIssue(b)) /\ (Asks(b) => Asks(b)')
    BY <2>1, <2>2 DEF InIssue, Asks
  <2>4. QED
    BY <1>0, <1>n, <2>1, <2>3, OnceSame
<1>13. ASSUME NEW early \in BOOLEAN, IdleClose(early) PROVE OnceAt(b)'
  <2>1. over' /\ UNCHANGED <<issue, toRemote, fromRemote, remoteQ>>
    BY <1>13 DEF IdleClose, SessionUnchanged, remoteVars
  <2>2. InIssue(b)' <=> InIssue(b)
    BY <2>1 DEF InIssue
  <2>3. QED
    BY <1>0, <1>n, <1>o, <2>1, <2>2, OnceSame
<1>14. ASSUME NEW n \in Pipelines, AdaptPipeline(n) PROVE OnceAt(b)'
  BY <1>10, <1>14 DEF AdaptPipeline, SessionUnchanged, remoteVars
<1>15. ASSUME NEW p \in Pieces, NEW ok \in BOOLEAN, RivalEnds(p, ok) \/ RivalClaims(p) PROVE OnceAt(b)'
  BY <1>10, <1>15 DEF RivalEnds, RivalClaims, OursUnchanged, wires, remoteVars
<1>16. CASE set_caps \/ Spend \/ Refill
  BY <1>10, <1>16 DEF set_caps, Spend, Refill, OursUnchanged, wires, remoteVars
<1>a. ASSUME NEW e \in FromMsg, fromRemote' = Append(fromRemote, e), UNCHANGED <<toRemote, issue, slot>>,
             b \in remoteQ' => b \in remoteQ, e \in Ans(b) => b \in remoteQ /\ b \notin remoteQ'
      PROVE  OnceAt(b)'
  <2>1. <<e>> \in Seq(FromMsg) /\ fromRemote' = fromRemote \o <<e>> /\ Len(<<e>>) = 1 /\ <<e>>[1] = e
    <3> HIDE DEF FromMsg
    <3>1. QED
      BY <1>f, <1>a, OneMore
  <2>2. Few(<<e>>, Ans(b)) /\ (On(<<e>>, Ans(b)) => e \in Ans(b))
    BY <2>1 DEF Few, On
  <2>3. QED
    BY <1>0, <1>a, <1>f, <1>n, <2>1, <2>2, OnceReplied
<1>17. ASSUME NEW c \in AllBlocks, RemoteServes(c) PROVE OnceAt(b)'
  <2>1. Whole(c) \in FromMsg /\ (Whole(c) \in Ans(b) => b = c)
    BY Messages, AnsIs
  <2>2. QED
    BY <1>a, <1>17, <2>1 DEF RemoteServes, RemoteUnchanged, OursUnchanged
<1>18. CASE RemoteUnchokes
  <2>1. Note("unchoke") \in FromMsg /\ Note("unchoke") \notin Ans(b)
    BY Messages, AnsIs, BlockAssumption
  <2>2. QED
    BY <1>a, <1>18, <2>1 DEF RemoteUnchokes, RemoteUnchanged, OursUnchanged
<1>19. ASSUME NEW p \in Pieces, RemoteAllowsFast(p) PROVE OnceAt(b)'
  <2>1. Allow(p) \in FromMsg /\ Allow(p) \notin Ans(b)
    BY Messages, AnsIs
  <2>2. QED
    BY <1>a, <1>19, <2>1 DEF RemoteAllowsFast, RemoteUnchanged, OursUnchanged
<1>20. CASE RemoteChokes
  <2>1. PICK rejects \in Seq(AllBlocks), sent \in Seq(FromMsg) :
            /\ fromRemote' = fromRemote \o sent
            /\ sent = <<Note("choke")>> \o [k \in 1..Len(rejects) |-> Rej(rejects[k])]
            /\ \A j, k \in 1..Len(rejects) : rejects[j] = rejects[k] => j = k
            /\ \A k \in 1..Len(rejects) : rejects[k] \in remoteQ \ remoteQ'
            /\ remoteQ' \subseteq remoteQ
    BY <1>20, <1>i, ChokeSends
  <2> DEFINE t == [k \in 1..Len(rejects) |-> Rej(rejects[k])]
  <2>2. t \in Seq(FromMsg) /\ Note("choke") \in FromMsg /\ Len(t) = Len(rejects)
        /\ \A k \in 1..Len(rejects) : t[k] = Rej(rejects[k]) /\ rejects[k] \in AllBlocks
    BY Messages
  <2>3. sent = <<Note("choke")>> \o t /\ Len(<<Note("choke")>>) = 1 /\ <<Note("choke")>>[1] = Note("choke")
    BY <2>1
  <2>4. <<Note("choke")>> \in Seq(FromMsg)
    <3> HIDE DEF FromMsg, t
    <3>1. QED
      BY <2>2
  <2> HIDE DEF t
  <2>5. Note("choke") \notin Ans(b)
    BY AnsIs, BlockAssumption
  <2>6. ~On(<<Note("choke")>>, Ans(b)) /\ Few(<<Note("choke")>>, Ans(b))
    BY <2>3, <2>5 DEF On, Few
  <2>7. \A k \in 1..Len(rejects) : t[k] \in Ans(b) => rejects[k] = b
    BY <2>2, AnsIs
  <2>8. Few(t, Ans(b)) /\ (On(t, Ans(b)) => b \in remoteQ /\ b \notin remoteQ')
    BY <2>1, <2>2, <2>7 DEF Few, On
  <2>9. Few(sent, Ans(b)) /\ (On(sent, Ans(b)) => b \in remoteQ /\ b \notin remoteQ')
    BY <2>2, <2>3, <2>4, <2>6, <2>8, JoinFew
  <2>10. UNCHANGED <<toRemote, issue, slot>>
    BY <1>20 DEF RemoteChokes, RemoteUnchanged, OursUnchanged
  <2>11. QED
    BY <1>0, <1>f, <1>n, <2>1, <2>9, <2>10, OnceReplied
<1>21. ASSUME NEW c \in AllBlocks, RemoteDrops(c) PROVE OnceAt(b)'
  BY <1>10, <1>21 DEF RemoteDrops, RemoteUnchanged, OursUnchanged, wires
<1>22. ~ \E p \in Pieces, begin \in 0..BlockSize, len \in 1..2 * BlockSize : RemoteInvents(p, begin, len)
  BY DEF RemoteInvents
<1>23. CASE UNCHANGED vars
  BY <1>10, <1>23 DEF vars
<1>24. QED
  BY <1>2, <1>3, <1>4, <1>5, <1>6, <1>7, <1>8, <1>9, <1>11, <1>12, <1>13, <1>14, <1>15, <1>16, <1>17, <1>18,
     <1>19, <1>20, <1>21, <1>22, <1>23
  DEF Next, IssueNext, RemoteNext

\* A new session has asked for nothing.
LEMMA AgreeStarts == Init => LiveInv /\ OnceInv
<1> SUFFICES ASSUME Init PROVE LiveInv /\ OnceInv
  OBVIOUS
<1>1. /\ toRemote = <<>> /\ fromRemote = <<>> /\ remoteQ = {} /\ Len(issue.reqs) = 0
      /\ \A p \in Pieces : slot[p].st # "assembling"
  BY NoIssueIs DEF Init, NoSlot
<1>2. ASSUME NEW b \in AllBlocks PROVE LiveAt(b)
  BY <1>1, IsBlock DEF LiveAt, Asks
<1>3. ASSUME NEW b \in AllBlocks PROVE OnceAt(b)
  <2>1. 1..Len(toRemote) = {} /\ 1..Len(fromRemote) = {} /\ 1..Len(issue.reqs) = {}
    BY <1>1
  <2>2. ~Sent(b) /\ ~Replied(b) /\ ~InIssue(b) /\ b \notin remoteQ /\ Behind(toRemote, b)
        /\ Few(toRemote, {Req(b)}) /\ Few(fromRemote, Ans(b))
    BY <1>1, <2>1 DEF Sent, Replied, On, InIssue, Behind, Few
  <2>3. QED
    BY <2>2 DEF OnceAt, OnlyOnce, InPlace, NotCancelled
<1>4. Plain
  BY <1>1 DEF Plain
<1>5. QED
  BY <1>2, <1>3, <1>4 DEF LiveInv, OnceInv

\* LiveInv is RequestedIsLive, in terms of one slot.
LEMMA MarkedIsLive ==
  ASSUME BlockInv, LiveInv
  PROVE  RequestedIsLive
<1>1. Slots
  BY DEF BlockInv, SlotInv, Slots, Sound
<1>2. ASSUME ~over, NEW b \in outstanding_list \ (ToSet(issue.reqs) \cup dropped)
      PROVE  b[1] \in has \/ Live(b)
  <2>1. b \in AllBlocks /\ Asks(b) /\ b \notin dropped
    BY <1>1, <1>2, Outstanding DEF Asks
  <2>2. ~InIssue(b)
    BY <1>2 DEF InIssue, ToSet
  <2>3. QED
    BY <1>2, <2>1, <2>2 DEF LiveInv, LiveAt
<1>3. QED
  BY <1>2 DEF RequestedIsLive

\* At most one of four places means at most one request.
LEMMA OneRequest ==
  ASSUME BlockInv, OnceInv
  PROVE  NotAskedTwice
<1>1. ASSUME ~crossed, NEW b \in AllBlocks
      PROVE  Requests(b) + (IF b \in remoteQ THEN 1 ELSE 0) <= 1
  <2>1. Few(toRemote, {Req(b)}) /\ (Sent(b) => b \notin remoteQ)
    BY <1>1 DEF OnceInv, OnceAt, OnlyOnce
  <2>2. PICK S : S = {k \in 1..Len(toRemote) : toRemote[k] = Req(b)}
    OBVIOUS
  <2>3. Requests(b) = Cardinality(S)
    BY <2>2 DEF Requests
  <2>4. CASE Sent(b)
    <3>1. PICK k \in 1..Len(toRemote) : toRemote[k] = Req(b)
      BY <2>4 DEF Sent, On
    <3>2. S = {k}
      BY <2>1, <2>2, <3>1 DEF Few
    <3>3. Cardinality(S) = 1
      BY <3>2, FS_Singleton
    <3>4. QED
      BY <2>1, <2>3, <2>4, <3>3
  <2>5. CASE ~Sent(b)
    <3>1. S = {}
      BY <2>2, <2>5 DEF Sent, On
    <3>2. Cardinality(S) = 0
      BY <3>1, FS_EmptySet
    <3>3. QED
      BY <2>3, <3>2
  <2>6. QED
    BY <2>4, <2>5
<1>2. QED
  BY <1>1 DEF NotAskedTwice

\* The session and the remote agree on the blocks that are asked for.  A block
\* that is marked as requested has its request or its answer on the way, unless
\* the remote dropped it or a rival finished the piece (otherwise
\* requeue_timed_out is its only way back), and no order of Choke, Unchoke,
\* Reject, Allowed Fast, hash outcomes and stalls makes next_request ask for a
\* block that the remote still owes, until a Cancel crosses an answer.
THEOREM BothSidesAgree == Spec => []RequestsAgree
<1>1. BlockInv /\ BlockInv' /\ (LiveInv /\ OnceInv) /\ [Next]_vars => (LiveInv /\ OnceInv)'
  BY LiveStep, OnceStep
<1>2. BlockInv /\ (LiveInv /\ OnceInv) => RequestsAgree
  BY MarkedIsLive, OneRequest DEF RequestsAgree
<1>3. Spec => [](LiveInv /\ OnceInv)
  BY <1>1, AgreeStarts, BlockHolds, PTL DEF Spec
<1>4. QED
  BY <1>2, <1>3, BlockHolds, PTL

=============================================================================

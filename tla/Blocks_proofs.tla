--------------------------- MODULE Blocks_proofs ---------------------------
(***************************************************************************)
(* Proofs about the operators of Blocks and BmapFile, for buffers, blocks  *)
(* and lists of every size: classify_blocks cuts a buffer into spans, and  *)
(* a span is zero exactly if the blocks in it are; coalescing and rounding *)
(* keep every byte and leave gaps; a document that parse accepts is what   *)
(* it was when its digest was made, and what create renders is accepted.   *)
(*                                                                         *)
(* Folds are recursive functions on the subsets of a finite set.  The      *)
(* induction behind them is that of the natural numbers, on sets instead   *)
(* of predicates.                                                          *)
(***************************************************************************)
EXTENDS BmapFile, FiniteSetTheorems, SequenceTheorems, WellFoundedInduction, TLAPS

-----------------------------------------------------------------------------
(* Induction.                                                              *)

LEMMA LeastNumber ==
  ASSUME NEW T \in SUBSET Nat, T # {}
  PROVE  \E x \in T : \A y \in T : x <= y
<1>1. IsWellFoundedOn(OpToRel(<, Nat), Nat)
  BY NatLessThanWellFounded
<1>2. PICK x \in T : \A y \in T : ~(<<y, x>> \in OpToRel(<, Nat))
  BY <1>1, WFMin
<1>3. OpToRel(<, Nat) = {ss \in Nat \X Nat : ss[1] < ss[2]}
  BY DEF OpToRel
<1>4. ASSUME NEW y \in T
      PROVE  x <= y
  <2>1. ~(<<y, x>> \in {ss \in Nat \X Nat : ss[1] < ss[2]})
    BY <1>2, <1>3
  <2> QED
    BY <2>1
<1> QED
  BY <1>4

LEMMA Induction ==
  ASSUME NEW S, 0 \in S, \A n \in Nat : n \in S => n + 1 \in S
  PROVE  Nat \subseteq S
<1> DEFINE T == {n \in Nat : n \notin S}
<1> SUFFICES ASSUME T # {} PROVE FALSE
  OBVIOUS
<1>1. PICK x \in T : \A y \in T : x <= y
  BY LeastNumber
<1>2. x # 0 /\ x - 1 \in Nat
  BY <1>1
<1>3. x - 1 \in S
  BY <1>1, <1>2
<1> QED
  BY <1>1, <1>2, <1>3

(* A function defined by taking one element after the other out of a       *)
(* finite set: pick says which one, step what to do with it.               *)
Picks(pick, S) == \A s \in SUBSET S : s # {} => pick[s] \in s

StepsIn(step, S, V) == \A x \in S, v \in V : step[x][v] \in V

IsFold(it, S, V, base, pick, step) ==
  /\ it \in [SUBSET S -> V]
  /\ \A s \in SUBSET S : it[s] = IF s = {} THEN base ELSE step[pick[s]][it[s \ {pick[s]}]]

LEMMA FoldExists ==
  ASSUME NEW S, IsFiniteSet(S), NEW V, NEW base \in V, NEW pick, Picks(pick, S),
         NEW step, StepsIn(step, S, V)
  PROVE  \E it : IsFold(it, S, V, base, pick, step)
<1> USE DEF Picks, StepsIn
<1> DEFINE Small(n) == {s \in SUBSET S : Cardinality(s) <= n}
           Value(it, s) == IF s = {} THEN base ELSE step[pick[s]][it[s \ {pick[s]}]]
           Upto(n) == \E it \in [Small(n) -> V] : \A s \in Small(n) : it[s] = Value(it, s)
           Reached == {n \in Nat : Upto(n)}
<1>1. \A s \in SUBSET S : IsFiniteSet(s) /\ Cardinality(s) \in Nat
  BY FS_Subset, FS_CardinalityType
<1>2. 0 \in Reached
  <2> DEFINE it == [s \in Small(0) |-> base]
  <2>1. \A s \in Small(0) : s = {}
    BY <1>1, FS_EmptySet
  <2>2. it \in [Small(0) -> V] /\ \A s \in Small(0) : it[s] = Value(it, s)
    BY <2>1
  <2> QED
    BY <2>2
<1>3. ASSUME NEW n \in Nat, n \in Reached
      PROVE  n + 1 \in Reached
  <2>1. PICK it \in [Small(n) -> V] : \A s \in Small(n) : it[s] = Value(it, s)
    BY <1>3
  <2> DEFINE next == [s \in Small(n + 1) |-> Value(it, s)]
  <2>2. ASSUME NEW s \in Small(n + 1), s # {}
        PROVE  pick[s] \in S /\ s \ {pick[s]} \in Small(n)
    <3>1. pick[s] \in s /\ IsFiniteSet(s) /\ Cardinality(s) \in Nat
      BY <1>1, <2>2
    <3>2. Cardinality(s \ {pick[s]}) = Cardinality(s) - 1
      BY <3>1, FS_RemoveElement
    <3> QED
      BY <3>1, <3>2
  <2>3. next \in [Small(n + 1) -> V]
    BY <2>1, <2>2
  <2>4. \A s \in Small(n) : s \in Small(n + 1) /\ next[s] = it[s]
    <3>1. \A s \in Small(n) : s \in Small(n + 1)
      BY <1>1
    <3> QED
      BY <2>1, <3>1
  <2>5. \A s \in Small(n + 1) : next[s] = Value(next, s)
    BY <2>2, <2>4
  <2>6. Upto(n + 1)
    <3> HIDE DEF next, Small
    <3> QED
      BY <2>3, <2>5
  <2> HIDE DEF Upto
  <2> QED
    BY <2>6
<1>4. Cardinality(S) \in Nat /\ Cardinality(S) \in Reached
  <2>1. Cardinality(S) \in Nat
    BY <1>1
  <2>2. Nat \subseteq Reached
    BY <1>2, <1>3, Induction
  <2> QED
    BY <2>1, <2>2
<1>5. Small(Cardinality(S)) = SUBSET S
  BY FS_Subset
<1> QED
  BY <1>4, <1>5 DEF IsFold

-----------------------------------------------------------------------------
(* Sums.                                                                   *)

(* How MapThenSumSet goes through the subsets of S, adding the weights w.  *)
Sums(it, S, w) ==
  it = [s \in SUBSET S |->
          IF s = {} THEN 0
          ELSE w[CHOOSE x \in s : TRUE] + it[s \ {CHOOSE x \in s : TRUE}]]

LEMMA SumExists ==
  ASSUME NEW S, IsFiniteSet(S), NEW w \in [S -> Nat]
  PROVE  \E it : Sums(it, S, w)
<1> DEFINE pick == [s \in SUBSET S |-> CHOOSE x \in s : TRUE]
           step == [x \in S |-> [v \in Nat |-> w[x] + v]]
<1>1. Picks(pick, S)
  BY DEF Picks
<1>2. StepsIn(step, S, Nat)
  BY DEF StepsIn
<1>3. \A s \in SUBSET S : pick[s] = CHOOSE x \in s : TRUE
  OBVIOUS
<1>4. \A x \in S, v \in Nat : step[x][v] = w[x] + v
  OBVIOUS
<1> HIDE DEF pick, step
<1>5. PICK it : IsFold(it, S, Nat, 0, pick, step)
  BY <1>1, <1>2, FoldExists
<1>6. ASSUME NEW s \in SUBSET S
      PROVE  it[s] = IF s = {} THEN 0 ELSE w[pick[s]] + it[s \ {pick[s]}]
  <2>1. CASE s = {}
    BY <1>5, <2>1 DEF IsFold
  <2>2. CASE s # {}
    <3>1. pick[s] \in S /\ s \ {pick[s]} \in SUBSET S /\ it[s \ {pick[s]}] \in Nat
      BY <1>1, <1>5, <2>2 DEF Picks, IsFold
    <3>2. it[s] = step[pick[s]][it[s \ {pick[s]}]]
      BY <1>5, <2>2 DEF IsFold
    <3> QED
      BY <1>4, <2>2, <3>1, <3>2
  <2> QED
    BY <2>1, <2>2
<1>7. it = [s \in SUBSET S |-> it[s]]
  BY <1>5 DEF IsFold
<1> DEFINE Value(s) == IF s = {} THEN 0
                       ELSE w[CHOOSE x \in s : TRUE] + it[s \ {CHOOSE x \in s : TRUE}]
<1>8. \A s \in SUBSET S : it[s] = Value(s)
  BY <1>3, <1>6
<1>9. it = [s \in SUBSET S |-> Value(s)]
  <2> HIDE DEF Value
  <2> QED
    BY <1>7, <1>8
<1> QED
  BY <1>9 DEF Sums

(* Whatever is taken out first, the sum is the same.                       *)
PeelsOff(it, S, w) == \A s \in SUBSET S : \A x \in s : it[s] = w[x] + it[s \ {x}]

LEMMA SumFacts ==
  ASSUME NEW S, IsFiniteSet(S), NEW w \in [S -> Nat], NEW it, Sums(it, S, w)
  PROVE  /\ it[{}] = 0
         /\ \A s \in SUBSET S : it[s] \in Nat
         /\ PeelsOff(it, S, w)
<1> DEFINE pick(s) == CHOOSE x \in s : TRUE
<1>1. ASSUME NEW s \in SUBSET S, s # {}
      PROVE  pick(s) \in s /\ it[s] = w[pick(s)] + it[s \ {pick(s)}] /\ w[pick(s)] \in Nat
  <2>1. pick(s) \in s
    BY <1>1
  <2>2. it[s] = w[pick(s)] + it[s \ {pick(s)}]
    BY <1>1 DEF Sums
  <2> QED
    BY <2>1, <2>2
<1>2. it[{}] = 0
  BY DEF Sums
<1>3. \A s \in SUBSET S : IsFiniteSet(s) /\ Cardinality(s) \in Nat
  BY FS_Subset, FS_CardinalityType
<1>4. \A s \in SUBSET S : \A x \in s : Cardinality(s \ {x}) = Cardinality(s) - 1
  BY <1>3, FS_RemoveElement
<1> HIDE DEF pick
<1> DEFINE Good(s) == it[s] \in Nat /\ \A x \in s : it[s] = w[x] + it[s \ {x}]
           Small == {n \in Nat : \A s \in SUBSET S : Cardinality(s) <= n => Good(s)}
<1>5. 0 \in Small
  <2>1. \A s \in SUBSET S : Cardinality(s) <= 0 => s = {}
    BY <1>3, FS_EmptySet
  <2> QED
    BY <1>2, <2>1
<1>6. ASSUME NEW n \in Nat, n \in Small
      PROVE  n + 1 \in Small
  <2> SUFFICES ASSUME NEW s \in SUBSET S, Cardinality(s) <= n + 1 PROVE Good(s)
    OBVIOUS
  <2>0. CASE s = {}
    BY <1>2, <2>0
  <2> SUFFICES ASSUME s # {} PROVE Good(s)
    BY <2>0
  <2>1. \A x \in s : Good(s \ {x})
    <3> HIDE DEF Good
    <3>1. ASSUME NEW x \in s
          PROVE  s \ {x} \in SUBSET S /\ Cardinality(s \ {x}) <= n
      BY <1>3, <1>4
    <3> QED
      BY <1>6, <3>1
  <2> DEFINE y == pick(s)
  <2>2. y \in s /\ it[s] = w[y] + it[s \ {y}] /\ w[y] \in Nat
    BY <1>1
  <2> HIDE DEF y
  <2>3. it[s] \in Nat
    <3>1. it[s \ {y}] \in Nat
      BY <2>1, <2>2
    <3> QED
      BY <2>2, <3>1
  <2>4. ASSUME NEW x \in s, x # y
        PROVE  it[s] = w[x] + it[s \ {x}]
    <3> DEFINE rest == (s \ {y}) \ {x}
    <3>1. rest = (s \ {x}) \ {y}
      OBVIOUS
    <3>2. it[s \ {y}] = w[x] + it[rest]
      BY <2>1, <2>2, <2>4
    <3>3. it[s \ {x}] = w[y] + it[rest]
      BY <2>1, <2>2, <2>4, <3>1
    <3>4. it[rest] \in Nat /\ w[x] \in Nat
      <4>1. Good(s \ {y}) /\ x \in s \ {y}
        BY <2>1, <2>2, <2>4
      <4>2. rest \in SUBSET S /\ Cardinality(rest) <= n
        <5>1. s \ {y} \in SUBSET S
          OBVIOUS
        <5>2. Cardinality(rest) = Cardinality(s \ {y}) - 1
          BY <1>4, <4>1, <5>1
        <5>3. Cardinality(s \ {y}) = Cardinality(s) - 1 /\ Cardinality(s) \in Nat
          BY <1>3, <1>4, <2>2
        <5> QED
          BY <5>1, <5>2, <5>3
      <4> HIDE DEF Good, rest
      <4>3. Good(rest)
        BY <1>6, <4>2
      <4> QED
        BY <4>3 DEF Good
    <3> HIDE DEF rest
    <3> QED
      BY <2>2, <3>2, <3>3, <3>4
  <2> QED
    BY <2>2, <2>3, <2>4
<1>7. Nat \subseteq Small
  <2> HIDE DEF Small
  <2> QED
    BY <1>5, <1>6, Induction
<1>8. \A s \in SUBSET S : Good(s)
  <2> SUFFICES ASSUME NEW s \in SUBSET S PROVE Good(s)
    OBVIOUS
  <2> HIDE DEF Good
  <2> QED
    BY <1>3, <1>7
<1>9. PeelsOff(it, S, w)
  BY <1>8 DEF PeelsOff
<1> QED
  BY <1>2, <1>8, <1>9

(* A sum over a list, taken entry by entry.                                *)
LEMMA SumUpto ==
  ASSUME NEW m \in Nat, NEW w \in [1..m -> Nat], NEW it, Sums(it, 1..m, w)
  PROVE  /\ it[1..0] = 0
         /\ \A k \in 0..m : it[1..k] \in Nat
         /\ \A k \in 1..m : it[1..k] = it[1..(k - 1)] + w[k]
         /\ \A k \in 0..m : it[1..k] <= it[1..m]
<1> DEFINE S == 1..m
<1>1. IsFiniteSet(S)
  BY FS_Interval
<1>10. w \in [S -> Nat] /\ Sums(it, S, w)
  OBVIOUS
<1> HIDE DEF S
<1>2. /\ it[{}] = 0
      /\ \A s \in SUBSET S : it[s] \in Nat
      /\ PeelsOff(it, S, w)
  BY <1>1, <1>10, SumFacts
<1> USE DEF S
<1>3. it[1..0] = 0
  BY <1>2
<1>4. ASSUME NEW k \in 0..m
      PROVE  it[1..k] \in Nat
  BY <1>2
<1>5. ASSUME NEW k \in 1..m
      PROVE  it[1..k] = it[1..(k - 1)] + w[k]
  <2> DEFINE upto == 1..k
             before == 1..(k - 1)
  <2>1. upto \in SUBSET S /\ k \in upto /\ upto \ {k} = before
    OBVIOUS
  <2>2. it[upto] = w[k] + it[before]
    <3> HIDE DEF upto, before, S
    <3> QED
      BY <1>2, <2>1 DEF PeelsOff
  <2>3. it[1..(k - 1)] \in Nat /\ w[k] \in Nat
    BY <1>4
  <2> QED
    BY <2>2, <2>3
<1> DEFINE Below == {d \in Nat : d <= m => it[1..(m - d)] <= it[1..m]}
<1>6. 0 \in Below
  BY <1>4
<1>7. ASSUME NEW d \in Nat, d \in Below
      PROVE  d + 1 \in Below
  <2> SUFFICES ASSUME d + 1 <= m PROVE it[1..(m - (d + 1))] <= it[1..m]
    OBVIOUS
  <2>1. m - d \in 1..m /\ (m - d) - 1 = m - (d + 1) /\ m - (d + 1) \in 0..m /\ m \in 0..m
    OBVIOUS
  <2>2. it[1..(m - d)] = it[1..(m - (d + 1))] + w[m - d]
    BY <1>5, <2>1
  <2>3. it[1..(m - d)] <= it[1..m]
    BY <1>7, <2>1
  <2> QED
    BY <1>4, <2>1, <2>2, <2>3
<1>8. ASSUME NEW k \in 0..m
      PROVE  it[1..k] <= it[1..m]
  <2>1. m - k \in Nat /\ m - (m - k) = k /\ m - k <= m
    OBVIOUS
  <2>2. m - k \in Below
    <3> HIDE DEF Below
    <3> QED
      BY <1>6, <1>7, <2>1, Induction
  <2> QED
    BY <2>1, <2>2
<1> QED
  BY <1>3, <1>4, <1>5, <1>8

-----------------------------------------------------------------------------
(* Spans.                                                                  *)

SpanType == [offset : Nat, len : Nat \ {0}, zero : BOOLEAN]

SpanEnd(s) == s.offset + s.len

(* The spans follow each other from cell 0 to cell n.                      *)
Cuts(spans, n) ==
  /\ spans \in Seq(SpanType)
  /\ \A i \in 1..Len(spans) :
       /\ spans[i].offset = IF i = 1 THEN 0 ELSE SpanEnd(spans[i - 1])
       /\ SpanEnd(spans[i]) <= n
  /\ n = IF Len(spans) = 0 THEN 0 ELSE SpanEnd(spans[Len(spans)])

BlockZero(cells, bs, b) == IsZero(cells, b * bs, Lesser((b + 1) * bs, Len(cells)))

(* A cell of the span lies in a block that is zero, or not, as it says.    *)
Says(span, cells, bs) ==
  \A b, c \in Nat : /\ span.offset <= c /\ c < SpanEnd(span)
                    /\ b * bs <= c /\ c < (b + 1) * bs
                    => span.zero = BlockZero(cells, bs, b)

(* Spans are maximal: each begins at a block, and differs from the one     *)
(* before it.                                                              *)
Alternate(spans, bs) ==
  \A i \in 1..Len(spans) : /\ \E b \in Nat : spans[i].offset = b * bs
                           /\ i # 1 => spans[i].zero # spans[i - 1].zero

LEMMA CutsFacts ==
  ASSUME NEW spans, NEW n \in Nat, Cuts(spans, n)
  PROVE  /\ Len(spans) \in Nat
         /\ \A i \in 1..Len(spans) :
              /\ spans[i] \in SpanType
              /\ spans[i].offset \in Nat /\ spans[i].len \in Nat \ {0}
              /\ spans[i].zero \in BOOLEAN /\ SpanEnd(spans[i]) \in Nat
<1>1. spans \in Seq(SpanType) /\ Len(spans) \in Nat
  BY LenProperties DEF Cuts
<1>2. \A i \in 1..Len(spans) : spans[i] \in SpanType
  BY <1>1, ElementOfSeq
<1> QED
  BY <1>1, <1>2 DEF SpanType, SpanEnd

(* What a block adds: to the last span, or a span.                         *)
LEMMA AddingBlock ==
  ASSUME NEW spans, NEW from \in Nat, Cuts(spans, from), NEW to \in Nat, from < to,
         NEW zero \in BOOLEAN, NEW out, out = AddBlock(spans, from, to, zero)
  PROVE  /\ Cuts(out, to) /\ Len(out) \in Nat \ {0}
         /\ out[Len(out)].zero = zero
         /\ \A i \in 1..Len(out) : i # Len(out) => i \in 1..Len(spans) /\ out[i] = spans[i]
         /\ \/ /\ Len(out) = Len(spans)
               /\ out[Len(out)].offset = spans[Len(out)].offset
               /\ out[Len(out)].zero = spans[Len(out)].zero
            \/ /\ Len(out) = Len(spans) + 1
               /\ out[Len(out)].offset = from
               /\ Len(spans) # 0 => spans[Len(spans)].zero # zero
<1>1. spans \in Seq(SpanType) /\ Len(spans) \in Nat
  BY CutsFacts DEF Cuts
<1>2. \A i \in 1..Len(spans) : /\ spans[i].offset \in Nat /\ spans[i].len \in Nat \ {0}
                               /\ spans[i].zero \in BOOLEAN /\ SpanEnd(spans[i]) \in Nat
  BY CutsFacts
<1> DEFINE n == Len(spans)
<1>3. CASE spans # <<>> /\ Last(spans).zero = zero
  <2>1. n \in 1..n
    BY <1>1, <1>3, EmptySeq
  <2>2. Last(spans) = spans[n] /\ spans[n].zero = zero
    BY <1>3 DEF Last
  <2> DEFINE longer == [spans[n] EXCEPT !.len = @ + to - from]
  <2>3. longer = [offset |-> spans[n].offset, len |-> spans[n].len + to - from, zero |-> zero]
    <3>1. spans[n] \in SpanType
      BY <1>1, <2>1, ElementOfSeq
    <3> QED
      BY <2>2, <3>1 DEF SpanType
  <2>4. from = SpanEnd(spans[n])
    BY <2>1 DEF Cuts
  <2>5. longer \in SpanType /\ longer.offset = spans[n].offset /\ SpanEnd(longer) = to
        /\ longer.zero = zero
    <3> HIDE DEF longer, n
    <3>1. spans[n].offset \in Nat /\ spans[n].len \in Nat \ {0}
          /\ from = spans[n].offset + spans[n].len
      BY <1>2, <2>1, <2>4 DEF SpanEnd, n
    <3>2. spans[n].len + to - from \in Nat \ {0}
          /\ spans[n].offset + (spans[n].len + to - from) = to
      BY <3>1
    <3> QED
      BY <2>3, <3>1, <3>2 DEF SpanType, SpanEnd
  <2>6. out = [spans EXCEPT ![n] = longer]
    <3>1. out = [spans EXCEPT ![Len(spans)].len = @ + to - from]
      BY <1>3, Zenon DEF AddBlock
    <3> QED
      BY <3>1
  <2> HIDE DEF longer
  <2>7. /\ out \in Seq(SpanType) /\ Len(out) = n
        /\ \A i \in 1..n : out[i] = IF i = n THEN longer ELSE spans[i]
    BY <1>1, <2>1, <2>5, <2>6, ExceptSeq
  <2>8. \A i \in 1..n : i # 1 => i - 1 \in 1..n /\ i - 1 # n
    BY <1>1
  <2>9. Cuts(out, to)
    <3>1. ASSUME NEW i \in 1..n
          PROVE  /\ out[i].offset = IF i = 1 THEN 0 ELSE SpanEnd(out[i - 1])
                 /\ SpanEnd(out[i]) <= to
      <4>1. /\ spans[i].offset = IF i = 1 THEN 0 ELSE SpanEnd(spans[i - 1])
            /\ SpanEnd(spans[i]) <= from /\ SpanEnd(spans[i]) \in Nat
        BY <1>2 DEF Cuts
      <4>2. out[i].offset = spans[i].offset
        BY <2>5, <2>7
      <4>3. i # 1 => out[i - 1] = spans[i - 1]
        BY <2>7, <2>8
      <4>4. SpanEnd(out[i]) <= to
        BY <2>5, <2>7, <4>1
      <4> QED
        BY <4>1, <4>2, <4>3, <4>4
    <3> QED
      BY <2>1, <2>5, <2>7, <3>1 DEF Cuts
  <2> QED
    BY <2>1, <2>2, <2>5, <2>7, <2>9
<1>4. CASE ~(spans # <<>> /\ Last(spans).zero = zero)
  <2> DEFINE span == [offset |-> from, len |-> to - from, zero |-> zero]
  <2>1. out = Append(spans, span)
    BY <1>4, Zenon DEF AddBlock
  <2>2. span \in SpanType /\ span.offset = from /\ SpanEnd(span) = to /\ span.zero = zero
    BY DEF SpanType, SpanEnd
  <2> HIDE DEF span
  <2>3. /\ out \in Seq(SpanType) /\ Len(out) = n + 1
        /\ \A i \in 1..n : out[i] = spans[i]
        /\ out[n + 1] = span
    BY <1>1, <2>1, <2>2, AppendProperties
  <2>4. \A i \in 1..Len(out) : \/ i \in 1..n
                               \/ i = n + 1 /\ (i # 1 => i - 1 = n /\ n \in 1..n)
    BY <1>1, <2>3
  <2>5. \A i \in 1..n : i # 1 => i - 1 \in 1..n
    BY <1>1
  <2>6. Cuts(out, to)
    <3>1. ASSUME NEW i \in 1..Len(out)
          PROVE  /\ out[i].offset = IF i = 1 THEN 0 ELSE SpanEnd(out[i - 1])
                 /\ SpanEnd(out[i]) <= to
      <4>1. CASE i \in 1..n
        <5>1. /\ spans[i].offset = IF i = 1 THEN 0 ELSE SpanEnd(spans[i - 1])
              /\ SpanEnd(spans[i]) <= from /\ SpanEnd(spans[i]) \in Nat
          BY <1>2, <4>1 DEF Cuts
        <5>2. out[i] = spans[i] /\ (i # 1 => out[i - 1] = spans[i - 1])
          BY <2>3, <2>5, <4>1
        <5> QED
          BY <5>1, <5>2
      <4>2. CASE i = n + 1 /\ (i # 1 => i - 1 = n /\ n \in 1..n)
        <5>1. from = IF i = 1 THEN 0 ELSE SpanEnd(spans[n])
          BY <1>1, <4>2 DEF Cuts
        <5> QED
          BY <2>2, <2>3, <4>2, <5>1
      <4> QED
        BY <2>4, <4>1, <4>2
    <3> QED
      BY <1>1, <2>2, <2>3, <3>1 DEF Cuts
  <2>7. n # 0 => spans[n].zero # zero
    BY <1>1, <1>4, EmptySeq DEF Last
  <2> QED
    BY <1>1, <2>2, <2>3, <2>4, <2>6, <2>7
<1> QED
  BY <1>3, <1>4

-----------------------------------------------------------------------------
(* Division.                                                               *)

LEMMA DivMod ==
  ASSUME NEW a \in Nat, NEW b \in Nat \ {0}
  PROVE  /\ a \div b \in Nat /\ (a \div b) * b <= a /\ a < (a \div b + 1) * b
OBVIOUS

LEMMA Multiples ==
  ASSUME NEW k \in Nat, NEW q \in Nat, NEW b \in Nat, k < q
  PROVE  /\ k * b \in Nat /\ q * b \in Nat /\ (k + 1) * b = k * b + b
         /\ (k + 1) * b <= q * b
<1>1. PICK d \in Nat : q = k + 1 + d
  <2>1. q - k - 1 \in Nat
    OBVIOUS
  <2> QED
    BY <2>1
<1>2. q * b = k * b + b + d * b /\ d * b \in Nat /\ k * b \in Nat
  BY <1>1
<1> QED
  BY <1>1, <1>2

(* A cell lies in one block.                                               *)
LEMMA OneBlock ==
  ASSUME NEW bs \in Nat \ {0}, NEW b \in Nat, NEW k \in Nat, NEW c \in Nat,
         b * bs <= c, c < (b + 1) * bs, k * bs <= c, c < (k + 1) * bs
  PROVE  b = k
<1>1. CASE b < k
  BY <1>1, Multiples
<1>2. CASE k < b
  BY <1>2, Multiples
<1> QED
  BY <1>1, <1>2

LEMMA CeilFacts ==
  ASSUME NEW n \in Nat, NEW bs \in Nat \ {0}
  PROVE  /\ CeilDiv(n, bs) \in Nat
         /\ n <= CeilDiv(n, bs) * bs
         /\ \A k \in Nat : k < CeilDiv(n, bs) => k * bs < n
<1>1. n + bs - 1 \in Nat
  OBVIOUS
<1> DEFINE q == CeilDiv(n, bs)
<1>2. q \in Nat /\ q * bs <= n + bs - 1 /\ n + bs - 1 < (q + 1) * bs
  BY <1>1, DivMod DEF CeilDiv
<1> HIDE DEF q
<1>3. (q + 1) * bs = q * bs + bs /\ q * bs \in Nat
  BY <1>2
<1>4. ASSUME NEW k \in Nat, k < q
      PROVE  k * bs < n
  <2>1. k * bs \in Nat /\ k * bs + bs <= q * bs
    BY <1>2, <1>4, Multiples
  <2> QED
    BY <1>2, <1>3, <2>1
<1> QED
  BY <1>2, <1>3, <1>4 DEF q

-----------------------------------------------------------------------------
(* classify_blocks.                                                        *)

LEMMA MaxFacts ==
  ASSUME NEW m \in Nat
  PROVE  /\ \A s \in SUBSET (1..m) : s # {} => Max(s) \in s
         /\ \A k \in 1..m : Max(1..k) = k
<1>1. ASSUME NEW s \in SUBSET (1..m), s # {}
      PROVE  Max(s) \in s
  <2> DEFINE T == {m - x : x \in s}
  <2>1. T \in SUBSET Nat /\ T # {}
    <3>1. PICK z \in s : TRUE
      BY <1>1
    <3>2. m - z \in T
      BY <3>1
    <3>3. \A y \in s : y \in 1..m /\ m - y \in Nat
      OBVIOUS
    <3> QED
      BY <3>2, <3>3
  <2>2. PICK t \in T : \A u \in T : t <= u
    BY <2>1, LeastNumber
  <2>3. PICK x \in s : t = m - x
    BY <2>2
  <2>4. ASSUME NEW y \in s
        PROVE  x >= y
    <3>1. m - y \in T
      OBVIOUS
    <3>2. m - x <= m - y /\ x \in 1..m /\ y \in 1..m
      BY <2>2, <2>3, <3>1
    <3> QED
      BY <3>2
  <2> QED
    BY <2>4 DEF Max
<1>2. ASSUME NEW k \in 1..m
      PROVE  Max(1..k) = k
  <2>1. k \in 1..k /\ \A y \in 1..k : k >= y
    OBVIOUS
  <2>2. \A x \in 1..k : (\A y \in 1..k : x >= y) => x = k
    BY <2>1
  <2> QED
    BY <2>1, <2>2 DEF Max
<1> QED
  BY <1>1, <1>2

LEMMA AddBlockType ==
  ASSUME NEW spans \in Seq(SpanType), NEW from \in Nat, NEW to \in Nat, from < to,
         NEW zero \in BOOLEAN
  PROVE  AddBlock(spans, from, to, zero) \in Seq(SpanType)
<1>1. CASE spans # <<>> /\ Last(spans).zero = zero
  <2> DEFINE n == Len(spans)
             longer == [spans[n] EXCEPT !.len = @ + to - from]
  <2>1. n \in 1..n
    BY <1>1, EmptySeq
  <2>2. longer \in SpanType
    <3>1. spans[n] \in SpanType
      BY <2>1, ElementOfSeq
    <3>2. spans[n].len + to - from \in Nat \ {0}
      <4> HIDE DEF n
      <4>1. spans[n].len \in Nat \ {0}
        BY <3>1 DEF SpanType
      <4> QED
        BY <4>1
    <3> QED
      BY <3>1, <3>2 DEF SpanType
  <2>3. AddBlock(spans, from, to, zero) = [spans EXCEPT ![n] = longer]
    <3>1. AddBlock(spans, from, to, zero) = [spans EXCEPT ![Len(spans)].len = @ + to - from]
      BY <1>1, Zenon DEF AddBlock
    <3> QED
      BY <3>1
  <2> HIDE DEF longer
  <2> QED
    BY <2>1, <2>2, <2>3, ExceptSeq
<1>2. CASE ~(spans # <<>> /\ Last(spans).zero = zero)
  <2> DEFINE span == [offset |-> from, len |-> to - from, zero |-> zero]
  <2>1. span \in SpanType
    BY DEF SpanType
  <2>2. AddBlock(spans, from, to, zero) = Append(spans, span)
    BY <1>2, Zenon DEF AddBlock
  <2> HIDE DEF span
  <2> QED
    BY <2>1, <2>2, AppendProperties
<1> QED
  BY <1>1, <1>2

(* The walk over the first k blocks, however far it goes.                  *)
WalkedTo(spans, cells, bs, k) ==
  /\ Cuts(spans, Lesser(k * bs, Len(cells)))
  /\ \A i \in 1..Len(spans) : Says(spans[i], cells, bs)
  /\ Alternate(spans, bs)

LEMMA WalkingOn ==
  ASSUME NEW S, NEW cells \in Seq(S), NEW bs \in Nat \ {0}, NEW k \in Nat, k * bs < Len(cells),
         NEW spans, WalkedTo(spans, cells, bs, k),
         NEW to, to = Lesser((k + 1) * bs, Len(cells)),
         NEW out, out = AddBlock(spans, k * bs, to, IsZero(cells, k * bs, to))
  PROVE  WalkedTo(out, cells, bs, k + 1)
<1> DEFINE n == Len(cells)
           from == k * bs
           zero == IsZero(cells, from, to)
<1>1. n \in Nat
  BY LenProperties
<1>2. from \in Nat /\ (k + 1) * bs = from + bs /\ Lesser(from, n) = from
  BY <1>1 DEF Lesser
<1>3. to \in Nat /\ from < to /\ to <= n /\ to <= (k + 1) * bs
  BY <1>1, <1>2 DEF Lesser
<1>4. zero \in BOOLEAN /\ zero = BlockZero(cells, bs, k)
  BY DEF IsZero, BlockZero
<1>5. Cuts(spans, from)
  BY <1>2 DEF WalkedTo
<1> HIDE DEF n, zero, from
<1>6. /\ Cuts(out, to) /\ Len(out) \in Nat \ {0}
      /\ out[Len(out)].zero = zero
      /\ \A i \in 1..Len(out) : i # Len(out) => i \in 1..Len(spans) /\ out[i] = spans[i]
      /\ \/ /\ Len(out) = Len(spans)
            /\ out[Len(out)].offset = spans[Len(out)].offset
            /\ out[Len(out)].zero = spans[Len(out)].zero
         \/ /\ Len(out) = Len(spans) + 1
            /\ out[Len(out)].offset = from
            /\ Len(spans) # 0 => spans[Len(spans)].zero # zero
  <2>1. out = AddBlock(spans, from, to, zero)
    BY DEF from, zero
  <2> QED
    BY <1>2, <1>3, <1>4, <1>5, <2>1, AddingBlock
<1>7. Len(spans) \in Nat /\ Len(out) \in 1..Len(out)
  BY <1>5, <1>2, <1>6, CutsFacts
<1>8. ASSUME NEW i \in 1..Len(out), i = Len(out)
      PROVE  Says(out[i], cells, bs)
  <2> SUFFICES ASSUME NEW b \in Nat, NEW c \in Nat, out[i].offset <= c, c < SpanEnd(out[i]),
                      b * bs <= c, c < (b + 1) * bs
               PROVE  out[i].zero = BlockZero(cells, bs, b)
    BY DEF Says
  <2>1. SpanEnd(out[i]) = to
    BY <1>6, <1>8 DEF Cuts
  <2>2. CASE from <= c
    <3>1. b = k
      BY <1>2, <1>3, <2>1, <2>2, OneBlock DEF from
    <3> QED
      BY <1>4, <1>6, <1>8, <3>1
  <2>3. CASE c < from
    <3>1. /\ Len(out) = Len(spans) /\ out[i].offset = spans[i].offset
          /\ out[i].zero = spans[i].zero
      BY <1>2, <1>6, <1>8, <2>3
    <3>2. SpanEnd(spans[i]) = from
      BY <1>5, <1>6, <1>8, <3>1 DEF Cuts
    <3>3. Says(spans[i], cells, bs)
      BY <3>1 DEF WalkedTo
    <3> QED
      BY <2>3, <3>1, <3>2, <3>3 DEF Says
  <2> QED
    BY <1>2, <2>2, <2>3
<1>9. ASSUME NEW i \in 1..Len(out), i # Len(out)
      PROVE  Says(out[i], cells, bs)
  BY <1>6, <1>9 DEF WalkedTo
<1>10. ASSUME NEW i \in 1..Len(out)
       PROVE  /\ \E b \in Nat : out[i].offset = b * bs
              /\ i # 1 => out[i].zero # out[i - 1].zero
  <2>1. i # 1 => i - 1 \in 1..Len(out) /\ i - 1 # Len(out)
    BY <1>6
  <2>2. i # 1 => out[i - 1] = spans[i - 1] /\ i - 1 \in 1..Len(spans)
    BY <1>6, <2>1
  <2>3. CASE i # Len(out)
    <3>1. i \in 1..Len(spans) /\ out[i] = spans[i]
      BY <1>6, <2>3
    <3>2. /\ \E b \in Nat : spans[i].offset = b * bs
          /\ i # 1 => spans[i].zero # spans[i - 1].zero
      BY <3>1, Zenon DEF WalkedTo, Alternate
    <3> QED
      BY <2>2, <3>1, <3>2, Zenon
  <2>4. CASE i = Len(out) /\ Len(out) = Len(spans)
    <3>1. i \in 1..Len(spans) /\ out[i].offset = spans[i].offset /\ out[i].zero = spans[i].zero
      BY <1>6, <1>7, <2>4
    <3>2. /\ \E b \in Nat : spans[i].offset = b * bs
          /\ i # 1 => spans[i].zero # spans[i - 1].zero
      BY <3>1, Zenon DEF WalkedTo, Alternate
    <3> QED
      BY <2>2, <3>1, <3>2, Zenon
  <2>5. CASE i = Len(out) /\ Len(out) = Len(spans) + 1
    <3>1. out[i].offset = k * bs
      BY <1>6, <1>7, <2>5 DEF from
    <3>2. i # 1 => Len(spans) # 0 /\ i - 1 = Len(spans)
      <4>1. i = Len(spans) + 1 /\ Len(spans) \in Nat
        BY <1>7, <2>5
      <4> HIDE <2>5
      <4> QED
        BY <4>1
    <3> QED
      BY <1>6, <1>7, <2>2, <2>5, <3>1, <3>2
  <2> QED
    BY <1>6, <2>3, <2>4, <2>5
<1> QED
  BY <1>6, <1>8, <1>9, <1>10 DEF WalkedTo, Alternate, n

(* What classify_blocks of a buffer, or classify of a batch, is to return. *)
Runs(spans, cells, bs) ==
  /\ Cuts(spans, Len(cells))
  /\ \A i \in 1..Len(spans) : Says(spans[i], cells, bs)
  /\ Alternate(spans, bs)

LEMMA WalkReturnsRuns ==
  ASSUME NEW S, NEW cells \in Seq(S), NEW bs \in Nat \ {0}
  PROVE  LET n == Len(cells)
             add(spans, b) == LET to == Lesser(b * bs, n)
                                  from == (b - 1) * bs
                              IN  AddBlock(spans, from, to, IsZero(cells, from, to))
         IN  Runs(FoldLeft(add, <<>>, [b \in 1..CeilDiv(n, bs) |-> b]), cells, bs)
<1> DEFINE n == Len(cells)
           m == CeilDiv(n, bs)
           walked(b) == (b - 1) * bs
           to(b) == Lesser(b * bs, n)
           add(spans, b) == AddBlock(spans, walked(b), to(b), IsZero(cells, walked(b), to(b)))
           seq == [b \in 1..m |-> b]
           Value(it, s) == IF s = {} THEN <<>> ELSE add(it[s \ {Max(s)}], seq[Max(s)])
           fold == CHOOSE it : it = [s \in SUBSET DOMAIN seq |-> Value(it, s)]
<1>1. n \in Nat /\ m \in Nat /\ n <= m * bs /\ (\A k \in Nat : k < m => k * bs < n)
  BY LenProperties, CeilFacts
<1>2. ASSUME NEW b \in 1..m
      PROVE  /\ b - 1 \in Nat /\ walked(b) \in Nat /\ walked(b) < n
             /\ to(b) \in Nat /\ walked(b) < to(b)
  <2>1. b - 1 \in Nat /\ b - 1 < m
    BY <1>1
  <2>2. walked(b) \in Nat /\ walked(b) < n
    BY <1>1, <2>1
  <2>3. b * bs = walked(b) + bs
    BY <1>1
  <2> QED
    BY <1>1, <2>1, <2>2, <2>3 DEF Lesser
<1>3. \E it : it = [s \in SUBSET DOMAIN seq |-> Value(it, s)]
  <2> DEFINE pick == [s \in SUBSET (1..m) |-> Max(s)]
             V == Seq(SpanType)
             step == [b \in 1..m |-> [v \in V |-> add(v, b)]]
  <2>1. IsFiniteSet(1..m)
    BY <1>1, FS_Interval
  <2>2. <<>> \in V
    BY EmptySeq
  <2>3. \A s \in SUBSET (1..m) : s # {} => pick[s] \in s /\ pick[s] = Max(s)
    BY <1>1, MaxFacts
  <2>4. ASSUME NEW b \in 1..m, NEW v \in V
        PROVE  step[b][v] = add(v, b) /\ step[b][v] \in V
    <3>1. IsZero(cells, walked(b), to(b)) \in BOOLEAN
      BY DEF IsZero
    <3>2. add(v, b) \in V
      BY <1>2, <3>1, AddBlockType
    <3> QED
      BY <3>2
  <2>5. PICK it : IsFold(it, 1..m, V, <<>>, pick, step)
    <3>1. Picks(pick, 1..m)
      BY <2>3 DEF Picks
    <3>2. StepsIn(step, 1..m, V)
      BY <2>4 DEF StepsIn
    <3> HIDE DEF V, step, pick, m
    <3> QED
      BY <2>1, <2>2, <3>1, <3>2, FoldExists
  <2>6. ASSUME NEW s \in SUBSET (1..m)
        PROVE  it[s] = Value(it, s)
    <3>1. CASE s # {}
      <4>1. pick[s] = Max(s) /\ Max(s) \in 1..m /\ seq[Max(s)] = Max(s)
        BY <2>3, <3>1
      <4>2. it[s \ {Max(s)}] \in V
        BY <2>5 DEF IsFold
      <4> HIDE DEF V, pick, add
      <4>3. it[s] = step[Max(s)][it[s \ {Max(s)}]]
        BY <2>5, <3>1, <4>1 DEF IsFold
      <4> QED
        BY <2>4, <3>1, <4>1, <4>2, <4>3
    <3> QED
      BY <2>5, <3>1 DEF IsFold
  <2>7. it = [s \in SUBSET (1..m) |-> Value(it, s)]
    <3> HIDE DEF Value
    <3> QED
      BY <2>5, <2>6 DEF IsFold
  <2> QED
    BY <2>7
<1>4. fold = [s \in SUBSET (1..m) |-> Value(fold, s)]
  <2> HIDE DEF Value
  <2> QED
    BY <1>3
<1> HIDE DEF fold
<1>5. fold[1..0] = <<>>
  BY <1>4
<1>6. ASSUME NEW k \in Nat, k < m
      PROVE  fold[1..(k + 1)] = add(fold[1..k], k + 1)
  <2>1. k + 1 \in 1..m /\ 1..(k + 1) \in SUBSET (1..m) /\ 1..(k + 1) # {}
    <3> HIDE DEF m
    <3>1. k + 1 \in 1..m /\ k + 1 \in 1..(k + 1)
      BY <1>1, <1>6
    <3>2. \A x \in 1..(k + 1) : x \in 1..m
      BY <1>1, <3>1
    <3> QED
      BY <3>1, <3>2
  <2>2. Max(1..(k + 1)) = k + 1 /\ seq[k + 1] = k + 1
    BY <1>1, <2>1, MaxFacts
  <2>3. (1..(k + 1)) \ {k + 1} = 1..k
    OBVIOUS
  <2>4. fold[1..(k + 1)] = Value(fold, 1..(k + 1))
    <3> HIDE DEF Value
    <3> QED
      BY <1>4, <2>1
  <2> HIDE DEF add
  <2> QED
    BY <2>1, <2>2, <2>3, <2>4
<1> DEFINE Reached == {k \in Nat : k <= m => WalkedTo(fold[1..k], cells, bs, k)}
<1>7. 0 \in Reached
  <2>1. <<>> \in Seq(SpanType) /\ Len(<<>>) = 0
    BY EmptySeq
  <2>2. Lesser(0 * bs, n) = 0
    BY <1>1 DEF Lesser
  <2>3. Cuts(<<>>, 0)
    BY <2>1 DEF Cuts
  <2>4. WalkedTo(<<>>, cells, bs, 0)
    <3> HIDE DEF n
    <3> QED
      BY <2>1, <2>2, <2>3 DEF WalkedTo, Alternate, n
  <2> QED
    BY <1>5, <2>4
<1>8. ASSUME NEW k \in Nat, k \in Reached
      PROVE  k + 1 \in Reached
  <2> SUFFICES ASSUME k + 1 <= m PROVE WalkedTo(fold[1..(k + 1)], cells, bs, k + 1)
    OBVIOUS
  <2>1. k < m /\ WalkedTo(fold[1..k], cells, bs, k) /\ k * bs < n
    BY <1>1, <1>8
  <2>2. fold[1..(k + 1)] = AddBlock(fold[1..k], k * bs, to(k + 1), IsZero(cells, k * bs, to(k + 1)))
    <3>1. walked(k + 1) = k * bs
      <4>1. (k + 1) - 1 = k
        OBVIOUS
      <4> QED
        BY <4>1
    <3> HIDE DEF walked, to
    <3> QED
      BY <1>6, <2>1, <3>1
  <2> QED
    BY <2>1, <2>2, WalkingOn
<1>9. WalkedTo(fold[1..m], cells, bs, m)
  <2> HIDE DEF Reached
  <2>1. m \in Reached
    BY <1>1, <1>7, <1>8, Induction
  <2> QED
    BY <1>1, <2>1 DEF Reached
<1>10. Lesser(m * bs, n) = n
  <2>1. m * bs \in Nat
    BY <1>1
  <2> QED
    BY <1>1, <2>1 DEF Lesser
<1>11. DOMAIN seq = 1..m
  OBVIOUS
<1>12. FoldLeft(add, <<>>, seq) = fold[DOMAIN seq]
  BY DEF FoldLeft, MapThenFoldSet, fold
<1>13. Runs(FoldLeft(add, <<>>, seq), cells, bs)
  BY <1>9, <1>10, <1>11, <1>12 DEF WalkedTo, Runs
<1> QED
  BY <1>13

LEMMA OneSpan ==
  ASSUME NEW n \in Nat \ {0}, NEW zero \in BOOLEAN
  PROVE  /\ Cuts(<<[offset |-> 0, len |-> n, zero |-> zero]>>, n)
         /\ Len(<<[offset |-> 0, len |-> n, zero |-> zero]>>) = 1
<1> DEFINE span == [offset |-> 0, len |-> n, zero |-> zero]
<1>1. span \in SpanType /\ span.offset = 0 /\ SpanEnd(span) = n
  BY DEF SpanType, SpanEnd
<1> HIDE DEF span
<1>2. <<span>> \in Seq(SpanType) /\ Len(<<span>>) = 1 /\ <<span>>[1] = span
  BY <1>1
<1>3. Cuts(<<span>>, n)
  BY <1>1, <1>2 DEF Cuts
<1> QED
  BY <1>2, <1>3 DEF span

(* classify_blocks cuts a buffer of any length, into blocks of any size,   *)
(* into spans that follow each other from its first cell to its last,      *)
(* begin at blocks and alternate, and a span is zero exactly if each block *)
(* in it is; the buffer that is zero as a whole, for which it takes the    *)
(* short way, is no exception. (zero.rs:51-84)                             *)
THEOREM ClassifyReturnsRuns ==
  ASSUME NEW S, NEW cells \in Seq(S), NEW bs \in Nat \ {0}
  PROVE  Runs(ClassifyBlocks(cells, bs), cells, bs)
<1> DEFINE n == Len(cells)
           spans == ClassifyBlocks(cells, bs)
<1>1. n \in Nat /\ (cells # <<>> => n # 0)
  BY LenProperties, EmptySeq
<1>2. CASE cells = <<>>
  <2>1. spans = <<>> /\ n = 0 /\ <<>> \in Seq(SpanType) /\ Len(<<>>) = 0
    BY <1>2, EmptySeq, Zenon DEF ClassifyBlocks
  <2> QED
    BY <2>1 DEF Runs, Cuts, Alternate
<1>3. CASE cells # <<>> /\ IsZero(cells, 0, n)
  <2> DEFINE span == [offset |-> 0, len |-> n, zero |-> TRUE]
  <2>1. spans = <<span>>
    BY <1>3, Zenon DEF ClassifyBlocks
  <2>2. Cuts(spans, n) /\ Len(spans) = 1
    BY <1>1, <1>3, <2>1, OneSpan
  <2>3. spans[1] = span /\ span.offset = 0 /\ span.zero = TRUE
    BY <2>1
  <2>4. \A b \in Nat : BlockZero(cells, bs, b)
    <3> SUFFICES ASSUME NEW b \in Nat PROVE BlockZero(cells, bs, b)
      OBVIOUS
    <3>1. b * bs \in Nat /\ (b + 1) * bs \in Nat
      OBVIOUS
    <3>2. Lesser((b + 1) * bs, n) \in Nat /\ Lesser((b + 1) * bs, n) <= n
      BY <1>1, <3>1 DEF Lesser
    <3> QED
      BY <1>1, <1>3, <3>1, <3>2 DEF BlockZero, IsZero
  <2>5. Says(spans[1], cells, bs)
    <3> HIDE DEF span
    <3> QED
      BY <2>3, <2>4, Zenon DEF Says
  <2>6. Alternate(spans, bs)
    <3>1. 0 = 0 * bs
      OBVIOUS
    <3> HIDE DEF span, spans
    <3> QED
      BY <2>2, <2>3, <3>1 DEF Alternate
  <2> HIDE DEF spans
  <2> QED
    BY <2>2, <2>5, <2>6 DEF Runs, spans
<1>4. CASE cells # <<>> /\ ~IsZero(cells, 0, n)
  BY <1>4, WalkReturnsRuns, Zenon DEF ClassifyBlocks
<1> QED
  BY <1>2, <1>3, <1>4

(* What copy and create make of a batch, with zero detection or without.   *)
LEMMA Classified ==
  ASSUME NEW S, NEW cells \in Seq(S), NEW bs \in Nat \ {0}, NEW zeros \in BOOLEAN,
         NEW spans, spans = Classify(cells, bs, zeros)
  PROVE  /\ Cuts(spans, Len(cells))
         /\ zeros => Runs(spans, cells, bs)
         /\ ~zeros => \A i \in 1..Len(spans) : ~spans[i].zero
<1>1. CASE zeros
  BY <1>1, ClassifyReturnsRuns DEF Classify, Runs
<1>2. CASE ~zeros /\ cells = <<>>
  <2>1. spans = <<>> /\ Len(cells) = 0 /\ <<>> \in Seq(SpanType) /\ Len(<<>>) = 0
    BY <1>2, EmptySeq, Zenon DEF Classify
  <2>2. Cuts(<<>>, 0)
    BY <2>1 DEF Cuts
  <2> QED
    BY <1>2, <2>1, <2>2
<1>3. CASE ~zeros /\ cells # <<>>
  <2> DEFINE span == [offset |-> 0, len |-> Len(cells), zero |-> FALSE]
  <2>1. spans = <<span>> /\ Len(cells) \in Nat \ {0}
    BY <1>3, EmptySeq, Zenon DEF Classify
  <2>2. Cuts(spans, Len(cells)) /\ Len(spans) = 1
    BY <2>1, OneSpan, Zenon
  <2>3. spans[1] = span /\ ~span.zero
    BY <2>1
  <2> HIDE DEF span
  <2>4. \A i \in 1..Len(spans) : i = 1
    BY <2>2
  <2> QED
    BY <1>3, <2>2, <2>3, <2>4
<1> QED
  BY <1>1, <1>2, <1>3

(* A zero span of a batch holds zeroes.                                    *)
LEMMA ZeroSpanIsZero ==
  ASSUME NEW S, NEW cells \in Seq(S), NEW bs \in Nat \ {0}, NEW spans, Runs(spans, cells, bs),
         NEW i \in 1..Len(spans), spans[i].zero,
         NEW c \in Nat, spans[i].offset <= c, c < SpanEnd(spans[i])
  PROVE  cells[c + 1] = Zero
<1>1. Len(cells) \in Nat
  BY LenProperties
<1>2. c < Len(cells)
  <2>1. SpanEnd(spans[i]) <= Len(cells) /\ SpanEnd(spans[i]) \in Nat
    BY <1>1, CutsFacts DEF Runs, Cuts
  <2> QED
    BY <1>1, <2>1
<1> DEFINE b == c \div bs
<1>3. b \in Nat /\ b * bs <= c /\ c < (b + 1) * bs
  BY DivMod
<1> HIDE DEF b
<1>4. IsZero(cells, b * bs, Lesser((b + 1) * bs, Len(cells)))
  BY <1>3 DEF Runs, Says, BlockZero
<1>5. b * bs \in Nat /\ (b + 1) * bs \in Nat
  BY <1>3
<1>6. c + 1 \in (b * bs + 1)..Lesser((b + 1) * bs, Len(cells))
  BY <1>1, <1>2, <1>3, <1>5 DEF Lesser
<1> QED
  BY <1>4, <1>6 DEF IsZero

SameBlock(bs, c, d) == c \div bs = d \div bs

(* A zero span takes in the whole of every block it touches.               *)
LEMMA ZeroBlockIsZero ==
  ASSUME NEW S, NEW cells \in Seq(S), NEW bs \in Nat \ {0}, NEW spans, Runs(spans, cells, bs),
         NEW i \in 1..Len(spans), spans[i].zero,
         NEW c \in Nat, spans[i].offset <= c, c < SpanEnd(spans[i]),
         NEW d \in Nat, d < Len(cells), SameBlock(bs, d, c)
  PROVE  cells[d + 1] = Zero
<1>1. Len(cells) \in Nat
  BY LenProperties
<1> DEFINE b == c \div bs
<1>2. b \in Nat /\ b * bs <= c /\ c < (b + 1) * bs
  BY DivMod
<1>3. b * bs <= d /\ d < (b + 1) * bs
  BY DivMod DEF SameBlock
<1>4. b * bs \in Nat /\ (b + 1) * bs \in Nat
  BY <1>2, Multiples
<1> HIDE DEF b
<1>5. BlockZero(cells, bs, b)
  BY <1>2 DEF Runs, Says
<1>6. d + 1 \in (b * bs + 1)..Lesser((b + 1) * bs, Len(cells))
  BY <1>1, <1>3, <1>4 DEF Lesser
<1> QED
  BY <1>5, <1>6 DEF BlockZero, IsZero

(* Cells of one block lie in one block of a batch that begins at a block.  *)
LEMMA BlocksShift ==
  ASSUME NEW bs \in Nat \ {0}, NEW o \in Nat, NEW b \in Nat, o = b * bs,
         NEW c \in Nat, NEW d \in Nat, SameBlock(bs, o + c, o + d)
  PROVE  SameBlock(bs, c, d)
<1> DEFINE q == (o + c) \div bs
           x == c \div bs
           y == d \div bs
<1>1. o \in Nat /\ o + c \in Nat /\ o + d \in Nat
  OBVIOUS
<1>2. /\ q \in Nat /\ q * bs <= o + c /\ o + c < (q + 1) * bs
      /\ q * bs <= o + d /\ o + d < (q + 1) * bs
  BY <1>1, DivMod DEF SameBlock
<1>3. /\ x \in Nat /\ x * bs <= c /\ c < (x + 1) * bs
      /\ y \in Nat /\ y * bs <= d /\ d < (y + 1) * bs
  BY DivMod
<1> HIDE DEF q, x, y
<1>4. (b + x) * bs = o + x * bs /\ (b + x + 1) * bs = o + (x + 1) * bs
      /\ (b + y) * bs = o + y * bs /\ (b + y + 1) * bs = o + (y + 1) * bs
  BY <1>3
<1>5. x * bs \in Nat /\ (x + 1) * bs \in Nat /\ y * bs \in Nat /\ (y + 1) * bs \in Nat
  BY <1>3, Multiples
<1>6. (b + x) * bs <= o + c /\ o + c < (b + x + 1) * bs
      /\ (b + y) * bs <= o + d /\ o + d < (b + y + 1) * bs
  BY <1>1, <1>3, <1>4, <1>5
<1>7. b + x = q /\ b + y = q
  BY <1>1, <1>2, <1>3, <1>6, OneBlock
<1>8. x = y
  BY <1>2, <1>3, <1>7
<1> QED
  BY <1>8 DEF SameBlock, x, y

(* Spans that follow each other cover every cell.                          *)
LEMMA EveryCellInSpan ==
  ASSUME NEW spans, NEW n \in Nat, Cuts(spans, n), NEW c \in Nat, c < n
  PROVE  \E i \in 1..Len(spans) : spans[i].offset <= c /\ c < SpanEnd(spans[i])
<1> DEFINE m == Len(spans)
           T == {i \in 1..m : c < SpanEnd(spans[i])}
<1>1. m \in Nat /\ \A i \in 1..m : spans[i].offset \in Nat /\ SpanEnd(spans[i]) \in Nat
  BY CutsFacts
<1>2. m # 0 /\ SpanEnd(spans[m]) = n
  BY DEF Cuts
<1>3. T \in SUBSET Nat /\ m \in T
  BY <1>1, <1>2
<1>4. PICK i \in T : \A k \in T : i <= k
  BY <1>3, LeastNumber
<1>5. i # 1 => i - 1 \in 1..m /\ i - 1 \notin T
  BY <1>1, <1>4
<1>6. spans[i].offset <= c
  <2>1. spans[i].offset = IF i = 1 THEN 0 ELSE SpanEnd(spans[i - 1])
    BY <1>4 DEF Cuts
  <2>2. i # 1 => SpanEnd(spans[i - 1]) <= c
    BY <1>1, <1>5
  <2> QED
    BY <2>1, <2>2
<1> QED
  BY <1>4, <1>6

(* A fold over a list, with the last entry taken in at the end.            *)
FoldsUp(it, m, V, base, step) ==
  /\ it \in [SUBSET (1..m) -> V]
  /\ \A s \in SUBSET (1..m) :
       /\ s = {} => it[s] = base
       /\ s # {} => /\ Max(s) \in 1..m /\ it[s \ {Max(s)}] \in V
                    /\ it[s] = step[Max(s)][it[s \ {Max(s)}]]

LEMMA FoldOver ==
  ASSUME NEW m \in Nat, NEW V, NEW base \in V, NEW step, StepsIn(step, 1..m, V)
  PROVE  \E it : FoldsUp(it, m, V, base, step)
<1> DEFINE pick == [s \in SUBSET (1..m) |-> Max(s)]
<1>1. \A s \in SUBSET (1..m) : s # {} => Max(s) \in s
  BY MaxFacts
<1>2. Picks(pick, 1..m)
  BY <1>1 DEF Picks
<1>3. \A s \in SUBSET (1..m) : pick[s] = Max(s)
  OBVIOUS
<1>4. IsFiniteSet(1..m)
  BY FS_Interval
<1> HIDE DEF pick
<1>5. PICK it : IsFold(it, 1..m, V, base, pick, step)
  BY <1>2, <1>4, FoldExists
<1>6. it \in [SUBSET (1..m) -> V]
  BY <1>5 DEF IsFold
<1>7. ASSUME NEW s \in SUBSET (1..m)
      PROVE  /\ s = {} => it[s] = base
             /\ s # {} => /\ Max(s) \in 1..m /\ it[s \ {Max(s)}] \in V
                          /\ it[s] = step[Max(s)][it[s \ {Max(s)}]]
  <2>1. it[s] = IF s = {} THEN base ELSE step[pick[s]][it[s \ {pick[s]}]]
    BY <1>5 DEF IsFold
  <2>2. s # {} => Max(s) \in 1..m
    BY <1>1
  <2>3. it[s \ {Max(s)}] \in V
    BY <1>6
  <2> QED
    BY <1>3, <2>1, <2>2, <2>3
<1> QED
  BY <1>6, <1>7 DEF FoldsUp

(* What a prefix is, seen from the next.                                   *)
LEMMA PrefixFacts ==
  ASSUME NEW m \in Nat, NEW k \in Nat, k < m
  PROVE  /\ k + 1 \in 1..m /\ 1..(k + 1) \in SUBSET (1..m) /\ 1..(k + 1) # {}
         /\ Max(1..(k + 1)) = k + 1 /\ (1..(k + 1)) \ {k + 1} = 1..k
<1>1. k + 1 \in 1..m /\ k + 1 \in 1..(k + 1)
  OBVIOUS
<1>2. \A x \in 1..(k + 1) : x \in 1..m
  OBVIOUS
<1>3. (1..(k + 1)) \ {k + 1} = 1..k
  OBVIOUS
<1>4. Max(1..(k + 1)) = k + 1
  BY <1>1, MaxFacts
<1> QED
  BY <1>1, <1>2, <1>3, <1>4

-----------------------------------------------------------------------------
(* Byte ranges.                                                            *)

ByteRange == [start : Nat, end : Nat]

LEMMA MergeBytesType ==
  ASSUME NEW out \in Seq(ByteRange), NEW r \in ByteRange
  PROVE  MergeBytes(out, r) \in Seq(ByteRange)
<1>1. CASE out # <<>> /\ r.start <= Last(out).end
  <2> DEFINE n == Len(out)
             longer == [out[n] EXCEPT !.end = Greater(@, r.end)]
  <2>1. n \in 1..n
    BY <1>1, EmptySeq
  <2>2. longer \in ByteRange
    <3>1. out[n] \in ByteRange
      BY <2>1, ElementOfSeq
    <3> QED
      BY <3>1 DEF ByteRange, Greater
  <2>3. MergeBytes(out, r) = [out EXCEPT ![n] = longer]
    <3>1. MergeBytes(out, r) = [out EXCEPT ![Len(out)].end = Greater(@, r.end)]
      BY <1>1, Zenon DEF MergeBytes
    <3> QED
      BY <3>1
  <2> HIDE DEF longer
  <2> QED
    BY <2>1, <2>2, <2>3, ExceptSeq
<1>2. CASE ~(out # <<>> /\ r.start <= Last(out).end)
  <2>1. MergeBytes(out, r) = Append(out, r)
    BY <1>2, Zenon DEF MergeBytes
  <2> QED
    BY <2>1, AppendProperties
<1> QED
  BY <1>1, <1>2

(* coalesce_byte_ranges takes one range after the other.                   *)
LEMMA CoalesceSteps ==
  ASSUME NEW rs \in Seq(ByteRange)
  PROVE  \E f : /\ f[0] = <<>> /\ f[Len(rs)] = CoalesceByteRanges(rs)
                /\ \A k \in Nat : k < Len(rs) => f[k + 1] = MergeBytes(f[k], rs[k + 1])
<1> DEFINE V == Seq(ByteRange)
           m == Len(rs)
           step == [i \in 1..m |-> [v \in V |-> MergeBytes(v, rs[i])]]
           Value(it, s) == IF s = {} THEN <<>> ELSE MergeBytes(it[s \ {Max(s)}], rs[Max(s)])
           fold == CHOOSE it : it = [s \in SUBSET DOMAIN rs |-> Value(it, s)]
<1>1. m \in Nat /\ DOMAIN rs = 1..m
  BY LenProperties
<1>2. \A i \in 1..m, v \in V : MergeBytes(v, rs[i]) \in V
  BY MergeBytesType, ElementOfSeq
<1>3. StepsIn(step, 1..m, V) /\ <<>> \in V
  BY <1>2, EmptySeq DEF StepsIn
<1>4. \A i \in 1..m, v \in V : step[i][v] = MergeBytes(v, rs[i])
  OBVIOUS
<1>5. \E it : it = [s \in SUBSET DOMAIN rs |-> Value(it, s)]
  <2> HIDE DEF V, step, m
  <2>1. PICK it : FoldsUp(it, m, V, <<>>, step)
    BY <1>1, <1>3, FoldOver
  <2>2. \A s \in SUBSET (1..m) : it[s] = Value(it, s)
    BY <1>4, <2>1 DEF FoldsUp
  <2>3. it = [s \in SUBSET DOMAIN rs |-> Value(it, s)]
    <3> HIDE DEF Value
    <3> QED
      BY <1>1, <2>1, <2>2 DEF FoldsUp
  <2> QED
    BY <2>3
<1>6. fold = [s \in SUBSET (1..m) |-> Value(fold, s)]
  <2> HIDE DEF Value, m
  <2> QED
    BY <1>1, <1>5
<1>7. CoalesceByteRanges(rs) = fold[1..m]
  BY <1>1 DEF CoalesceByteRanges, FoldLeft, MapThenFoldSet
<1> HIDE DEF fold, m
<1>8. fold[1..0] = <<>>
  BY <1>6
<1>9. ASSUME NEW k \in Nat, k < m
      PROVE  fold[1..(k + 1)] = MergeBytes(fold[1..k], rs[k + 1])
  <2>1. fold[1..(k + 1)] = Value(fold, 1..(k + 1))
    <3> HIDE DEF Value
    <3> QED
      BY <1>1, <1>6, <1>9, PrefixFacts
  <2> QED
    BY <1>1, <1>9, <2>1, PrefixFacts
<1> DEFINE f == [k \in 0..m |-> fold[1..k]]
<1>10. f[0] = <<>> /\ f[m] = CoalesceByteRanges(rs)
  BY <1>1, <1>7, <1>8
<1>11. ASSUME NEW k \in Nat, k < m
       PROVE  f[k + 1] = MergeBytes(f[k], rs[k + 1])
  <2>1. k \in 0..m /\ k + 1 \in 0..m
    BY <1>1, <1>11
  <2> QED
    BY <1>9, <1>11, <2>1
<1> QED
  BY <1>10, <1>11 DEF m

(* As coalesce_byte_ranges and byte_ranges_to_blocks are given them.       *)
SortedBytes(rs) ==
  \A i \in 1..Len(rs) : /\ rs[i].start <= rs[i].end
                        /\ \A k \in 1..Len(rs) : i <= k => rs[i].start <= rs[k].start

ByteGaps(rs) == \A i, k \in 1..Len(rs) : i < k => rs[i].end < rs[k].start

Spanned(r, c) == r.start <= c /\ c < r.end

InBytes(rs, c) == \E i \in 1..Len(rs) : Spanned(rs[i], c)

(* The result when k ranges were taken in.                                 *)
CoalescedTo(out, rs, k) ==
  /\ out \in Seq(ByteRange) /\ SortedBytes(out) /\ ByteGaps(out)
  /\ (out = <<>>) <=> (k = 0)
  /\ k # 0 => out[Len(out)].start <= rs[k].start
  /\ \A c \in Nat : InBytes(out, c) <=> \E i \in 1..k : Spanned(rs[i], c)

LEMMA CoalesceOn ==
  ASSUME NEW rs \in Seq(ByteRange), SortedBytes(rs), NEW k \in Nat, k < Len(rs),
         NEW out, CoalescedTo(out, rs, k), NEW next, next = MergeBytes(out, rs[k + 1])
  PROVE  CoalescedTo(next, rs, k + 1)
<1> DEFINE r == rs[k + 1]
           n == Len(out)
<1>1. Len(rs) \in Nat /\ k + 1 \in 1..Len(rs) /\ (k # 0 => k \in 1..Len(rs))
  BY LenProperties
<1>2. r \in ByteRange /\ r.start \in Nat /\ r.end \in Nat /\ r.start <= r.end
      /\ (k # 0 => rs[k].start <= r.start)
  <2>1. r \in ByteRange
    BY <1>1, ElementOfSeq
  <2>2. k # 0 => k <= k + 1
    OBVIOUS
  <2> HIDE DEF r
  <2>3. r.start \in Nat /\ r.end \in Nat
    BY <2>1 DEF ByteRange
  <2> USE DEF r
  <2>4. r.start <= r.end /\ (k # 0 => rs[k].start <= r.start)
    BY <1>1, <2>2 DEF SortedBytes
  <2> QED
    BY <2>1, <2>3, <2>4
<1>3. out \in Seq(ByteRange) /\ n \in Nat /\ (out # <<>> => n \in 1..n)
  BY EmptySeq, LenProperties DEF CoalescedTo
<1>4. \A i \in 1..n : out[i] \in ByteRange /\ out[i].start \in Nat /\ out[i].end \in Nat
                      /\ out[i].start <= out[i].end
  <2>1. \A i \in 1..n : out[i] \in ByteRange
    BY <1>3, ElementOfSeq
  <2>2. \A i \in 1..n : out[i].start <= out[i].end
    BY DEF CoalescedTo, SortedBytes
  <2> QED
    BY <2>1, <2>2 DEF ByteRange
<1>5. ASSUME NEW c \in Nat
      PROVE  (\E i \in 1..(k + 1) : Spanned(rs[i], c)) <=> InBytes(out, c) \/ Spanned(r, c)
  <2>1. \A i : i \in 1..(k + 1) <=> (i \in 1..k \/ i = k + 1)
    OBVIOUS
  <2>2. InBytes(out, c) <=> \E i \in 1..k : Spanned(rs[i], c)
    BY DEF CoalescedTo
  <2> QED
    BY <2>1, <2>2
<1>6. CASE out # <<>> /\ r.start <= Last(out).end
  <2> DEFINE longer == [out[n] EXCEPT !.end = Greater(@, r.end)]
  <2>1. n \in 1..n /\ Last(out) = out[n]
    BY <1>3, <1>6 DEF Last
  <2>2. /\ longer \in ByteRange /\ longer.start = out[n].start
        /\ longer.end \in Nat /\ longer.start <= longer.end
        /\ longer.end = IF out[n].end < r.end THEN r.end ELSE out[n].end
    <3> DEFINE o == out[n]
               e == Greater(o.end, r.end)
    <3>1. o \in ByteRange /\ o.start \in Nat /\ o.end \in Nat /\ o.start <= o.end
          /\ r.end \in Nat
      BY <1>2, <1>4, <2>1
    <3>2. longer = [o EXCEPT !.end = e]
      OBVIOUS
    <3> HIDE DEF o, longer
    <3>3. e \in Nat /\ o.start <= e /\ e = IF o.end < r.end THEN r.end ELSE o.end
      BY <3>1 DEF Greater
    <3> HIDE DEF e
    <3>4. longer \in ByteRange /\ longer.start = o.start /\ longer.end = e
      BY <3>1, <3>2, <3>3 DEF ByteRange
    <3> QED
      BY <3>1, <3>3, <3>4 DEF o
  <2>3. next = [out EXCEPT ![n] = longer]
    <3>1. next = [out EXCEPT ![Len(out)].end = Greater(@, r.end)]
      BY <1>6, Zenon DEF MergeBytes
    <3> QED
      BY <3>1
  <2>4. k # 0 /\ out[n].start <= r.start
    <3>1. k # 0
      BY <1>6 DEF CoalescedTo
    <3>2. rs[k] \in ByteRange
      BY <1>1, <3>1, ElementOfSeq
    <3>3. rs[k].start \in Nat
      BY <3>2 DEF ByteRange
    <3> QED
      BY <1>2, <1>4, <2>1, <3>1, <3>3 DEF CoalescedTo
  <2> HIDE DEF longer
  <2>5. /\ next \in Seq(ByteRange) /\ Len(next) = n
        /\ \A i \in 1..n : next[i] = IF i = n THEN longer ELSE out[i]
    BY <1>3, <2>1, <2>2, <2>3, ExceptSeq
  <2>6. next # <<>>
    BY <2>1, <2>5, EmptySeq
  <2>7. \A i \in 1..n : next[i].start = out[i].start /\ (i # n => next[i].end = out[i].end)
    BY <2>2, <2>5
  <2>8. SortedBytes(next)
    BY <1>4, <2>2, <2>5, <2>7 DEF CoalescedTo, SortedBytes
  <2>9. ByteGaps(next)
    <3>1. \A i, j \in 1..n : i < j => i # n
      OBVIOUS
    <3> QED
      BY <2>5, <2>7, <3>1 DEF CoalescedTo, ByteGaps
  <2>10. ASSUME NEW c \in Nat
         PROVE  InBytes(next, c) <=> InBytes(out, c) \/ Spanned(r, c)
    <3>1. Spanned(longer, c) <=> Spanned(out[n], c) \/ Spanned(r, c)
      BY <1>2, <1>4, <1>6, <2>1, <2>2, <2>4 DEF Spanned
    <3>2. \A i \in 1..n : i # n => next[i] = out[i]
      BY <2>5
    <3>3. next[n] = longer
      BY <2>1, <2>5
    <3> QED
      BY <2>1, <2>5, <3>1, <3>2, <3>3 DEF InBytes
  <2>11. next[Len(next)].start <= r.start
    BY <2>1, <2>4, <2>5, <2>7
  <2> QED
    BY <1>5, <2>5, <2>6, <2>8, <2>9, <2>10, <2>11 DEF CoalescedTo
<1>7. CASE ~(out # <<>> /\ r.start <= Last(out).end)
  <2>1. next = Append(out, r)
    BY <1>7, Zenon DEF MergeBytes
  <2>2. /\ next \in Seq(ByteRange) /\ Len(next) = n + 1
        /\ \A i \in 1..n : next[i] = out[i]
        /\ next[n + 1] = r
    BY <1>2, <1>3, <2>1, AppendProperties
  <2>3. next # <<>>
    BY <1>3, <2>2, EmptySeq
  <2>4. \A i : i \in 1..(n + 1) <=> i \in 1..n \/ i = n + 1
    BY <1>3
  <2>5. \A i \in 1..n : out[i].end < r.start
    <3> SUFFICES ASSUME NEW i \in 1..n PROVE out[i].end < r.start
      OBVIOUS
    <3>1. out # <<>> /\ n \in 1..n /\ Last(out) = out[n]
      BY <1>3, EmptySeq DEF Last
    <3>2. out[n].end < r.start
      BY <1>2, <1>4, <1>7, <3>1
    <3>3. i = n \/ i < n
      OBVIOUS
    <3>4. i < n => out[i].end < out[n].start
      BY <3>1 DEF CoalescedTo, ByteGaps
    <3> QED
      BY SMTT(30), <1>2, <1>4, <3>1, <3>2, <3>3, <3>4
  <2>6. SortedBytes(next)
    <3> SUFFICES ASSUME NEW i \in 1..(n + 1)
                 PROVE  /\ next[i].start <= next[i].end
                        /\ \A j \in 1..(n + 1) : i <= j => next[i].start <= next[j].start
      BY <2>2 DEF SortedBytes
    <3>1. CASE i \in 1..n
      <4>1. \A j \in 1..n : i <= j => out[i].start <= out[j].start
        BY <3>1 DEF CoalescedTo, SortedBytes
      <4>2. out[i].start <= r.start
        BY <1>2, <1>4, <2>5, <3>1
      <4> QED
        BY <1>4, <2>2, <2>4, <3>1, <4>1, <4>2
    <3>2. CASE i = n + 1
      <4>1. \A j \in 1..(n + 1) : i <= j => j = n + 1
        BY <1>3, <3>2
      <4> QED
        BY <1>2, <2>2, <3>2, <4>1
    <3> QED
      BY <2>4, <3>1, <3>2
  <2>7. ByteGaps(next)
    <3> SUFFICES ASSUME NEW i \in 1..(n + 1), NEW j \in 1..(n + 1), i < j
                 PROVE  next[i].end < next[j].start
      BY <2>2 DEF ByteGaps
    <3>1. i \in 1..n
      BY <1>3
    <3>2. CASE j \in 1..n
      BY <2>2, <3>1, <3>2 DEF CoalescedTo, ByteGaps
    <3>3. CASE j = n + 1
      BY <2>2, <2>5, <3>1, <3>3
    <3> QED
      BY <2>4, <3>2, <3>3
  <2>8. ASSUME NEW c \in Nat
        PROVE  InBytes(next, c) <=> InBytes(out, c) \/ Spanned(r, c)
    BY <2>2, <2>4 DEF InBytes
  <2>9. next[Len(next)].start <= r.start
    BY <1>2, <2>2
  <2>10. \A c \in Nat : InBytes(next, c) <=> \E i \in 1..(k + 1) : Spanned(rs[i], c)
    BY <1>5, <2>8
  <2>11. k + 1 # 0 /\ next \in Seq(ByteRange)
    BY <2>2
  <2> HIDE DEF r
  <2> QED
    BY <2>3, <2>6, <2>7, <2>9, <2>10, <2>11 DEF CoalescedTo, r
<1> QED
  BY <1>6, <1>7

(* coalesce_byte_ranges, of ranges sorted by their starts, drops and adds  *)
(* no byte, and leaves a gap between any two ranges of its result.         *)
(* (range.rs:85-106)                                                       *)
THEOREM CoalesceKeepsBytes ==
  ASSUME NEW rs \in Seq(ByteRange), SortedBytes(rs), NEW out, out = CoalesceByteRanges(rs)
  PROVE  /\ out \in Seq(ByteRange) /\ SortedBytes(out) /\ ByteGaps(out)
         /\ \A c \in Nat : InBytes(out, c) <=> InBytes(rs, c)
<1>1. PICK f : /\ f[0] = <<>> /\ f[Len(rs)] = out
               /\ \A k \in Nat : k < Len(rs) => f[k + 1] = MergeBytes(f[k], rs[k + 1])
  BY CoalesceSteps
<1>2. Len(rs) \in Nat
  BY LenProperties
<1> DEFINE Reached == {k \in Nat : k <= Len(rs) => CoalescedTo(f[k], rs, k)}
<1>3. 0 \in Reached
  <2>1. <<>> \in Seq(ByteRange) /\ Len(<<>>) = 0
    BY EmptySeq
  <2>2. SortedBytes(<<>>) /\ ByteGaps(<<>>) /\ \A c \in Nat : ~InBytes(<<>>, c)
    BY <2>1 DEF SortedBytes, ByteGaps, InBytes
  <2>3. CoalescedTo(<<>>, rs, 0)
    BY <2>1, <2>2 DEF CoalescedTo
  <2> QED
    BY <1>1, <2>3
<1>4. ASSUME NEW k \in Nat, k \in Reached
      PROVE  k + 1 \in Reached
  BY <1>1, <1>2, <1>4, CoalesceOn
<1>5. CoalescedTo(out, rs, Len(rs))
  <2> HIDE DEF Reached
  <2>1. Len(rs) \in Reached
    BY <1>2, <1>3, <1>4, Induction
  <2> QED
    BY <1>1, <1>2, <2>1 DEF Reached
<1> QED
  BY <1>5 DEF CoalescedTo, InBytes

-----------------------------------------------------------------------------
(* Blocks of bytes.                                                        *)

InBlock(c, b, bs) == b = c \div bs

LEMMA InBlockFacts ==
  ASSUME NEW bs \in Nat \ {0}, NEW c \in Nat
  PROVE  /\ \A b \in Nat : InBlock(c, b, bs) <=> b * bs <= c /\ c < (b + 1) * bs
         /\ \E b \in Nat : InBlock(c, b, bs)
<1>1. c \div bs \in Nat /\ (c \div bs) * bs <= c /\ c < (c \div bs + 1) * bs
  BY DivMod
<1>2. ASSUME NEW b \in Nat, b * bs <= c, c < (b + 1) * bs
      PROVE  b = c \div bs
  <2> DEFINE q == c \div bs
  <2>1. q \in Nat /\ q * bs <= c /\ c < (q + 1) * bs
    BY <1>1
  <2> HIDE DEF q
  <2>2. b = q
    BY <1>2, <2>1, OneBlock
  <2> QED
    BY <2>2 DEF q
<1> QED
  BY <1>1, <1>2 DEF InBlock

(* Blocks ascend with the cells.                                           *)
LEMMA BlocksAscend ==
  ASSUME NEW bs \in Nat \ {0}, NEW c \in Nat, NEW d \in Nat, c <= d,
         NEW b \in Nat, NEW e \in Nat, InBlock(c, b, bs), InBlock(d, e, bs)
  PROVE  b <= e
<1>1. b * bs <= c /\ d < (e + 1) * bs /\ b * bs \in Nat
  BY InBlockFacts
<1>2. ASSUME e < b
      PROVE  FALSE
  <2>1. (e + 1) * bs <= b * bs /\ (e + 1) * bs \in Nat
    BY <1>2, Multiples
  <2> QED
    BY <1>1, <2>1
<1> QED
  BY <1>2

LEMMA BlockStart ==
  ASSUME NEW bs \in Nat \ {0}, NEW b \in Nat
  PROVE  b * bs \in Nat /\ InBlock(b * bs, b, bs)
<1>1. b * bs \in Nat /\ (b + 1) * bs = b * bs + bs
  OBVIOUS
<1> QED
  BY <1>1, InBlockFacts

BlockRange == [first : Nat, last : Nat]

(* With an unmapped block between any two.                                 *)
Apart(rs) ==
  \A i \in 1..Len(rs) : /\ rs[i].first <= rs[i].last
                        /\ \A k \in 1..Len(rs) : i < k => rs[i].last + 1 < rs[k].first

InRangeOf(r, b) == r.first <= b /\ b <= r.last

InBlocks(rs, b) == \E i \in 1..Len(rs) : InRangeOf(rs[i], b)

(* A byte range has a byte in the block.                                   *)
Touches(r, b, bs) == \E c \in Nat : Spanned(r, c) /\ InBlock(c, b, bs)

LEMMA TouchedBlocks ==
  ASSUME NEW bs \in Nat \ {0}, NEW r \in ByteRange, r.start < r.end,
         NEW first, first = r.start \div bs, NEW last, last = LastBlock(r, bs)
  PROVE  /\ first \in Nat /\ last \in Nat /\ first <= last
         /\ \A b \in Nat : Touches(r, b, bs) <=> first <= b /\ b <= last
<1>1. r.start \in Nat /\ r.end \in Nat /\ r.end - 1 \in Nat /\ r.start <= r.end - 1
  BY DEF ByteRange
<1>2. first \in Nat /\ last \in Nat /\ InBlock(r.start, first, bs) /\ InBlock(r.end - 1, last, bs)
  BY <1>1, DivMod DEF InBlock, LastBlock
<1>3. first <= last
  BY <1>1, <1>2, BlocksAscend
<1>4. ASSUME NEW b \in Nat, Touches(r, b, bs)
      PROVE  first <= b /\ b <= last
  <2>1. PICK c \in Nat : Spanned(r, c) /\ InBlock(c, b, bs)
    BY <1>4 DEF Touches
  <2>2. r.start <= c /\ c <= r.end - 1
    BY <1>1, <2>1 DEF Spanned
  <2> QED
    BY <1>1, <1>2, <2>1, <2>2, BlocksAscend
<1>5. ASSUME NEW b \in Nat, first <= b, b <= last
      PROVE  Touches(r, b, bs)
  <2>1. b * bs \in Nat /\ InBlock(b * bs, b, bs)
    BY BlockStart
  <2>2. CASE b * bs < r.start
    <3>1. b <= first
      BY <1>1, <1>2, <2>1, <2>2, BlocksAscend
    <3>2. b = first
      BY <1>2, <1>5, <3>1
    <3>3. Spanned(r, r.start)
      BY <1>1 DEF Spanned
    <3> QED
      BY <1>1, <1>2, <3>2, <3>3 DEF Touches
  <2>3. CASE ~(b * bs < r.start)
    <3>1. b * bs < r.end
      <4>1. SUFFICES ASSUME r.end - 1 < b * bs PROVE FALSE
        BY <1>1, <2>1
      <4>2. last <= b
        BY <1>1, <1>2, <2>1, <4>1, BlocksAscend
      <4>3. b = last
        BY <1>2, <1>5, <4>2
      <4>4. b * bs <= r.end - 1
        BY <1>1, <1>2, <4>3, InBlockFacts
      <4> QED
        BY <1>1, <2>1, <4>1, <4>4
    <3>2. Spanned(r, b * bs)
      BY <1>1, <2>1, <2>3, <3>1 DEF Spanned
    <3> QED
      BY <2>1, <3>2 DEF Touches
  <2> QED
    BY <2>2, <2>3
<1> QED
  BY <1>2, <1>3, <1>4, <1>5

LEMMA MergeBlocksType ==
  ASSUME NEW out \in Seq(BlockRange), NEW first \in Nat, NEW last \in Nat
  PROVE  MergeBlocks(out, first, last) \in Seq(BlockRange)
<1>1. CASE out # <<>> /\ first <= Last(out).last + 1
  <2> DEFINE n == Len(out)
             longer == [out[n] EXCEPT !.last = Greater(@, last)]
  <2>1. n \in 1..n
    BY <1>1, EmptySeq
  <2>2. longer \in BlockRange
    <3>1. out[n] \in BlockRange
      BY <2>1, ElementOfSeq
    <3> QED
      BY <3>1 DEF BlockRange, Greater
  <2>3. MergeBlocks(out, first, last) = [out EXCEPT ![n] = longer]
    <3>1. MergeBlocks(out, first, last) = [out EXCEPT ![Len(out)].last = Greater(@, last)]
      BY <1>1, Zenon DEF MergeBlocks
    <3> QED
      BY <3>1
  <2> HIDE DEF longer
  <2> QED
    BY <2>1, <2>2, <2>3, ExceptSeq
<1>2. CASE ~(out # <<>> /\ first <= Last(out).last + 1)
  <2> DEFINE r == [first |-> first, last |-> last]
  <2>1. MergeBlocks(out, first, last) = Append(out, r)
    BY <1>2, Zenon DEF MergeBlocks
  <2>2. r \in BlockRange
    BY DEF BlockRange
  <2> HIDE DEF r
  <2> QED
    BY <2>1, <2>2, AppendProperties
<1> QED
  BY <1>1, <1>2

(* byte_ranges_to_blocks takes one range after the other.                  *)
Rounded(out, r, bs) ==
  IF r.end <= r.start THEN out ELSE MergeBlocks(out, r.start \div bs, LastBlock(r, bs))

LEMMA RoundingSteps ==
  ASSUME NEW rs \in Seq(ByteRange), NEW bs \in Nat \ {0}
  PROVE  \E f : /\ f[0] = <<>> /\ f[Len(rs)] = ByteRangesToBlocks(rs, bs)
                /\ \A k \in Nat : k < Len(rs) => f[k + 1] = Rounded(f[k], rs[k + 1], bs)
<1> DEFINE V == Seq(BlockRange)
           m == Len(rs)
           op(out, r) == IF r.end <= r.start THEN out
                         ELSE MergeBlocks(out, r.start \div bs, LastBlock(r, bs))
           step == [i \in 1..m |-> [v \in V |-> op(v, rs[i])]]
           Value(it, s) == IF s = {} THEN <<>> ELSE op(it[s \ {Max(s)}], rs[Max(s)])
           fold == CHOOSE it : it = [s \in SUBSET DOMAIN rs |-> Value(it, s)]
<1>1. m \in Nat /\ DOMAIN rs = 1..m
  BY LenProperties
<1>2. ASSUME NEW i \in 1..m, NEW v \in V
      PROVE  op(v, rs[i]) \in V
  <2>1. rs[i] \in ByteRange
    BY ElementOfSeq
  <2>2. CASE rs[i].end <= rs[i].start
    BY <2>2
  <2>3. CASE ~(rs[i].end <= rs[i].start)
    <3>1. rs[i].start < rs[i].end
      BY <2>1, <2>3 DEF ByteRange
    <3>2. rs[i].start \div bs \in Nat /\ LastBlock(rs[i], bs) \in Nat
      BY <2>1, <3>1, TouchedBlocks
    <3>3. MergeBlocks(v, rs[i].start \div bs, LastBlock(rs[i], bs)) \in V
      BY <3>2, MergeBlocksType
    <3> QED
      BY <2>3, <3>3
  <2> QED
    BY <2>2, <2>3
<1>3. StepsIn(step, 1..m, V) /\ <<>> \in V
  BY <1>2, EmptySeq DEF StepsIn
<1>4. \A i \in 1..m, v \in V : step[i][v] = op(v, rs[i])
  OBVIOUS
<1>5. \E it : it = [s \in SUBSET DOMAIN rs |-> Value(it, s)]
  <2> HIDE DEF V, step, m, op
  <2>1. PICK it : FoldsUp(it, m, V, <<>>, step)
    BY <1>1, <1>3, FoldOver
  <2>2. \A s \in SUBSET (1..m) : it[s] = Value(it, s)
    BY <1>4, <2>1 DEF FoldsUp
  <2>3. it = [s \in SUBSET DOMAIN rs |-> Value(it, s)]
    <3> HIDE DEF Value
    <3> QED
      BY <1>1, <2>1, <2>2 DEF FoldsUp
  <2> QED
    BY <2>3
<1>6. fold = [s \in SUBSET (1..m) |-> Value(fold, s)]
  <2> HIDE DEF Value, m
  <2> QED
    BY <1>1, <1>5
<1>7. ByteRangesToBlocks(rs, bs) = fold[1..m]
  BY <1>1 DEF ByteRangesToBlocks, FoldLeft, MapThenFoldSet
<1> HIDE DEF fold, m, op
<1>8. fold[1..0] = <<>>
  BY <1>6
<1>9. ASSUME NEW k \in Nat, k < m
      PROVE  fold[1..(k + 1)] = op(fold[1..k], rs[k + 1])
  <2>1. fold[1..(k + 1)] = Value(fold, 1..(k + 1))
    <3> HIDE DEF Value
    <3> QED
      BY <1>1, <1>6, <1>9, PrefixFacts
  <2> QED
    BY <1>1, <1>9, <2>1, PrefixFacts
<1> DEFINE f == [k \in 0..m |-> fold[1..k]]
<1>10. f[0] = <<>> /\ f[m] = ByteRangesToBlocks(rs, bs)
  BY <1>1, <1>7, <1>8
<1>11. ASSUME NEW k \in Nat, k < m
       PROVE  f[k + 1] = Rounded(f[k], rs[k + 1], bs)
  <2>1. k \in 0..m /\ k + 1 \in 0..m
    BY <1>1, <1>11
  <2>2. f[k + 1] = op(f[k], rs[k + 1])
    BY <1>9, <1>11, <2>1
  <2> QED
    BY <2>2 DEF op, Rounded
<1> QED
  BY <1>10, <1>11 DEF m

(* What a new run of blocks makes of the list, if it does not begin before *)
(* the last one.                                                           *)
LEMMA MergingBlocks ==
  ASSUME NEW out \in Seq(BlockRange), Apart(out), NEW first \in Nat, NEW last \in Nat, first <= last,
         out # <<>> => out[Len(out)].first <= first,
         NEW next, next = MergeBlocks(out, first, last)
  PROVE  /\ next \in Seq(BlockRange) /\ Apart(next) /\ next # <<>>
         /\ next[Len(next)].first <= first
         /\ \A b \in Nat : InBlocks(next, b) <=> InBlocks(out, b) \/ (first <= b /\ b <= last)
<1> DEFINE n == Len(out)
<1>1. n \in Nat /\ (out # <<>> => n \in 1..n)
  BY EmptySeq, LenProperties
<1>2. \A i \in 1..n : /\ out[i] \in BlockRange /\ out[i].first \in Nat /\ out[i].last \in Nat
                      /\ out[i].first <= out[i].last
  <2>1. \A i \in 1..n : out[i] \in BlockRange
    BY <1>1, ElementOfSeq
  <2>2. \A i \in 1..n : out[i].first <= out[i].last
    BY DEF Apart
  <2> QED
    BY <2>1, <2>2 DEF BlockRange
<1>3. CASE out # <<>> /\ first <= Last(out).last + 1
  <2> DEFINE o == out[n]
             e == Greater(o.last, last)
             longer == [o EXCEPT !.last = e]
  <2>1. n \in 1..n /\ Last(out) = o /\ o \in BlockRange /\ o.first \in Nat /\ o.last \in Nat
        /\ o.first <= o.last /\ o.first <= first /\ first <= o.last + 1
    BY <1>1, <1>2, <1>3 DEF Last
  <2>2. next = [out EXCEPT ![n] = longer]
    <3>1. next = [out EXCEPT ![Len(out)].last = Greater(@, last)]
      BY <1>3, Zenon DEF MergeBlocks
    <3> QED
      BY <3>1
  <2> HIDE DEF o
  <2>3. e \in Nat /\ o.first <= e /\ e = IF o.last < last THEN last ELSE o.last
    BY <2>1 DEF Greater
  <2> HIDE DEF e
  <2>4. longer \in BlockRange /\ longer.first = o.first /\ longer.last = e
    BY <2>1, <2>3 DEF BlockRange
  <2> HIDE DEF longer
  <2>5. /\ next \in Seq(BlockRange) /\ Len(next) = n
        /\ \A i \in 1..n : next[i] = IF i = n THEN longer ELSE out[i]
    BY <1>1, <2>1, <2>2, <2>4, ExceptSeq
  <2>6. next # <<>> /\ next[n] = longer /\ \A i \in 1..n : i # n => next[i] = out[i]
    BY <2>1, <2>5, EmptySeq
  <2>7. \A i \in 1..n : next[i].first = out[i].first
    BY <2>4, <2>5 DEF o
  <2>8. Apart(next)
    <3> SUFFICES ASSUME NEW i \in 1..n
                 PROVE  /\ next[i].first <= next[i].last
                        /\ \A k \in 1..n : i < k => next[i].last + 1 < next[k].first
      BY <2>5 DEF Apart
    <3>1. CASE i = n
      <4>1. \A k \in 1..n : ~(i < k)
        BY <1>1, <3>1
      <4> QED
        BY <2>3, <2>4, <2>6, <3>1, <4>1
    <3>2. CASE i # n
      BY <2>6, <2>7, <3>2 DEF Apart
    <3> QED
      BY <3>1, <3>2
  <2>9. ASSUME NEW b \in Nat
        PROVE  InBlocks(next, b) <=> InBlocks(out, b) \/ (first <= b /\ b <= last)
    <3>1. InRangeOf(longer, b) <=> InRangeOf(o, b) \/ (first <= b /\ b <= last)
      BY <2>1, <2>3, <2>4 DEF InRangeOf
    <3> QED
      BY <2>1, <2>5, <2>6, <3>1 DEF InBlocks, o
  <2> QED
    BY <2>1, <2>4, <2>5, <2>6, <2>8, <2>9
<1>4. CASE ~(out # <<>> /\ first <= Last(out).last + 1)
  <2> DEFINE r == [first |-> first, last |-> last]
  <2>1. next = Append(out, r)
    BY <1>4, Zenon DEF MergeBlocks
  <2>2. r \in BlockRange /\ r.first = first /\ r.last = last
    BY DEF BlockRange
  <2> HIDE DEF r
  <2>3. /\ next \in Seq(BlockRange) /\ Len(next) = n + 1
        /\ \A i \in 1..n : next[i] = out[i]
        /\ next[n + 1] = r
    BY <1>1, <2>1, <2>2, AppendProperties
  <2>4. next # <<>> /\ \A i : i \in 1..(n + 1) <=> i \in 1..n \/ i = n + 1
    BY <1>1, <2>3, EmptySeq
  <2>5. \A i \in 1..n : out[i].last + 1 < first
    <3> SUFFICES ASSUME NEW i \in 1..n PROVE out[i].last + 1 < first
      OBVIOUS
    <3>1. out # <<>> /\ n \in 1..n /\ Last(out) = out[n]
      BY <1>1, EmptySeq DEF Last
    <3>2. out[n].last + 1 < first
      BY <1>2, <1>4, <3>1
    <3>3. i = n \/ i < n
      OBVIOUS
    <3>4. i < n => out[i].last + 1 < out[n].first
      BY <3>1 DEF Apart
    <3> QED
      BY <1>2, <3>1, <3>2, <3>3, <3>4
  <2>6. Apart(next)
    <3> SUFFICES ASSUME NEW i \in 1..(n + 1)
                 PROVE  /\ next[i].first <= next[i].last
                        /\ \A k \in 1..(n + 1) : i < k => next[i].last + 1 < next[k].first
      BY <2>3 DEF Apart
    <3>1. CASE i \in 1..n
      <4>1. out[i].first <= out[i].last /\ \A k \in 1..n : i < k => out[i].last + 1 < out[k].first
        BY <3>1 DEF Apart
      <4> QED
        BY <2>2, <2>3, <2>4, <2>5, <3>1, <4>1
    <3>2. CASE i = n + 1
      <4>1. \A k \in 1..(n + 1) : ~(i < k)
        BY <1>1, <3>2
      <4> QED
        BY <2>2, <2>3, <3>2, <4>1
    <3> QED
      BY <2>4, <3>1, <3>2
  <2>7. ASSUME NEW b \in Nat
        PROVE  InBlocks(next, b) <=> InBlocks(out, b) \/ (first <= b /\ b <= last)
    BY <2>2, <2>3, <2>4 DEF InBlocks, InRangeOf
  <2> QED
    BY <2>2, <2>3, <2>4, <2>6, <2>7
<1> QED
  BY <1>3, <1>4

(* The result when k ranges were taken in.                                 *)
RoundedTo(out, rs, bs, k) ==
  /\ out \in Seq(BlockRange) /\ Apart(out)
  /\ out # <<>> => \E i \in 1..k : \A b \in Nat : InBlock(rs[i].start, b, bs) => out[Len(out)].first <= b
  /\ \A b \in Nat : InBlocks(out, b) <=> \E i \in 1..k : Touches(rs[i], b, bs)

LEMMA RoundOn ==
  ASSUME NEW rs \in Seq(ByteRange), SortedBytes(rs), NEW bs \in Nat \ {0},
         NEW k \in Nat, k < Len(rs), NEW out, RoundedTo(out, rs, bs, k),
         NEW next, next = Rounded(out, rs[k + 1], bs)
  PROVE  RoundedTo(next, rs, bs, k + 1)
<1> DEFINE r == rs[k + 1]
<1>1. Len(rs) \in Nat /\ k + 1 \in 1..Len(rs) /\ r \in ByteRange
      /\ \A i : i \in 1..(k + 1) <=> i \in 1..k \/ i = k + 1
  BY LenProperties, ElementOfSeq
<1>2. r.start \in Nat /\ r.end \in Nat
  BY <1>1 DEF ByteRange
<1>3. \A b \in Nat : (\E i \in 1..(k + 1) : Touches(rs[i], b, bs)) <=> InBlocks(out, b) \/ Touches(r, b, bs)
  BY <1>1 DEF RoundedTo
<1>4. CASE r.end <= r.start
  <2>1. next = out
    BY <1>4 DEF Rounded
  <2>2. \A b \in Nat : ~Touches(r, b, bs)
    BY <1>2, <1>4 DEF Touches, Spanned
  <2> QED
    BY <1>1, <1>3, <2>1, <2>2 DEF RoundedTo
<1>5. CASE ~(r.end <= r.start)
  <2> DEFINE first == r.start \div bs
             last == LastBlock(r, bs)
  <2>1. next = MergeBlocks(out, first, last)
    BY <1>5 DEF Rounded
  <2>2. r.start < r.end
    BY <1>2, <1>5
  <2>3. InBlock(r.start, first, bs)
    BY DEF InBlock
  <2>4. /\ first \in Nat /\ last \in Nat /\ first <= last
        /\ \A b \in Nat : Touches(r, b, bs) <=> first <= b /\ b <= last
    BY <1>1, <2>2, TouchedBlocks
  <2> HIDE DEF first, last, r
  <2>5. out # <<>> => out[Len(out)].first <= first
    <3> SUFFICES ASSUME out # <<>> PROVE out[Len(out)].first <= first
      OBVIOUS
    <3>1. PICK i \in 1..k : \A b \in Nat : InBlock(rs[i].start, b, bs) => out[Len(out)].first <= b
      BY DEF RoundedTo
    <3>2. i \in 1..Len(rs) /\ i <= k + 1
      BY <1>1
    <3>3. rs[i] \in ByteRange
      BY <3>2, ElementOfSeq
    <3>4. rs[i].start \in Nat /\ rs[i].start <= r.start
      BY <1>1, <3>2, <3>3 DEF SortedBytes, ByteRange, r
    <3>5. PICK b \in Nat : InBlock(rs[i].start, b, bs)
      BY <3>4, InBlockFacts
    <3>6. b <= first
      BY <1>2, <2>3, <2>4, <3>4, <3>5, BlocksAscend
    <3>7. out \in Seq(BlockRange) /\ Len(out) \in 1..Len(out)
      BY EmptySeq, LenProperties DEF RoundedTo
    <3>8. out[Len(out)] \in BlockRange
      BY <3>7, ElementOfSeq
    <3> QED
      BY <2>4, <3>1, <3>5, <3>6, <3>8 DEF BlockRange
  <2>6. /\ next \in Seq(BlockRange) /\ Apart(next) /\ next # <<>>
        /\ next[Len(next)].first <= first
        /\ \A b \in Nat : InBlocks(next, b) <=> InBlocks(out, b) \/ (first <= b /\ b <= last)
    BY <2>1, <2>4, <2>5, MergingBlocks DEF RoundedTo
  <2>7. \A b \in Nat : InBlock(rs[k + 1].start, b, bs) => next[Len(next)].first <= b
    BY <2>3, <2>6 DEF InBlock, r
  <2> QED
    BY <1>1, <1>3, <2>4, <2>6, <2>7 DEF RoundedTo
<1> QED
  BY <1>4, <1>5

(* byte_ranges_to_blocks returns exactly the blocks in which a range has a *)
(* byte, as ranges that ascend with an unmapped block between any two,     *)
(* empty ranges, ranges in one block and a partial last one included.      *)
(* (range.rs:108-125)                                                      *)
THEOREM BlocksCoverBytes ==
  ASSUME NEW rs \in Seq(ByteRange), SortedBytes(rs), NEW bs \in Nat \ {0},
         NEW out, out = ByteRangesToBlocks(rs, bs)
  PROVE  /\ out \in Seq(BlockRange) /\ Apart(out)
         /\ \A b \in Nat : InBlocks(out, b) <=> \E c \in Nat : InBytes(rs, c) /\ InBlock(c, b, bs)
<1>1. PICK f : /\ f[0] = <<>> /\ f[Len(rs)] = out
               /\ \A k \in Nat : k < Len(rs) => f[k + 1] = Rounded(f[k], rs[k + 1], bs)
  BY RoundingSteps
<1>2. Len(rs) \in Nat
  BY LenProperties
<1> DEFINE Reached == {k \in Nat : k <= Len(rs) => RoundedTo(f[k], rs, bs, k)}
<1>3. 0 \in Reached
  <2>1. <<>> \in Seq(BlockRange) /\ Len(<<>>) = 0
    BY EmptySeq
  <2>2. Apart(<<>>) /\ \A b \in Nat : ~InBlocks(<<>>, b)
    BY <2>1 DEF Apart, InBlocks
  <2>3. RoundedTo(<<>>, rs, bs, 0)
    BY <2>1, <2>2 DEF RoundedTo
  <2> QED
    BY <1>1, <2>3
<1>4. ASSUME NEW k \in Nat, k \in Reached
      PROVE  k + 1 \in Reached
  BY <1>1, <1>2, <1>4, RoundOn
<1>5. RoundedTo(out, rs, bs, Len(rs))
  <2> HIDE DEF Reached
  <2>1. Len(rs) \in Reached
    BY <1>2, <1>3, <1>4, Induction
  <2> QED
    BY <1>1, <1>2, <2>1 DEF Reached
<1> QED
  BY <1>5 DEF RoundedTo, InBytes, Touches

-----------------------------------------------------------------------------
(* Covered.                                                                *)

SumRange == [first : Nat, last : Nat, sum : Seq(Nat)]

SumSteps(f, rs, total) == f[0] = 0 /\ f[Len(rs)] = total

(* Covered goes through the ranges one by one.                             *)
LEMMA CoveredSteps ==
  ASSUME NEW rs \in Seq(SumRange)
  PROVE  \E f : SumSteps(f, rs, Covered(rs)) /\ \A k \in Nat : k < Len(rs) => f[k + 1] = f[k] + rs[k + 1].last - rs[k + 1].first + 1
<1> DEFINE V == Int
           m == Len(rs)
           op(n, r) == n + r.last - r.first + 1
           step == [i \in 1..m |-> [v \in V |-> op(v, rs[i])]]
           Value(it, s) == IF s = {} THEN 0 ELSE op(it[s \ {Max(s)}], rs[Max(s)])
           fold == CHOOSE it : it = [s \in SUBSET DOMAIN rs |-> Value(it, s)]
<1>1. m \in Nat /\ DOMAIN rs = 1..m
  BY LenProperties
<1>2. ASSUME NEW i \in 1..m, NEW v \in V
      PROVE  op(v, rs[i]) \in V
  <2>1. rs[i] \in SumRange
    BY ElementOfSeq
  <2>2. rs[i].first \in Int /\ rs[i].last \in Int
    BY <2>1 DEF SumRange
  <2> QED
    BY <2>2
<1>3. StepsIn(step, 1..m, V) /\ 0 \in V
  BY <1>2 DEF StepsIn
<1>4. \A i \in 1..m, v \in V : step[i][v] = op(v, rs[i])
  OBVIOUS
<1>5. \E it : it = [s \in SUBSET DOMAIN rs |-> Value(it, s)]
  <2> HIDE DEF V, step, m, op
  <2>1. PICK it : FoldsUp(it, m, V, 0, step)
    BY <1>1, <1>3, FoldOver
  <2>2. \A s \in SUBSET (1..m) : it[s] = Value(it, s)
    BY <1>4, <2>1 DEF FoldsUp
  <2>3. it = [s \in SUBSET DOMAIN rs |-> Value(it, s)]
    <3> HIDE DEF Value
    <3> QED
      BY <1>1, <2>1, <2>2 DEF FoldsUp
  <2> QED
    BY <2>3
<1>6. fold = [s \in SUBSET (1..m) |-> Value(fold, s)]
  <2> HIDE DEF Value, m
  <2> QED
    BY <1>1, <1>5
<1>7. Covered(rs) = fold[1..m]
  BY <1>1, Zenon DEF Covered, FoldLeft, MapThenFoldSet
<1> HIDE DEF fold, m, op
<1>8. fold[1..0] = 0
  BY <1>6
<1>9. ASSUME NEW k \in Nat, k < m
      PROVE  fold[1..(k + 1)] = op(fold[1..k], rs[k + 1])
  <2>1. fold[1..(k + 1)] = Value(fold, 1..(k + 1))
    <3> HIDE DEF Value
    <3> QED
      BY <1>1, <1>6, <1>9, PrefixFacts
  <2> QED
    BY <1>1, <1>9, <2>1, PrefixFacts
<1> DEFINE f == [k \in 0..m |-> fold[1..k]]
<1>10. f[0] = 0 /\ f[m] = Covered(rs)
  BY <1>1, <1>7, <1>8
<1>11. ASSUME NEW k \in Nat, k < m
       PROVE  f[k + 1] = op(f[k], rs[k + 1])
  <2>1. k \in 0..m /\ k + 1 \in 0..m
    BY <1>1, <1>11
  <2> QED
    BY <1>9, <1>11, <2>1
<1> QED
  BY <1>10, <1>11 DEF m, op, SumSteps

-----------------------------------------------------------------------------
(* The bmap file.                                                          *)

(* A document that is accepted, and has digests at all, records the digest *)
(* of itself.                                                              *)
LEMMA AcceptedIsSealed ==
  ASSUME NEW doc, ParseAnswer(doc) = "ok", Kind(doc) # "none"
  PROVE  doc.digest = Digest(DigestElement(doc), Kind(doc), doc)
<1>1. SelfDigest(doc) = "ok"
  BY DEF ParseAnswer
<1> QED
  BY <1>1 DEF SelfDigest

(* Two documents that parse accepts and that record the same digest say    *)
(* the same: nothing in a bmap file can be changed on its own, or cut off, *)
(* unless the change turns the digests off. (bmap.rs:86, 297-331)          *)
THEOREM DigestCoversDocument ==
  ASSUME NEW a, NEW b, ParseAnswer(a) = "ok", ParseAnswer(b) = "ok",
         Kind(a) # "none", Kind(b) # "none", a.digest = b.digest
  PROVE  [a EXCEPT !.digest = NoDigest] = [b EXCEPT !.digest = NoDigest]
<1>1. Digest(DigestElement(a), Kind(a), a).of = Digest(DigestElement(b), Kind(b), b).of
  BY AcceptedIsSealed
<1> QED
  BY <1>1 DEF Digest

(* A rendered map has a kind, and a digest over all of it: what is left of *)
(* it when its end is missing is refused.                                  *)
LEMMA CutIsRefused ==
  ASSUME NEW m, NEW n \in {1, 2}
  PROVE  ParseAnswer([Render(m) EXCEPT !.cut = n]) # "ok"
<1> DEFINE doc == [Render(m) EXCEPT !.cut = n]
<1>1. doc.cut = n /\ doc.version = FormatVersion /\ doc.type = RenderedKind(m)
  BY DEF Render
<1>2. Kind(doc) = RenderedKind(m) /\ RenderedKind(m) # "none"
  BY <1>1 DEF Kind, NamesKind, Major, FormatVersion, RenderedKind, DefaultKind
<1>3. doc.digest.of.cut = 0
  BY DEF Render, Digest
<1>4. Digest(DigestElement(doc), Kind(doc), doc).of.cut = n
  BY DEF Render, Digest
<1>5. ASSUME ParseAnswer(doc) = "ok"
      PROVE  FALSE
  <2> HIDE DEF doc
  <2>1. doc.digest = Digest(DigestElement(doc), Kind(doc), doc)
    BY <1>2, <1>5, AcceptedIsSealed
  <2> QED
    BY <1>3, <1>4, <2>1
<1> QED
  BY <1>5

(* What create makes, and what parse accepts.                              *)
GoodMap(m) ==
  /\ m = [size |-> m.size, bs |-> m.bs, blocks |-> m.blocks, mapped |-> m.mapped,
          kind |-> m.kind, ranges |-> m.ranges]
  /\ m.size \in Nat /\ m.bs \in Nat \ {0} /\ m.blocks = CeilDiv(m.size, m.bs) /\ m.mapped \in Nat
  /\ m.kind \in ChecksumKinds
  /\ m.ranges \in Seq(SumRange)
  /\ \A i \in 1..Len(m.ranges) : m.ranges[i].first <= m.ranges[i].last
                                 /\ m.ranges[i].last < m.blocks
  /\ m.mapped = Covered(m.ranges)

(* Every map that has its numbers right is accepted once it is rendered,   *)
(* and is the same map then, checksums included.  (bmap.rs:131, 287)       *)
THEOREM RenderedIsParsed ==
  ASSUME NEW m, GoodMap(m)
  PROVE  ParseAnswer(Render(m)) = "ok" /\ Parsed(Render(m)) = m
<1> DEFINE doc == Render(m)
<1>1. m.kind # "none" /\ RenderedKind(m) = m.kind
  BY DEF GoodMap, ChecksumKinds, RenderedKind
<1>2. /\ doc.cut = 0 /\ doc.version = FormatVersion /\ doc.size = m.size /\ doc.bs = m.bs
      /\ doc.blocks = m.blocks /\ doc.mapped = m.mapped /\ doc.type = m.kind
      /\ doc.ranges = m.ranges /\ doc.attr = "chksum"
  BY <1>1 DEF Render
<1>3. doc.digest = Digest("BmapFileChecksum", m.kind, doc)
  BY <1>1 DEF Render, Digest
<1>4. doc.digest.element = "BmapFileChecksum" /\ doc.digest.kind = m.kind
  BY <1>3 DEF Digest
<1> HIDE DEF doc
<1>5. NamesKind(doc) /\ Major(doc) = 2 /\ doc.version # <<>> /\ doc.version # <<1, 3>>
  BY <1>2 DEF NamesKind, Major, FormatVersion
<1>6. Kind(doc) = m.kind /\ DigestElement(doc) = "BmapFileChecksum" /\ RangeAttr(doc) = "chksum"
  BY <1>2, <1>5 DEF Kind, DigestElement, RangeAttr
<1>7. SelfDigest(doc) = "ok"
  BY <1>1, <1>3, <1>4, <1>6 DEF SelfDigest
<1>8. ~NumbersMissing(doc) /\ doc.bs # 0 /\ doc.blocks = CeilDiv(doc.size, doc.bs)
  <2>1. CeilDiv(m.size, m.bs) \in Nat
    BY CeilFacts DEF GoodMap
  <2> QED
    BY <1>2, <2>1 DEF GoodMap, NumbersMissing, Missing
<1>9. RangesFit(doc)
  BY <1>2 DEF RangesFit, GoodMap
<1>10. ParseAnswer(doc) = "ok"
  <2>1. ~(Major(doc) > FormatVersion[1])
    BY <1>5 DEF FormatVersion
  <2>2. doc.type # "none" /\ doc.type \in ChecksumKinds
    BY <1>1, <1>2 DEF GoodMap
  <2> QED
    BY <1>2, <1>5, <1>7, <1>8, <1>9, <2>1, <2>2 DEF ParseAnswer
<1>11. Parsed(doc) = m
  <2>1. [i \in 1..Len(doc.ranges) |-> IF doc.attr = RangeAttr(doc) THEN doc.ranges[i]
                                      ELSE [doc.ranges[i] EXCEPT !.sum = <<>>]] = m.ranges
    BY <1>2, <1>6 DEF GoodMap
  <2>2. Parsed(doc) = [size |-> m.size, bs |-> m.bs, blocks |-> m.blocks, mapped |-> m.mapped,
                       kind |-> m.kind, ranges |-> m.ranges]
    BY <1>2, <1>6, <2>1 DEF Parsed
  <2> QED
    BY <2>2 DEF GoodMap
<1> QED
  BY <1>10, <1>11 DEF doc

=============================================================================

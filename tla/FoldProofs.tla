----------------------------- MODULE FoldProofs -----------------------------
(***************************************************************************)
(* What FoldLeft computes, for any operator: the base on an empty          *)
(* sequence, and on a longer one the operator applied to the fold of the   *)
(* rest and the last element.  Induction is by a least counterexample.     *)
(***************************************************************************)
EXTENDS SequencesExt, FiniteSetTheorems, WellFoundedInduction, TLAPS

CONSTANT Op(_, _)

Folded(base, s) == FoldLeft(Op, base, s)

\* g folds every part of the first n elements of s.
IsFold(g, base, s, n) ==
  g = [t \in SUBSET (1..n) |-> IF t = {} THEN base ELSE Op(g[t \ {Max(t)}], s[Max(t)])]

\* A part of 1..n that has n in it has n as its largest element.
LEMMA MaxOfPart ==
  ASSUME NEW n \in Nat, NEW t \in SUBSET (1..n), n \in t
  PROVE  Max(t) = n
<1>1. \A y \in t : n >= y
  OBVIOUS
<1>2. \A x \in t : (\A y \in t : x >= y) => x = n
  OBVIOUS
<1> QED  BY <1>1, <1>2 DEF Max

\* The value at 1..k comes from the value at 1..(k - 1) and the k-th element.
LEMMA FoldStep ==
  ASSUME NEW s, NEW base, NEW n \in Nat, NEW g, IsFold(g, base, s, n)
  PROVE  \A k \in 1..n : g[1..k] = Op(g[1..(k - 1)], s[k])
<1> SUFFICES ASSUME NEW k \in 1..n
             PROVE  g[1..k] = Op(g[1..(k - 1)], s[k])
  OBVIOUS
<1>1. k \in Nat /\ k \in 1..k /\ 1..k \in SUBSET (1..n) /\ 1..k # {}
  OBVIOUS
<1>2. Max(1..k) = k
  BY <1>1, MaxOfPart
<1>3. (1..k) \ {k} = 1..(k - 1)
  BY <1>1
<1>4. g[1..k] = IF 1..k = {} THEN base ELSE Op(g[(1..k) \ {Max(1..k)}], s[Max(1..k)])
  BY <1>1 DEF IsFold
<1> QED  BY <1>1, <1>2, <1>3, <1>4

\* The numbers are well-founded.
LEMMA LeastNumber ==
  ASSUME NEW S \in SUBSET Nat, S # {}
  PROVE  \E m \in S : \A n \in S : m <= n
<1> DEFINE below == {0..n : n \in S}
<1>1. below \subseteq FiniteSubsetsOf(Nat) /\ below # {}
  <2>1. ASSUME NEW n \in S
        PROVE  IsFiniteSet(0..n) /\ 0..n \in SUBSET Nat
    <3>1. n \in Int /\ 0 \in Int
      OBVIOUS
    <3> QED BY <3>1, FS_Interval
  <2> QED BY <2>1 DEF FiniteSubsetsOf
<1>2. IsWellFoundedOn(StrictSubsetOrdering(Nat), FiniteSubsetsOf(Nat))
  BY FS_StrictSubsetOrderingWellFounded
<1>3. PICK x \in below : \A y \in below : <<y, x>> \notin StrictSubsetOrdering(Nat)
  BY <1>1, <1>2, WFMin
<1>4. PICK m \in S : x = 0..m
  BY <1>3
<1>5. ASSUME NEW n \in S, n < m
      PROVE  FALSE
  <2>1. 0..n \subseteq 0..m /\ m \in 0..m /\ m \notin 0..n
    BY <1>5
  <2>2. <<0..n, x>> \in StrictSubsetOrdering(Nat)
    BY <1>4, <2>1 DEF StrictSubsetOrdering
  <2> QED BY <1>3, <2>2
<1> QED BY <1>5

\* A set of numbers with no least counterexample has all of them.
LEMMA UpTo ==
  ASSUME NEW n \in Nat, NEW S, 0 \in S, \A m \in 0..(n - 1) : m \in S => m + 1 \in S
  PROVE  n \in S
<1> DEFINE left == {m \in 0..n : m \notin S}
<1> SUFFICES ASSUME n \notin S
             PROVE  FALSE
  OBVIOUS
<1>1. n \in left /\ left \in SUBSET Nat
  OBVIOUS
<1>2. PICK m \in left : \A k \in left : m <= k
  BY <1>1, LeastNumber
<1>3. m \in 1..n
  OBVIOUS
<1>4. m - 1 \in 0..(n - 1) /\ m - 1 \notin left
  BY <1>2, <1>3
<1>5. (m - 1) + 1 = m
  BY <1>3
<1> QED  BY <1>2, <1>4, <1>5

\* Every sequence has such a fold, of every length: the next one extends it.
LEMMA FoldExists ==
  ASSUME NEW s, NEW base, NEW n \in Nat
  PROVE  \E g : IsFold(g, base, s, n)
<1> DEFINE S == {m \in Nat : \E g : IsFold(g, base, s, m)}
<1>1. 0 \in S
  <2> DEFINE g == [t \in SUBSET (1..0) |-> base]
  <2>1. SUBSET (1..0) = {{}}
    OBVIOUS
  <2>2. g = [t \in SUBSET (1..0) |-> IF t = {} THEN base ELSE Op(g[t \ {Max(t)}], s[Max(t)])]
    BY <2>1
  <2> QED  BY <2>2 DEF IsFold
<1>2. ASSUME NEW m \in Nat, m \in S
      PROVE  m + 1 \in S
  <2>1. PICK g : IsFold(g, base, s, m)
    BY <1>2
  <2> DEFINE Value(t) == IF m + 1 \in t THEN Op(g[t \ {m + 1}], s[m + 1]) ELSE g[t]
             new == [t \in SUBSET (1..(m + 1)) |-> Value(t)]
  <2>2. ASSUME NEW t \in SUBSET (1..(m + 1))
        PROVE  Value(t) = IF t = {} THEN base ELSE Op(new[t \ {Max(t)}], s[Max(t)])
    <3>1. CASE m + 1 \in t
      <4>1. Max(t) = m + 1
        BY <3>1, MaxOfPart
      <4>2. t \ {m + 1} \in SUBSET (1..(m + 1)) /\ m + 1 \notin t \ {m + 1}
        OBVIOUS
      <4>3. new[t \ {m + 1}] = g[t \ {m + 1}]
        BY <4>2
      <4> HIDE DEF new
      <4> QED  BY <3>1, <4>1, <4>3
    <3>2. CASE m + 1 \notin t
      <4>1. t \in SUBSET (1..m)
        BY <3>2
      <4>2. g[t] = IF t = {} THEN base ELSE Op(g[t \ {Max(t)}], s[Max(t)])
        BY <2>1, <4>1 DEF IsFold
      <4>3. t \ {Max(t)} \in SUBSET (1..(m + 1)) /\ m + 1 \notin t \ {Max(t)}
        BY <3>2
      <4>4. new[t \ {Max(t)}] = g[t \ {Max(t)}]
        BY <4>3
      <4> HIDE DEF new
      <4> QED  BY <3>2, <4>2, <4>4
    <3> QED  BY <3>1, <3>2
  <2>3. new = [t \in SUBSET (1..(m + 1)) |->
                 IF t = {} THEN base ELSE Op(new[t \ {Max(t)}], s[Max(t)])]
    <3> DEFINE other == [t \in SUBSET (1..(m + 1)) |->
                 IF t = {} THEN base ELSE Op(new[t \ {Max(t)}], s[Max(t)])]
    <3>1. \A t \in SUBSET (1..(m + 1)) : new[t] = other[t]
      BY <2>2
    <3> QED  BY <3>1
  <2> HIDE DEF new
  <2> QED  BY <2>3 DEF IsFold
<1> HIDE DEF S
<1>3. n \in S
  BY <1>1, <1>2, UpTo
<1> QED  BY <1>3 DEF S

\* What FoldLeft chooses is that fold.
THEOREM FoldIs ==
  ASSUME NEW E, NEW s \in Seq(E), NEW base
  PROVE  \E g : IsFold(g, base, s, Len(s)) /\ Folded(base, s) = g[1..Len(s)]
<1> DEFINE G == CHOOSE g : IsFold(g, base, s, Len(s))
<1>1. Len(s) \in Nat /\ DOMAIN s = 1..Len(s)
  OBVIOUS
<1>2. IsFold(G, base, s, Len(s))
  BY <1>1, FoldExists
<1>3. Folded(base, s) = G[1..Len(s)]
  BY <1>1 DEF Folded, FoldLeft, MapThenFoldSet, IsFold
<1> HIDE DEF G
<1> QED  BY <1>2, <1>3

\* Two folds agree as far as the shorter sequence goes, if the sequences do.
LEMMA FoldsAgree ==
  ASSUME NEW s, NEW r, NEW base, NEW k \in Nat, NEW n \in Nat, k <= n,
         \A i \in 1..k : s[i] = r[i],
         NEW g, IsFold(g, base, s, k), NEW f, IsFold(f, base, r, n)
  PROVE  g[1..k] = f[1..k]
<1> DEFINE S == {i \in 0..k : g[1..i] = f[1..i]}
<1>a. IsFold(g, base, s, k) /\ k \in Nat
  OBVIOUS
<1>b. IsFold(f, base, r, n) /\ n \in Nat
  OBVIOUS
<1>g. \A j \in 1..k : g[1..j] = Op(g[1..(j - 1)], s[j])
  BY ONLY <1>a, FoldStep
<1>f. \A j \in 1..n : f[1..j] = Op(f[1..(j - 1)], r[j])
  BY ONLY <1>b, FoldStep
<1>1. 0 \in S
  <2>1. {} \in SUBSET (1..k) /\ {} \in SUBSET (1..n) /\ 1..0 = {}
    OBVIOUS
  <2>2. g[{}] = base /\ f[{}] = base
    BY <2>1 DEF IsFold
  <2> QED  BY <2>1, <2>2
<1>2. ASSUME NEW i \in 0..(k - 1), i \in S
      PROVE  i + 1 \in S
  <2>1. PICK j \in 1..k : j = i + 1
    OBVIOUS
  <2>2. j \in 1..k /\ j \in 1..n /\ j - 1 = i
    BY <2>1
  <2>3. g[1..j] = Op(g[1..(j - 1)], s[j])
    BY <1>g, <2>2
  <2>4. f[1..j] = Op(f[1..(j - 1)], r[j])
    BY <1>f, <2>2
  <2>5. g[1..i] = f[1..i]
    BY <1>2
  <2>6. g[1..j] = f[1..j] /\ j \in 0..k
    BY <2>1, <2>2, <2>3, <2>4, <2>5
  <2> QED  BY <2>1, <2>6
<1> HIDE DEF S
<1>3. k \in S
  BY <1>1, <1>2, UpTo
<1> QED  BY <1>3 DEF S

\* The fold of an empty sequence is the base.
THEOREM FoldOfNone == \A base : Folded(base, <<>>) = base
<1> SUFFICES ASSUME NEW base
             PROVE  Folded(base, <<>>) = base
  OBVIOUS
<1>1. <<>> \in Seq({}) /\ Len(<<>>) = 0
  OBVIOUS
<1>2. PICK g : IsFold(g, base, <<>>, 0) /\ Folded(base, <<>>) = g[1..0]
  BY <1>1, FoldIs
<1>3. 1..0 = {} /\ {} \in SUBSET (1..0)
  OBVIOUS
<1> QED  BY <1>2, <1>3 DEF IsFold

\* An element at the end is one more step.
LEMMA FoldOfAppend ==
  ASSUME NEW E, NEW s \in Seq(E), NEW x \in E, NEW base
  PROVE  Folded(base, Append(s, x)) = Op(Folded(base, s), x)
<1> DEFINE n == Len(s)
           r == Append(s, x)
<1>1. n \in Nat /\ r \in Seq(E) /\ Len(r) = n + 1 /\ r[n + 1] = x /\ \A i \in 1..n : s[i] = r[i]
  OBVIOUS
<1>2. PICK g : IsFold(g, base, s, n) /\ Folded(base, s) = g[1..n]
  BY FoldIs
<1> HIDE DEF r
<1>3. PICK f : IsFold(f, base, r, Len(r)) /\ Folded(base, r) = f[1..Len(r)]
  BY <1>1, FoldIs
<1>4. IsFold(f, base, r, n + 1) /\ Folded(base, r) = f[1..(n + 1)]
  BY <1>1, <1>3
<1>5. g[1..n] = f[1..n]
  <2> DEFINE m == n + 1
  <2>1. /\ n \in Nat /\ m \in Nat /\ n <= m /\ \A i \in 1..n : s[i] = r[i]
        /\ IsFold(g, base, s, n) /\ IsFold(f, base, r, m)
    BY <1>1, <1>2, <1>4
  <2> HIDE DEF n, m
  <2> QED  BY ONLY <2>1, FoldsAgree
<1>6. f[1..(n + 1)] = Op(f[1..((n + 1) - 1)], r[n + 1])
  BY <1>1, <1>4, FoldStep
<1>7. (n + 1) - 1 = n
  BY <1>1
<1> QED  BY <1>1, <1>2, <1>4, <1>5, <1>6, <1>7 DEF r
=============================================================================

--------------------------- MODULE FoldInduction ---------------------------
(***************************************************************************)
(* Induction over data for the proofs of the components.  The induction    *)
(* theorems of the library take the statement as an operator, which the    *)
(* provers cannot instantiate; here the statement is a set Good of what it *)
(* is true of, and the argument is by a least counterexample.              *)
(*                                                                         *)
(* A fold of the community modules is a function that is chosen among the  *)
(* solutions of a recursive equation over the subsets of the domain.  That *)
(* there is a solution is what has to be proved of it.                     *)
(***************************************************************************)
EXTENDS FiniteSetsExt, FiniteSetTheorems, TLAPS

-----------------------------------------------------------------------------
(* Induction.                                                              *)

(* Over the subsets of a finite set: what is true of a set when it is true *)
(* of its proper subsets is true of all.                                   *)
LEMMA SubsetInduction ==
    ASSUME NEW D, IsFiniteSet(D), NEW Good,
           \A s \in SUBSET D :
             (\A t \in SUBSET s : t # s => t \in Good) => s \in Good
    PROVE  SUBSET D \subseteq Good
  <1> DEFINE Bad == (SUBSET D) \ Good
             R == StrictSubsetOrdering(D)
  <1> SUFFICES ASSUME Bad # {} PROVE FALSE
    OBVIOUS
  <1>1. IsWellFoundedOn(R, SUBSET D)
    <2>1. IsWellFoundedOn(R, FiniteSubsetsOf(D))
      BY FS_StrictSubsetOrderingWellFounded
    <2>2. FiniteSubsetsOf(D) = SUBSET D
      BY FS_FiniteSubsetsOfFinite
    <2> QED
      BY <2>1, <2>2
  <1>2. PICK s \in Bad : \A t \in Bad : <<t, s>> \notin R
    <2> HIDE DEF R
    <2>1. Bad \subseteq SUBSET D
      OBVIOUS
    <2> HIDE DEF Bad
    <2> QED
      BY <1>1, <2>1, WFMin
  <1>3. \A t \in SUBSET s : t # s => t \in Good
    BY <1>2 DEF StrictSubsetOrdering
  <1> QED
    BY <1>2, <1>3

(* Over the natural numbers.                                               *)
LEMMA NatInductionSet ==
    ASSUME NEW Good, 0 \in Good, \A n \in Nat : n \in Good => n + 1 \in Good
    PROVE  Nat \subseteq Good
  <1> DEFINE Bad == Nat \ Good
             R == OpToRel(<, Nat)
  <1> SUFFICES ASSUME Bad # {} PROVE FALSE
    OBVIOUS
  <1>1. IsWellFoundedOn(R, Nat)
    BY NatLessThanWellFounded
  <1>2. PICK n \in Bad : \A m \in Bad : <<m, n>> \notin R
    <2> HIDE DEF R
    <2>1. Bad \subseteq Nat
      OBVIOUS
    <2> HIDE DEF Bad
    <2> QED
      BY <1>1, <2>1, WFMin
  <1>3. \A m \in Bad : ~(m < n)
    <2>1. \A m \in Nat : m < n => <<m, n>> \in R
      BY DEF OpToRel
    <2> HIDE DEF R
    <2> QED
      BY <1>2, <2>1
  <1> HIDE DEF R
  <1>4. n # 0 /\ n - 1 \in Nat
    OBVIOUS
  <1> QED
    BY <1>3, <1>4

(* Over the numbers up to n.                                               *)
LEMMA UptoInduction ==
    ASSUME NEW n \in Nat, NEW Good, 0 \in Good,
           \A k \in 1..n : k - 1 \in Good => k \in Good
    PROVE  \A k \in 0..n : k \in Good
  <1> DEFINE All == {k \in Nat : k <= n => k \in Good}
  <1>1. 0 \in All
    OBVIOUS
  <1>2. ASSUME NEW k \in Nat, k \in All PROVE k + 1 \in All
    <2>1. CASE k + 1 <= n
      <3>1. k + 1 \in 1..n /\ (k + 1) - 1 = k /\ k \in Good
        BY <1>2, <2>1
      <3> QED
        BY <3>1
    <2> QED
      BY <2>1
  <1> HIDE DEF All
  <1>3. Nat \subseteq All
    BY <1>1, <1>2, NatInductionSet
  <1> QED
    BY <1>3 DEF All

-----------------------------------------------------------------------------
(* Folds over a finite set.                                                *)

(* it folds every subset of D: an element ch[s] is chosen and combined by  *)
(* op with what the rest of s folds to.                                    *)
FoldOf(it, D, base, op, ch) ==
    it = [s \in SUBSET D |->
            IF s = {} THEN base ELSE op[<<ch[s], it[s \ {ch[s]}]>>]]

(* Such a function exists, whatever op is and whatever is chosen.          *)
LEMMA FoldExists ==
    ASSUME NEW D, IsFiniteSet(D), NEW V, NEW base \in V,
           NEW op \in [D \X V -> V], NEW ch,
           \A s \in SUBSET D : s # {} => ch[s] \in s
    PROVE  \E it \in [SUBSET D -> V] : FoldOf(it, D, base, op, ch)
  <1> DEFINE Step(f, s) ==
               IF s = {} THEN base ELSE op[<<ch[s], f[s \ {ch[s]}]>>]
             Upto(f, n) ==
               \A s \in SUBSET D : Cardinality(s) <= n => f[s] = Step(f, s)
             Good == {n \in Nat : \E f \in [SUBSET D -> V] : Upto(f, n)}
  <1>1. \A s \in SUBSET D : IsFiniteSet(s) /\ Cardinality(s) \in Nat
    BY FS_Subset, FS_CardinalityType
  <1>2. ASSUME NEW f \in [SUBSET D -> V], NEW s \in SUBSET D
        PROVE  Step(f, s) \in V
    <2>1. CASE s # {}
      <3>1. ch[s] \in D /\ f[s \ {ch[s]}] \in V
        BY <2>1
      <3> QED
        BY <2>1, <3>1
    <2> QED
      BY <2>1
  <1>3. 0 \in Good
    <2> DEFINE f == [s \in SUBSET D |-> base]
    <2>1. f \in [SUBSET D -> V]
      OBVIOUS
    <2>2. Upto(f, 0)
      BY <1>1, FS_EmptySet
    <2> QED
      BY <2>1, <2>2
  <1>4. ASSUME NEW n \in Nat, n \in Good
        PROVE  n + 1 \in Good
    <2>1. PICK f \in [SUBSET D -> V] : Upto(f, n)
      BY <1>4
    <2> DEFINE g == [s \in SUBSET D |-> Step(f, s)]
    <2>2. g \in [SUBSET D -> V]
      BY <1>2
    <2>3. ASSUME NEW s \in SUBSET D, Cardinality(s) <= n + 1
          PROVE  g[s] = Step(g, s)
      <3>1. CASE s = {}
        BY <3>1
      <3>2. CASE s # {}
        <4> DEFINE t == s \ {ch[s]}
        <4>1. ch[s] \in s /\ t \in SUBSET D
          BY <3>2
        <4>2. Cardinality(t) <= n
          BY <1>1, <2>3, <4>1, FS_RemoveElement
        <4>3. f[t] = Step(f, t)
          BY <2>1, <4>1, <4>2
        <4>4. g[t] = f[t]
          BY <4>1, <4>3
        <4> QED
          BY <3>2, <4>1, <4>4
      <3> QED
        BY <3>1, <3>2
    <2>4. Upto(g, n + 1)
      BY <2>3
    <2> HIDE DEF g, Upto
    <2> QED
      BY <2>2, <2>4
  <1>5. Nat \subseteq Good
    <2> HIDE DEF Good
    <2> QED
      BY <1>3, <1>4, NatInductionSet
  <1>6. PICK f \in [SUBSET D -> V] : Upto(f, Cardinality(D))
    <2>1. Cardinality(D) \in Good
      BY <1>1, <1>5
    <2> QED
      BY <2>1
  <1>7. ASSUME NEW s \in SUBSET D PROVE f[s] = Step(f, s)
    <2>1. Cardinality(s) <= Cardinality(D)
      BY FS_Subset
    <2> QED
      BY <1>6, <2>1
  <1>8. f = [s \in SUBSET D |-> Step(f, s)]
    BY <1>7
  <1> QED
    BY <1>8 DEF FoldOf

-----------------------------------------------------------------------------
(* Folds from the left over a sequence, which take the greatest index of a *)
(* set of indices first.                                                   *)

(* So what is made of 1..k comes from what was made of 1..k-1.             *)
LEMMA TopOfPrefix ==
    ASSUME NEW k \in Nat \ {0}
    PROVE  Max(1..k) = k /\ 1..k # {} /\ (1..k) \ {k} = 1..(k - 1)
  <1>1. \A y \in 1..k : k >= y
    OBVIOUS
  <1>2. k \in 1..k
    OBVIOUS
  <1>3. Max(1..k) \in 1..k /\ \A y \in 1..k : Max(1..k) >= y
    BY <1>1, <1>2, Zenon DEF Max
  <1> QED
    BY <1>3

(* A set of numbers up to n has a greatest element.                        *)
LEMMA MaxIsIn ==
    ASSUME NEW n \in Nat, NEW s \in SUBSET (0..n), s # {}
    PROVE  Max(s) \in s /\ \A y \in s : Max(s) >= y
  <1>1. \E m \in s : \A y \in s : m >= y
    <2> DEFINE Good == {k \in Nat : \A t \in SUBSET s :
                          (t # {} /\ t \subseteq 0..k) =>
                             \E m \in t : \A y \in t : m >= y}
    <2>1. 0 \in Good
      <3>1. ASSUME NEW t \in SUBSET s, t # {}, t \subseteq 0..0
            PROVE  \E m \in t : \A y \in t : m >= y
        <4>1. \A y \in 0..0 : y = 0
          OBVIOUS
        <4>2. \A y \in t : y = 0
          BY <3>1, <4>1
        <4>3. PICK m \in t : TRUE
          BY <3>1
        <4>4. \A y \in t : m >= y
          BY <4>2
        <4> QED
          BY <4>4
      <3> QED
        BY <3>1
    <2>2. ASSUME NEW k \in Nat, k \in Good PROVE k + 1 \in Good
      <3>1. ASSUME NEW t \in SUBSET s, t # {}, t \subseteq 0..(k + 1)
            PROVE  \E m \in t : \A y \in t : m >= y
        <4>1. CASE k + 1 \in t
          BY <3>1, <4>1
        <4>2. CASE k + 1 \notin t
          <5>1. t \subseteq 0..k
            BY <3>1, <4>2
          <5> QED
            BY <2>2, <3>1, <5>1
        <4> QED
          BY <4>1, <4>2
      <3> QED
        BY <3>1
    <2>3. n \in Good
      <3> HIDE DEF Good
      <3> QED
        BY <2>1, <2>2, NatInductionSet
    <2> QED
      BY <2>3
  <1> QED
    BY <1>1, Zenon DEF Max

(* The recursive equation of a fold from the left of n elements, as far as *)
(* the values stay in V.                                                   *)
FoldsLeft(it, n, V, base, op) ==
    /\ it[{}] = base
    /\ \A s \in SUBSET (1..n) :
         (s # {} /\ it[s \ {Max(s)}] \in V) =>
           it[s] = op[<<Max(s), it[s \ {Max(s)}]>>]

(* The values it takes on the prefixes are a run of op from base.          *)
HasRun(it, n, V, base, op) ==
    \E h \in [0..n -> V] :
      /\ h[0] = base /\ h[n] = it[1..n]
      /\ \A k \in 1..n : h[k] = op[<<k, h[k - 1]>>]

LEMMA LeftFold ==
    ASSUME NEW n \in Nat, NEW V, NEW base \in V, NEW op \in [(1..n) \X V -> V],
           NEW it, FoldsLeft(it, n, V, base, op)
    PROVE  HasRun(it, n, V, base, op)
  <1> DEFINE h == [k \in 0..n |-> it[1..k]]
  <1>1. h[0] = base
    <2>1. 1..0 = {}
      OBVIOUS
    <2> QED
      BY <2>1 DEF FoldsLeft
  <1>2. ASSUME NEW k \in 1..n, h[k - 1] \in V PROVE h[k] = op[<<k, h[k - 1]>>]
    <2>1. k - 1 \in 0..n /\ k \in 0..n /\ 1..k \in SUBSET (1..n)
      OBVIOUS
    <2>2. Max(1..k) = k /\ 1..k # {} /\ (1..k) \ {k} = 1..(k - 1)
      <3>1. k \in Nat \ {0}
        OBVIOUS
      <3> QED
        BY <3>1, TopOfPrefix
    <2>3. it[1..(k - 1)] \in V
      BY <1>2, <2>1
    <2>4. it[1..k] = op[<<k, it[1..(k - 1)]>>]
      BY <2>1, <2>2, <2>3 DEF FoldsLeft
    <2> QED
      BY <2>1, <2>4
  <1> HIDE DEF h
  <1>3. \A k \in 0..n : h[k] \in V
    <2> DEFINE Good == {k \in 0..n : h[k] \in V}
    <2>1. 0 \in Good
      BY <1>1
    <2>2. ASSUME NEW k \in 1..n, k - 1 \in Good PROVE k \in Good
      <3>1. h[k - 1] \in V /\ k \in 0..n
        BY <2>2
      <3>2. h[k] = op[<<k, h[k - 1]>>]
        BY <1>2, <3>1
      <3> QED
        BY <3>1, <3>2
    <2> HIDE DEF Good
    <2>3. \A k \in 0..n : k \in Good
      BY <2>1, <2>2, UptoInduction
    <2> QED
      BY <2>3 DEF Good
  <1>4. h \in [0..n -> V] /\ h[n] = it[1..n]
    <2>1. n \in 0..n
      OBVIOUS
    <2> QED
      BY <1>3, <2>1 DEF h
  <1>5. \A k \in 1..n : k - 1 \in 0..n
    OBVIOUS
  <1> QED
    BY <1>1, <1>2, <1>3, <1>4, <1>5 DEF HasRun

(* A solution of the equation that stays in V ...                          *)
SolvesLeft(it, n, V, base, op) ==
    /\ it[{}] = base
    /\ \A s \in SUBSET (1..n) : s # {} =>
         /\ Max(s) \in 1..n /\ it[s \ {Max(s)}] \in V
         /\ it[s] = op[<<Max(s), it[s \ {Max(s)}]>>]

(* ... exists for every op that does.                                      *)
LEMMA LeftFoldExists ==
    ASSUME NEW n \in Nat, NEW V, NEW base \in V, NEW op \in [(1..n) \X V -> V]
    PROVE  \E it \in [SUBSET (1..n) -> V] : SolvesLeft(it, n, V, base, op)
  <1> DEFINE ch == [s \in SUBSET (1..n) |-> Max(s)]
  <1>1. IsFiniteSet(1..n)
    BY FS_Interval
  <1>2. \A s \in SUBSET (1..n) : s # {} => ch[s] \in s
    <2>1. SUBSET (1..n) \subseteq SUBSET (0..n)
      OBVIOUS
    <2> QED
      BY <2>1, MaxIsIn
  <1>3. PICK it \in [SUBSET (1..n) -> V] : FoldOf(it, 1..n, base, op, ch)
    <2> HIDE DEF ch
    <2> QED
      BY <1>1, <1>2, FoldExists
  <1>4. it = [s \in SUBSET (1..n) |->
                IF s = {} THEN base ELSE op[<<ch[s], it[s \ {ch[s]}]>>]]
    BY <1>3 DEF FoldOf
  <1>5. \A s \in SUBSET (1..n) : ch[s] = Max(s)
    OBVIOUS
  <1> HIDE DEF ch
  <1>6. it[{}] = base
    BY <1>4
  <1>7. ASSUME NEW s \in SUBSET (1..n), s # {}
        PROVE  /\ Max(s) \in 1..n /\ it[s \ {Max(s)}] \in V
               /\ it[s] = op[<<Max(s), it[s \ {Max(s)}]>>]
    <2>1. Max(s) \in s
      BY <1>2, <1>5, <1>7
    <2> QED
      BY <1>4, <1>5, <1>7, <2>1
  <1>8. SolvesLeft(it, n, V, base, op)
    BY <1>6, <1>7 DEF SolvesLeft
  <1> QED
    BY <1>8

=============================================================================

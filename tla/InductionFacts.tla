----------------------------- MODULE InductionFacts -----------------------------
(***************************************************************************)
(* Induction over numbers, stated about sets: the finite sets are well     *)
(* founded, hence the numbers, hence every nonempty set of numbers has a   *)
(* least one.  From this follow what the other proofs use: induction up to *)
(* a bound, the largest element of a finite set, and that a function       *)
(* defined by recursion over an interval exists.                           *)
(***************************************************************************)
EXTENDS Integers, FiniteSets, FiniteSetTheorems, WellFoundedInduction, TLAPS

\* The numbers up to a number are a finite set.
LEMMA BelowIsFinite ==
  ASSUME NEW n \in Nat
  PROVE  0..n \in FiniteSubsetsOf(Nat)
<1>1. n \in Int /\ 0 \in Int /\ 0..n \in SUBSET Nat
  OBVIOUS
<1>2. IsFiniteSet(0..n)
  BY <1>1, FS_Interval
<1> QED
  BY <1>1, <1>2 DEF FiniteSubsetsOf

\* A nonempty set of numbers has a least element: of the intervals up to its
\* elements one holds no other.
LEMMA LeastNumber ==
  ASSUME NEW T \in SUBSET Nat, T # {}
  PROVE  \E m \in T : \A k \in T : m <= k
<1> DEFINE intervals == {0..n : n \in T}
<1>1. IsWellFoundedOn(StrictSubsetOrdering(Nat), FiniteSubsetsOf(Nat))
  BY FS_StrictSubsetOrderingWellFounded
<1>2. intervals \subseteq FiniteSubsetsOf(Nat) /\ intervals # {}
  BY BelowIsFinite
<1>3. PICK x \in intervals : \A y \in intervals : ~ (<<y, x>> \in StrictSubsetOrdering(Nat))
  BY <1>1, <1>2, WFMin
<1>4. PICK m \in T : x = 0..m
  BY <1>3
<1>5. ASSUME NEW k \in T, k < m
      PROVE  FALSE
  <2>1. 0..k \in SUBSET (0..m) /\ 0..k # 0..m /\ 0..k \in intervals
    BY <1>5
  <2>2. <<0..k, 0..m>> \in StrictSubsetOrdering(Nat)
    BY <2>1, BelowIsFinite DEF StrictSubsetOrdering, FiniteSubsetsOf
  <2> QED
    BY <1>3, <1>4, <2>1, <2>2
<1> QED
  BY <1>5

\* Induction up to a bound.
LEMMA InductionUpTo ==
  ASSUME NEW n \in Nat, NEW S, 0 \in S, \A i \in 0..(n - 1) : i \in S => i + 1 \in S
  PROVE  0..n \subseteq S
<1> DEFINE missing == {i \in 0..n : i \notin S}
<1> SUFFICES ASSUME missing # {} PROVE FALSE
  OBVIOUS
<1>1. missing \in SUBSET Nat
  OBVIOUS
<1>2. PICK m \in missing : \A k \in missing : m <= k
  BY <1>1, LeastNumber
<1>3. m \in 0..n /\ m \notin S /\ m # 0 /\ m - 1 \in 0..(n - 1)
  BY <1>2
<1>4. m - 1 \in S
  BY <1>2, <1>3
<1> QED
  BY <1>3, <1>4

\* A nonempty finite set of integers has a largest element.
LEMMA LargestNumber ==
  ASSUME NEW T \in SUBSET Int, IsFiniteSet(T), T # {}
  PROVE  \E m \in T : \A k \in T : k <= m
<1> DEFINE HasLargest(U) == U # {} => \E m \in U : \A k \in U : k <= m
           sizes == {n \in Nat : \A U \in SUBSET T : Cardinality(U) = n => HasLargest(U)}
<1>1. 0 \in sizes
  <2>1. ASSUME NEW U \in SUBSET T, Cardinality(U) = 0 PROVE U = {}
    BY <2>1, FS_Subset, FS_EmptySet
  <2> QED
    BY <2>1
<1>2. ASSUME NEW n \in Nat, n \in sizes
      PROVE  n + 1 \in sizes
  <2> SUFFICES ASSUME NEW U \in SUBSET T, Cardinality(U) = n + 1, U # {}
               PROVE  \E m \in U : \A k \in U : k <= m
    OBVIOUS
  <2>1. PICK x \in U : TRUE
    OBVIOUS
  <2>2. IsFiniteSet(U)
    BY FS_Subset
  <2>3. Cardinality(U \ {x}) = n
    <3>1. Cardinality(U \ {x}) = Cardinality(U) - 1
      BY <2>1, <2>2, FS_RemoveElement
    <3> QED
      BY <3>1
  <2>4. U \ {x} \in SUBSET T
    OBVIOUS
  <2> DEFINE rest == U \ {x}
  <2>5. HasLargest(rest)
    <3> HIDE DEF rest, HasLargest
    <3>1. rest \in SUBSET T /\ Cardinality(rest) = n
      BY <2>3, <2>4 DEF rest
    <3> QED
      BY <1>2, <3>1
  <2>6. CASE U \ {x} = {}
    BY <2>1, <2>6
  <2>7. CASE U \ {x} # {}
    <3>1. PICK m \in U \ {x} : \A k \in U \ {x} : k <= m
      BY <2>5, <2>7
    <3>2. x \in Int /\ m \in Int /\ U \subseteq Int
      BY <2>1, <3>1
    <3>3. CASE x <= m
      BY <3>1, <3>2, <3>3
    <3>4. CASE m <= x
      BY <2>1, <3>1, <3>2, <3>4
    <3> QED
      BY <3>2, <3>3, <3>4
  <2> QED
    BY <2>6, <2>7
<1>3. Cardinality(T) \in Nat
  BY FS_CardinalityType
<1> HIDE DEF sizes
<1>4. 0..Cardinality(T) \subseteq sizes
  BY <1>1, <1>2, <1>3, InductionUpTo
<1>5. Cardinality(T) \in sizes
  BY <1>3, <1>4
<1> QED
  BY <1>5 DEF sizes

\* A function defined by recursion over an interval exists: given its first value,
\* and what each next one is made of.
LEMMA RecursionExists ==
  ASSUME NEW n \in Nat, NEW V, NEW base \in V, NEW step \in [(1..n) \X V -> V]
  PROVE  \E f \in [0..n -> V] : f[0] = base /\ \A i \in 1..n : f[i] = step[<<i, f[i - 1]>>]
<1> DEFINE Follows(f, k) == f[0] = base /\ \A i \in 1..k : f[i] = step[<<i, f[i - 1]>>]
           lengths == {k \in 0..n : \E f \in [0..k -> V] : Follows(f, k)}
<1>1. 0 \in lengths
  <2> DEFINE f == [i \in 0..0 |-> base]
  <2>1. f \in [0..0 -> V] /\ Follows(f, 0)
    OBVIOUS
  <2> HIDE DEF f, Follows
  <2>2. \E h \in [0..0 -> V] : Follows(h, 0)
    BY <2>1
  <2> QED
    BY <2>2
<1>2. ASSUME NEW k \in 0..(n - 1), k \in lengths
      PROVE  k + 1 \in lengths
  <2>1. PICK f \in [0..k -> V] : Follows(f, k)
    <3> HIDE DEF Follows
    <3> QED
      BY <1>2
  <2> DEFINE g == [i \in 0..(k + 1) |-> IF i = k + 1 THEN step[<<k + 1, f[k]>>] ELSE f[i]]
  <2>2. f[k] \in V /\ k + 1 \in 1..n
    BY <2>1
  <2>3. <<k + 1, f[k]>> \in (1..n) \X V
    BY <2>2
  <2>4. g \in [0..(k + 1) -> V]
    BY <2>1, <2>3
  <2>5. g[0] = base /\ g[k + 1] = step[<<k + 1, g[k]>>]
    <3>1. 0 \in 0..(k + 1) /\ k \in 0..(k + 1) /\ k + 1 \in 0..(k + 1) /\ 0 # k + 1 /\ k # k + 1
      OBVIOUS
    <3>2. g[0] = f[0] /\ g[k] = f[k] /\ g[k + 1] = step[<<k + 1, f[k]>>]
      BY <3>1
    <3>3. f[0] = base
      BY <2>1
    <3> QED
      BY <3>2, <3>3
  <2>6. ASSUME NEW i \in 1..k PROVE g[i] = step[<<i, g[i - 1]>>]
    <3>1. g[i] = f[i] /\ g[i - 1] = f[i - 1]
      OBVIOUS
    <3> QED
      BY <2>1, <3>1
  <2>7. Follows(g, k + 1)
    <3> HIDE DEF g
    <3>1. \A i \in 1..(k + 1) : i = k + 1 \/ i \in 1..k
      OBVIOUS
    <3>2. ASSUME NEW i \in 1..(k + 1) PROVE g[i] = step[<<i, g[i - 1]>>]
      <4>1. CASE i = k + 1
        BY <2>5, <4>1
      <4>2. CASE i \in 1..k
        BY <2>6, <4>2
      <4> QED
        BY <3>1, <4>1, <4>2
    <3> QED
      BY <2>5, <3>2
  <2> HIDE DEF g, Follows
  <2>8. \E h \in [0..(k + 1) -> V] : Follows(h, k + 1)
    BY <2>4, <2>7
  <2> QED
    BY <2>8
<1> HIDE DEF Follows
<1>3. n \in lengths
  <2> HIDE DEF lengths
  <2>1. 0..n \subseteq lengths
    BY <1>1, <1>2, InductionUpTo
  <2> QED
    BY <2>1
<1> QED
  BY <1>3 DEF Follows
===============================================================================

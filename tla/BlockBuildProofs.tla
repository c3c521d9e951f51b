---------------------------- MODULE BlockBuildProofs ----------------------------
(***************************************************************************)
(* Theorems about BlockBuild, for every value of its constants: any        *)
(* actions, any answers that fail, any sampling.                           *)
(***************************************************************************)
EXTENDS BlockBuild, FiniteSetTheorems, SequenceTheorems, InductionFacts, TLAPS

\* The parent of the block in hand is the block sent last, and the payload that is
\* about to be sent names it.
LinkInv ==
  /\ num \in Nat
  /\ sent.num = num - 1
  /\ sent.payload.hash = parent
  /\ pc = "finish" => payload.parent = parent

\* Whatever a recovered payload holds, its parent is our own.
LEMMA FetchedNamesParent ==
  ASSUME NEW p \in Fetched
  PROVE  p.parent = parent
BY DEF Fetched

\* So does a block built from the traces.
LEMMA BuiltNamesParent == Built.parent = parent
BY DEF Built

\* The first block is taken with nothing sent before it.
LEMMA LinkInit == Init => LinkInv
BY DEF Init, LinkInv, NoBlock, NoPayload

\* Only FinishBlock sends, and it hands its hash on as the next parent.
LEMMA LinkPreserved ==
  ASSUME LinkInv, [Next]_vars
  PROVE  LinkInv' /\ (sent' # sent => /\ sent'.payload.parent = sent.payload.hash
                                      /\ sent'.num = sent.num + 1)
<1>1. CASE TakeBlock
  BY <1>1 DEF TakeBlock, LinkInv
<1>2. CASE HandleAction
  BY <1>2 DEF HandleAction, HandleRaw, RawFails, HandleRawWithoutReceipt, HandleTransfer,
     HandleGasPrice, HandleRevision, HandleWallet, HandleOther, Handling, AddTransaction,
     ActionFails, LinkInv
<1>3. CASE RecoverBlock
  BY <1>3, FetchedNamesParent DEF RecoverBlock, LinkInv
<1>4. CASE BuildBlock
  BY <1>4, FetchedNamesParent, BuiltNamesParent DEF BuildBlock, UseBuilt, LinkInv
<1>5. CASE FinishBlock
  BY <1>5 DEF FinishBlock, LinkInv
<1>6. CASE UNCHANGED vars
  BY <1>6 DEF vars, work, LinkInv
<1> QED
  BY <1>1, <1>2, <1>3, <1>4, <1>5, <1>6 DEF Next

\* PayloadsLink: every block sent names the one sent before it, whatever was
\* recovered, left unchecked or different from the reference.
THEOREM BlocksLink == Spec => PayloadsLink
<1>1. LinkInv /\ [Next]_vars => LinkInv'
  BY LinkPreserved
<1>2. LinkInv /\ [Next]_vars =>
        [sent' # sent => /\ sent'.payload.parent = sent.payload.hash
                         /\ sent'.num = sent.num + 1]_vars
  BY LinkPreserved
<1> QED
  BY <1>1, <1>2, LinkInit, PTL DEF Spec, PayloadsLink

-------------------------------------------------------------------------------
(***************************************************************************)
(* Positions in order.                                                     *)
(***************************************************************************)

\* How many positions of a set are not behind one.
Rank(positions, i) == Cardinality({j \in positions : j <= i})

\* The largest of a finite set of numbers.
LEMMA MaxOf ==
  ASSUME NEW S \in SUBSET Int, IsFiniteSet(S), S # {}
  PROVE  Max(S) \in S /\ \A x \in S : x <= Max(S)
<1>1. PICK m \in S : \A k \in S : k <= m
  BY LargestNumber
<1>2. m \in S /\ \A y \in S : m >= y
  BY <1>1
<1> QED
  BY <1>2 DEF Max

\* The first positions are as many as their number.
LEMMA FirstPositions ==
  ASSUME NEW n \in Nat
  PROVE  IsFiniteSet(1..n) /\ Cardinality(1..n) = n
<1>1. 1 \in Int /\ n \in Int /\ n >= 0
  OBVIOUS
<1>2. IsFiniteSet(1..n) /\ Cardinality(1..n) = IF 1 > n THEN 0 ELSE n - 1 + 1
  BY <1>1, FS_Interval
<1> QED
  BY <1>1, <1>2

\* Ranks count the positions in order.
LEMMA Ranks ==
  ASSUME NEW S \in SUBSET Int, IsFiniteSet(S)
  PROVE  /\ Cardinality(S) \in Nat
         /\ \A i \in S : Rank(S, i) \in 1..Cardinality(S)
         /\ \A i, j \in S : i < j => Rank(S, i) < Rank(S, j)
<1> DEFINE upTo(i) == {j \in S : j <= i}
<1>0. Cardinality(S) \in Nat
  BY FS_CardinalityType
<1>1. ASSUME NEW i \in S
      PROVE  /\ IsFiniteSet(upTo(i)) /\ Rank(S, i) = Cardinality(upTo(i))
             /\ Cardinality(upTo(i)) \in 1..Cardinality(S)
  <2>1. upTo(i) \in SUBSET S /\ i \in upTo(i)
    OBVIOUS
  <2>2. Rank(S, i) = Cardinality(upTo(i))
    BY DEF Rank
  <2> HIDE DEF upTo
  <2>3. IsFiniteSet(upTo(i)) /\ Cardinality(upTo(i)) <= Cardinality(S)
    BY <2>1, FS_Subset
  <2>4. Cardinality(upTo(i)) \in Nat
    BY <2>3, FS_CardinalityType
  <2>5. Cardinality(upTo(i)) # 0
    BY <2>1, <2>3, FS_EmptySet
  <2> QED
    BY <1>0, <2>2, <2>3, <2>4, <2>5
<1>2. ASSUME NEW i \in S, NEW j \in S, i < j
      PROVE  Rank(S, i) < Rank(S, j)
  <2>0. i \in Int /\ j \in Int /\ \A k \in S : k \in Int
    OBVIOUS
  <2>1. upTo(i) \in SUBSET upTo(j) /\ j \in upTo(j) /\ j \notin upTo(i)
    <3>1. \A k \in S : k <= i => k <= j
      BY <1>2, <2>0
    <3>2. j <= j /\ ~(j <= i)
      BY <1>2, <2>0
    <3> QED
      BY <3>1, <3>2
  <2>2. upTo(i) # upTo(j)
    BY <2>1
  <2> HIDE DEF upTo
  <2>3. Cardinality(upTo(i)) <= Cardinality(upTo(j))
        /\ Cardinality(upTo(j)) # Cardinality(upTo(i))
    BY <1>1, <2>1, <2>2, FS_Subset
  <2> QED
    BY <1>0, <1>1, <2>3
<1> QED
  BY <1>0, <1>1, <1>2

\* Every rank is taken, once, by the position that Nth gives.
LEMMA NthHasRank ==
  ASSUME NEW S \in SUBSET Int, IsFiniteSet(S), NEW n \in 1..Cardinality(S)
  PROVE  /\ Nth(S, n) \in S /\ Rank(S, Nth(S, n)) = n
         /\ \A i \in S : Rank(S, i) = n => i = Nth(S, n)
<1> DEFINE rank == [i \in S |-> Rank(S, i)]
           c == Cardinality(S)
<1>1. c \in Nat /\ (\A i \in S : Rank(S, i) \in 1..c)
      /\ \A i, j \in S : i < j => Rank(S, i) < Rank(S, j)
  BY Ranks
<1>2. \A i, j \in S : Rank(S, i) = Rank(S, j) => i = j
  <2> SUFFICES ASSUME NEW i \in S, NEW j \in S, Rank(S, i) = Rank(S, j), i # j
               PROVE  FALSE
    OBVIOUS
  <2>1. i < j \/ j < i
    OBVIOUS
  <2> QED
    BY <1>1, <2>1
<1> HIDE DEF c
<1>3. rank \in Injection(S, 1..c)
  BY <1>1, <1>2 DEF Injection, IsInjective
<1>4. Cardinality(1..c) = c /\ IsFiniteSet(1..c)
  <2>1. 1 \in Int /\ c \in Int /\ c >= 0
    BY <1>1
  <2>2. IsFiniteSet(1..c) /\ Cardinality(1..c) = IF 1 > c THEN 0 ELSE c - 1 + 1
    BY <2>1, FS_Interval
  <2> QED
    BY <2>1, <2>2
<1>5. rank \in Surjection(S, 1..c)
  BY <1>3, <1>4, FS_Injection DEF c
<1>6. PICK i \in S : Rank(S, i) = n
  BY <1>5 DEF Surjection, c
<1>7. Nth(S, n) = CHOOSE k \in S : Rank(S, k) = n
  BY DEF Nth, Rank
<1>8. Nth(S, n) \in S /\ Rank(S, Nth(S, n)) = n
  BY <1>6, <1>7
<1> QED
  BY <1>2, <1>8

\* A position behind all others is the last one picked.
LEMMA OneMorePosition ==
  ASSUME NEW S \in SUBSET Int, IsFiniteSet(S), NEW k \in Int, \A i \in S : i < k
  PROVE  /\ IsFiniteSet(S \cup {k}) /\ Cardinality(S \cup {k}) = Cardinality(S) + 1
         /\ Cardinality(S) \in Nat
         /\ Nth(S \cup {k}, Cardinality(S) + 1) = k
         /\ \A n \in 1..Cardinality(S) : Nth(S \cup {k}, n) = Nth(S, n)
<1> DEFINE more == S \cup {k}
<1>0. Cardinality(S) \in Nat
  BY FS_CardinalityType
<1>1. IsFiniteSet(more) /\ Cardinality(more) = Cardinality(S) + 1 /\ more \in SUBSET Int
  <2>1. k \notin S
    OBVIOUS
  <2>2. IsFiniteSet(more)
        /\ Cardinality(more) = IF k \in S THEN Cardinality(S) ELSE Cardinality(S) + 1
    BY FS_AddElement
  <2> QED
    BY <2>1, <2>2
<1>2. Rank(more, k) = Cardinality(S) + 1
  <2>1. {j \in more : j <= k} = more
    <3>1. \A j \in more : j <= k
      OBVIOUS
    <3> QED
      BY <3>1
  <2> HIDE DEF more
  <2> QED
    BY <1>1, <2>1 DEF Rank
<1>3. \A i \in S : Rank(more, i) = Rank(S, i)
  <2>1. \A i \in S : {j \in more : j <= i} = {j \in S : j <= i}
    OBVIOUS
  <2> HIDE DEF more
  <2> QED
    BY <2>1 DEF Rank
<1>4. Nth(more, Cardinality(S) + 1) = k
  <2>1. k \in more /\ Cardinality(S) + 1 \in 1..Cardinality(more)
    BY <1>0, <1>1
  <2> HIDE DEF more
  <2>2. \A i \in more : Rank(more, i) = Cardinality(S) + 1 => i = Nth(more, Cardinality(S) + 1)
    BY <1>1, <2>1, NthHasRank
  <2> QED
    BY <1>2, <2>1, <2>2
<1>5. ASSUME NEW n \in 1..Cardinality(S)
      PROVE  Nth(more, n) = Nth(S, n)
  <2>1. Nth(S, n) \in S /\ Rank(S, Nth(S, n)) = n
    BY NthHasRank
  <2>2. Nth(S, n) \in more /\ n \in 1..Cardinality(more)
    BY <1>0, <1>1, <2>1
  <2>3. Rank(more, Nth(S, n)) = n
    BY <1>3, <2>1
  <2> HIDE DEF more
  <2>4. \A i \in more : Rank(more, i) = n => i = Nth(more, n)
    BY <1>1, <2>2, NthHasRank
  <2> QED
    BY <2>2, <2>3, <2>4
<1> QED
  BY <1>0, <1>1, <1>4, <1>5

\* Positions below a bound are finitely many, and Nth gives one of them.
LEMMA PositionsAreFinite ==
  ASSUME NEW n \in Nat, NEW S \in SUBSET (1..n)
  PROVE  /\ IsFiniteSet(S) /\ Cardinality(S) \in 0..n
         /\ \A m \in 1..Cardinality(S) : Nth(S, m) \in S
<1>1. IsFiniteSet(1..n) /\ Cardinality(1..n) = n
  BY FirstPositions
<1>2. IsFiniteSet(S) /\ Cardinality(S) <= n /\ Cardinality(S) \in Nat
  <2>1. IsFiniteSet(S) /\ Cardinality(S) <= Cardinality(1..n)
    BY <1>1, FS_Subset
  <2>2. Cardinality(S) \in Nat
    BY <2>1, FS_CardinalityType
  <2> QED
    BY <1>1, <2>1, <2>2
<1>3. \A m \in 1..Cardinality(S) : Nth(S, m) \in S
  BY <1>2, NthHasRank
<1> QED
  BY <1>2, <1>3

\* What is picked is a sequence of elements that stand at the positions.
LEMMA PickedIsSequence ==
  ASSUME NEW V, NEW s \in Seq(V), NEW S \in SUBSET (1..Len(s))
  PROVE  /\ Picked(s, S) \in Seq(V) /\ Len(Picked(s, S)) = Cardinality(S)
         /\ IsFiniteSet(S) /\ Cardinality(S) \in 0..Len(s)
         /\ \A m \in 1..Cardinality(S) :
              Nth(S, m) \in 1..Len(s) /\ Picked(s, S)[m] = s[Nth(S, m)]
<1>1. Len(s) \in Nat /\ s \in [1..Len(s) -> V]
  BY LenProperties
<1>2. IsFiniteSet(S) /\ Cardinality(S) \in 0..Len(s) /\ \A m \in 1..Cardinality(S) : Nth(S, m) \in S
  BY <1>1, PositionsAreFinite
<1>3. Picked(s, S) \in [1..Cardinality(S) -> V]
      /\ \A m \in 1..Cardinality(S) : Picked(s, S)[m] = s[Nth(S, m)]
  BY <1>1, <1>2 DEF Picked
<1>4. Cardinality(S) \in Nat
  BY <1>1, <1>2
<1>5. Picked(s, S) \in Seq(V)
  BY <1>3, <1>4, SeqDef
<1>6. Len(Picked(s, S)) = Cardinality(S)
  BY <1>3, <1>4, <1>5, LenProperties
<1> QED
  BY <1>2, <1>3, <1>5, <1>6

\* A position behind the others adds its element at the end.
LEMMA PickedAppends ==
  ASSUME NEW V, NEW s \in Seq(V), NEW S \in SUBSET (1..Len(s)), NEW k \in 1..Len(s),
         \A i \in S : i < k
  PROVE  Picked(s, S \cup {k}) = Append(Picked(s, S), s[k])
<1>0. Len(s) \in Nat /\ s[k] \in V
  BY LenProperties, ElementOfSeq
<1>1. /\ Picked(s, S) \in Seq(V) /\ Len(Picked(s, S)) = Cardinality(S) /\ IsFiniteSet(S)
      /\ \A m \in 1..Cardinality(S) : Picked(s, S)[m] = s[Nth(S, m)]
  BY PickedIsSequence
<1> DEFINE more == S \cup {k}
           a == Picked(s, more)
           b == Append(Picked(s, S), s[k])
<1>2. /\ Cardinality(more) = Cardinality(S) + 1 /\ Cardinality(S) \in Nat
      /\ Nth(more, Cardinality(S) + 1) = k
      /\ \A m \in 1..Cardinality(S) : Nth(more, m) = Nth(S, m)
  <2>1. S \in SUBSET Int /\ k \in Int
    BY <1>0
  <2> QED
    BY <1>1, <2>1, OneMorePosition
<1>3. more \in SUBSET (1..Len(s))
  OBVIOUS
<1> HIDE DEF more
<1>4. /\ a \in Seq(V) /\ Len(a) = Cardinality(S) + 1
      /\ \A m \in 1..Cardinality(more) : a[m] = s[Nth(more, m)]
  BY <1>2, <1>3, PickedIsSequence
<1>5. /\ b \in Seq(V) /\ Len(b) = Cardinality(S) + 1 /\ b[Cardinality(S) + 1] = s[k]
      /\ \A m \in 1..Cardinality(S) : b[m] = Picked(s, S)[m]
  BY <1>0, <1>1, AppendProperties
<1> HIDE DEF a, b
<1>6. \A m \in 1..Len(a) : a[m] = b[m]
  <2> SUFFICES ASSUME NEW m \in 1..Len(a) PROVE a[m] = b[m]
    OBVIOUS
  <2>1. CASE m = Cardinality(S) + 1
    BY <1>2, <1>4, <1>5, <2>1
  <2>2. CASE m \in 1..Cardinality(S)
    BY <1>1, <1>2, <1>4, <1>5, <2>2
  <2> QED
    BY <1>2, <1>4, <2>1, <2>2
<1> QED
  BY <1>4, <1>5, <1>6, SeqEqual DEF a, b, more

\* All positions are picked in their own order.
LEMMA AllPicked ==
  ASSUME NEW V, NEW s \in Seq(V), NEW S, S = 1..Len(s)
  PROVE  Picked(s, S) = s
<1> DEFINE n == Len(s)
<1>1. n \in Nat /\ S \in SUBSET (1..n) /\ S \in SUBSET Int
  BY LenProperties
<1>2. IsFiniteSet(S) /\ Cardinality(S) = n
  BY <1>1, FirstPositions
<1>3. Picked(s, S) \in Seq(V) /\ Len(Picked(s, S)) = n
      /\ \A m \in 1..n : Picked(s, S)[m] = s[Nth(S, m)]
  BY <1>1, <1>2, PickedIsSequence
<1>4. ASSUME NEW m \in 1..n
      PROVE  Nth(S, m) = m
  <2>1. {j \in S : j <= m} = 1..m /\ m \in Nat /\ m \in S
    BY <1>1
  <2>2. Rank(S, m) = m
    BY <2>1, FirstPositions DEF Rank
  <2> HIDE DEF n
  <2> QED
    BY <1>1, <1>2, <2>1, <2>2, NthHasRank
<1> QED
  BY <1>3, <1>4, SeqEqual

-------------------------------------------------------------------------------
(***************************************************************************)
(* The block on the reference chain.                                       *)
(***************************************************************************)

\* The actions of the block in hand.
ScriptInv == script \in Seq(Kinds) /\ Len(script) <= MaxActions

\* Every transaction uses, and may use, a few units of gas.
LEMMA GasOfKinds ==
  ASSUME NEW kind
  PROVE  GasUsed(kind) \in 1..2 /\ GasLimit(kind) \in 1..3
<1>1. GasUsed(kind) \in 1..2
  BY DEF GasUsed
<1>2. CASE kind = "raw"
  BY <1>1, <1>2 DEF GasLimit
<1>3. CASE kind = "unsigned"
  BY <1>1, <1>3 DEF GasLimit
<1>4. CASE kind # "raw" /\ kind # "unsigned"
  BY <1>1, <1>4 DEF GasLimit
<1> QED
  BY <1>2, <1>3, <1>4

\* The transactions before an action, and before the next one.
LEMMA TransactionsInOrder ==
  ASSUME NEW actions, NEW i \in Nat \ {0}
  PROVE  /\ TransactionsBefore(actions, i) \in SUBSET (1..(i - 1))
         /\ IsFiniteSet(TransactionsBefore(actions, i))
         /\ Cardinality(TransactionsBefore(actions, i)) \in 0..(i - 1)
         /\ IsTransaction(actions[i]) =>
              TransactionsBefore(actions, i + 1) = TransactionsBefore(actions, i) \cup {i}
         /\ ~IsTransaction(actions[i]) =>
              TransactionsBefore(actions, i + 1) = TransactionsBefore(actions, i)
<1>1. TransactionsBefore(actions, i) \in SUBSET (1..(i - 1))
  BY DEF TransactionsBefore
<1>2. IsFiniteSet(1..(i - 1)) /\ Cardinality(1..(i - 1)) = i - 1
  <2>1. i - 1 \in Nat
    OBVIOUS
  <2> QED
    BY <2>1, FirstPositions
<1>3. IsFiniteSet(TransactionsBefore(actions, i))
      /\ Cardinality(TransactionsBefore(actions, i)) <= i - 1
  BY <1>1, <1>2, FS_Subset
<1>4. Cardinality(TransactionsBefore(actions, i)) \in Nat
  BY <1>3, FS_CardinalityType
<1>5. 1..(i + 1 - 1) = 1..(i - 1) \cup {i}
  OBVIOUS
<1>6. /\ IsTransaction(actions[i]) =>
           TransactionsBefore(actions, i + 1) = TransactionsBefore(actions, i) \cup {i}
      /\ ~IsTransaction(actions[i]) =>
           TransactionsBefore(actions, i + 1) = TransactionsBefore(actions, i)
  BY <1>5 DEF TransactionsBefore
<1> QED
  BY <1>1, <1>3, <1>4, <1>6

\* The units of gas used before an action.
UnitsBefore(actions, i) ==
  UNION {{j} \X (1..GasUsed(actions[j])) : j \in TransactionsBefore(actions, i)}

\* They are at most two for each action.
LEMMA GasIsBounded ==
  ASSUME NEW actions, NEW i \in Nat \ {0}
  PROVE  /\ IsFiniteSet(UnitsBefore(actions, i))
         /\ GasBefore(actions, i) = Cardinality(UnitsBefore(actions, i))
         /\ GasBefore(actions, i) \in 0..(2 * (i - 1))
<1> DEFINE all == (1..(i - 1)) \X (1..2)
<1>1. UnitsBefore(actions, i) \in SUBSET all
  <2>1. TransactionsBefore(actions, i) \in SUBSET (1..(i - 1))
    BY TransactionsInOrder
  <2>2. \A j \in TransactionsBefore(actions, i) : GasUsed(actions[j]) \in 1..2
    BY GasOfKinds
  <2>3. \A j \in TransactionsBefore(actions, i) : {j} \X (1..GasUsed(actions[j])) \subseteq all
    <3> SUFFICES ASSUME NEW j \in TransactionsBefore(actions, i)
                 PROVE  {j} \X (1..GasUsed(actions[j])) \subseteq all
      OBVIOUS
    <3>1. j \in 1..(i - 1) /\ GasUsed(actions[j]) \in 1..2
      BY <2>1, <2>2
    <3>2. 1..GasUsed(actions[j]) \subseteq 1..2
      BY <3>1
    <3> QED
      BY <3>1, <3>2
  <2> QED
    BY <2>3 DEF UnitsBefore
<1>2. IsFiniteSet(all) /\ Cardinality(all) = (i - 1) * 2
  <2>1. IsFiniteSet(1..(i - 1)) /\ Cardinality(1..(i - 1)) = i - 1
    <3>1. i - 1 \in Nat
      OBVIOUS
    <3> QED
      BY <3>1, FirstPositions
  <2>2. IsFiniteSet(1..2) /\ Cardinality(1..2) = 2
    BY FirstPositions
  <2> QED
    BY <2>1, <2>2, FS_Product
<1> HIDE DEF all
<1>3. IsFiniteSet(UnitsBefore(actions, i)) /\ Cardinality(UnitsBefore(actions, i)) <= (i - 1) * 2
  BY <1>1, <1>2, FS_Subset
<1>4. Cardinality(UnitsBefore(actions, i)) \in Nat
  BY <1>3, FS_CardinalityType
<1>5. GasBefore(actions, i) = Cardinality(UnitsBefore(actions, i))
  BY DEF GasBefore, UnitsBefore
<1> QED
  BY <1>3, <1>4, <1>5

\* A transaction adds what it uses.
LEMMA GasAdds ==
  ASSUME NEW actions, NEW i \in Nat \ {0}
  PROVE  GasBefore(actions, i + 1) =
           IF IsTransaction(actions[i]) THEN GasBefore(actions, i) + GasUsed(actions[i])
           ELSE GasBefore(actions, i)
<1>1. CASE ~IsTransaction(actions[i])
  <2>1. TransactionsBefore(actions, i + 1) = TransactionsBefore(actions, i)
    BY <1>1, TransactionsInOrder
  <2> QED
    BY <1>1, <2>1 DEF GasBefore
<1>2. CASE IsTransaction(actions[i])
  <2> DEFINE g == GasUsed(actions[i])
             own == {i} \X (1..g)
             old == UnitsBefore(actions, i)
             new == UnitsBefore(actions, i + 1)
  <2>1. TransactionsBefore(actions, i + 1) = TransactionsBefore(actions, i) \cup {i}
        /\ TransactionsBefore(actions, i) \in SUBSET (1..(i - 1))
    BY <1>2, TransactionsInOrder
  <2>2. new = old \cup own
    BY <2>1 DEF UnitsBefore
  <2>3. old \cap own = {}
    <3>1. i \notin TransactionsBefore(actions, i)
      BY <2>1
    <3>2. \A x \in old : x[1] \in TransactionsBefore(actions, i)
      BY DEF UnitsBefore
    <3>3. \A x \in own : x[1] = i
      OBVIOUS
    <3> QED
      BY <3>1, <3>2, <3>3
  <2>4. g \in Nat
    BY GasOfKinds
  <2>5. IsFiniteSet(own) /\ Cardinality(own) = g
    <3>1. IsFiniteSet({i}) /\ Cardinality({i}) = 1
      BY FS_Singleton
    <3>2. IsFiniteSet(1..g) /\ Cardinality(1..g) = g
      BY <2>4, FirstPositions
    <3>3. IsFiniteSet(own) /\ Cardinality(own) = 1 * g
      BY <3>1, <3>2, FS_Product
    <3> QED
      BY <2>4, <3>3
  <2>6. /\ IsFiniteSet(old) /\ GasBefore(actions, i) = Cardinality(old)
        /\ GasBefore(actions, i + 1) = Cardinality(new) /\ Cardinality(old) \in Nat
    BY GasIsBounded
  <2> HIDE DEF own, old, new, g
  <2>7. Cardinality(old \cup own) = Cardinality(old) + Cardinality(own) - Cardinality(old \cap own)
    BY <2>5, <2>6, FS_Union
  <2>8. Cardinality(old \cap own) = 0
    BY <2>3, FS_EmptySet
  <2>9. GasBefore(actions, i + 1) = GasBefore(actions, i) + g
    BY <2>2, <2>4, <2>5, <2>6, <2>7, <2>8
  <2> QED
    BY <1>2, <2>9 DEF g
<1> QED
  BY <1>1, <1>2

\* A transaction of the reference, and what it needs of the gas limit.
LEMMA TxOfAction ==
  ASSUME ScriptInv, NEW i \in 1..Len(script)
  PROVE  TxOf(i) \in Tx /\ TxOf(i).of = i /\ GasNeeded(TxOf(i)) \in Nat
<1>1. Len(script) \in Nat /\ MaxActions \in Nat /\ Len(script) <= MaxActions
  BY LenProperties, BuildAssumption DEF ScriptInv
<1>2. Cardinality(TransactionsBefore(script, i)) \in 0..(i - 1)
      /\ GasBefore(script, i) \in 0..(2 * (i - 1))
  BY <1>1, TransactionsInOrder, GasIsBounded
<1>3. GasUsed(script[i]) \in 1..2 /\ GasLimit(script[i]) \in 1..3
  BY GasOfKinds
<1>4. /\ TxOf(i).of = i /\ TxOf(i).used = GasBefore(script, i) + GasUsed(script[i])
      /\ TxOf(i).index \in {0, Cardinality(TransactionsBefore(script, i))}
      /\ TxOf(i) = [of |-> TxOf(i).of, index |-> TxOf(i).index, used |-> TxOf(i).used]
  BY DEF TxOf, Transaction
<1>5. TxOf(i) \in Tx
  BY <1>1, <1>2, <1>3, <1>4 DEF Tx
<1> QED
  BY <1>1, <1>2, <1>3, <1>4, <1>5 DEF GasNeeded

\* The transactions of the first h actions on the reference chain.
TxsUpTo(h) == Picked([i \in 1..Len(script) |-> TxOf(i)], TransactionsBefore(script, h + 1))

\* One more action adds its transaction, if it makes one.
LEMMA TxsInOrder ==
  ASSUME ScriptInv, NEW h \in 0..Len(script)
  PROVE  /\ TxsUpTo(h) \in Txs
         /\ Len(TxsUpTo(h)) = Cardinality(TransactionsBefore(script, h + 1))
         /\ \A n \in 1..Len(TxsUpTo(h)) : \E i \in 1..Len(script) : TxsUpTo(h)[n] = TxOf(i)
         /\ h < Len(script) =>
              TxsUpTo(h + 1) = IF IsTransaction(script[h + 1]) THEN Append(TxsUpTo(h), TxOf(h + 1))
                               ELSE TxsUpTo(h)
<1> DEFINE n == Len(script)
           all == [i \in 1..n |-> TxOf(i)]
           before == TransactionsBefore(script, h + 1)
<1>1. n \in Nat /\ all \in Seq(Tx) /\ Len(all) = n
  <2>1. n \in Nat /\ all \in [1..n -> Tx]
    BY LenProperties, TxOfAction DEF ScriptInv
  <2> HIDE DEF all, n
  <2>2. all \in Seq(Tx)
    BY <2>1, SeqDef
  <2> QED
    BY <2>1, <2>2, LenProperties
<1>2. \A i \in 1..n : all[i] = TxOf(i)
  OBVIOUS
<1>3. TxsUpTo(h) = Picked(all, before) /\ TxsUpTo(h + 1) = Picked(all, TransactionsBefore(script, h + 2))
  BY DEF TxsUpTo
<1>4. before \in SUBSET (1..h) /\ before \in SUBSET (1..n)
      /\ (IsTransaction(script[h + 1]) => TransactionsBefore(script, h + 2) = before \cup {h + 1})
      /\ (~IsTransaction(script[h + 1]) => TransactionsBefore(script, h + 2) = before)
  <2>1. h + 1 \in Nat \ {0} /\ h + 1 - 1 = h /\ h + 1 + 1 = h + 2
    BY <1>1
  <2>2. before \in SUBSET (1..(h + 1 - 1))
        /\ (IsTransaction(script[h + 1]) => TransactionsBefore(script, h + 1 + 1) = before \cup {h + 1})
        /\ (~IsTransaction(script[h + 1]) => TransactionsBefore(script, h + 1 + 1) = before)
    BY <2>1, TransactionsInOrder
  <2> HIDE DEF before
  <2> QED
    BY <1>1, <2>1, <2>2
<1> HIDE DEF n, all, before
<1>5. /\ Picked(all, before) \in Seq(Tx) /\ Len(Picked(all, before)) = Cardinality(before)
      /\ \A m \in 1..Cardinality(before) :
           Nth(before, m) \in 1..n /\ Picked(all, before)[m] = all[Nth(before, m)]
  BY <1>1, <1>4, PickedIsSequence
<1>6. ASSUME h < n, IsTransaction(script[h + 1])
      PROVE  Picked(all, before \cup {h + 1}) = Append(Picked(all, before), all[h + 1])
  <2>1. h + 1 \in 1..n /\ \A i \in before : i < h + 1
    BY <1>1, <1>4, <1>6 DEF n
  <2> QED
    BY <1>1, <1>4, <2>1, PickedAppends
<1>7. TxsUpTo(h) \in Txs /\ Len(TxsUpTo(h)) = Cardinality(before)
  BY <1>3, <1>5 DEF Txs
<1>8. \A m \in 1..Len(TxsUpTo(h)) : \E i \in 1..n : TxsUpTo(h)[m] = TxOf(i)
  BY <1>2, <1>3, <1>4, <1>5, <1>7
<1>9. ASSUME h < n
      PROVE  TxsUpTo(h + 1) = IF IsTransaction(script[h + 1]) THEN Append(TxsUpTo(h), TxOf(h + 1))
                              ELSE TxsUpTo(h)
  <2>1. h + 1 \in 1..n
    BY <1>1, <1>9 DEF n
  <2> QED
    BY <1>2, <1>3, <1>4, <1>6, <1>9, <2>1
<1> QED
  BY <1>7, <1>8, <1>9 DEF n, before

\* The first action has none before it.
LEMMA NothingBefore ==
  ASSUME ScriptInv
  PROVE  TxsUpTo(0) = << >> /\ GasBefore(script, 1) = 0
<1>1. Cardinality(TransactionsBefore(script, 1)) = 0 /\ GasBefore(script, 1) = 0
  BY TransactionsInOrder, GasIsBounded
<1>2. 0 \in 0..Len(script) /\ 0 + 1 = 1
  BY LenProperties DEF ScriptInv
<1>3. TxsUpTo(0) \in Txs /\ Len(TxsUpTo(0)) = 0
  BY <1>1, <1>2, TxsInOrder
<1> QED
  BY <1>1, <1>3, EmptySeq DEF Txs

\* The transactions of the block on the reference chain.
LEMMA ReferenceTxsType ==
  ASSUME ScriptInv
  PROVE  /\ ReferenceTxs \in Txs
         /\ ReferenceTxs = IF num <= DeployBlock THEN << >> ELSE TxsUpTo(Len(script))
         /\ \A n \in 1..Len(ReferenceTxs) : \E i \in 1..Len(script) : ReferenceTxs[n] = TxOf(i)
<1>1. Len(script) \in 0..Len(script)
  BY LenProperties DEF ScriptInv
<1>2. ReferenceTxs = IF num <= DeployBlock THEN << >> ELSE TxsUpTo(Len(script))
  BY DEF ReferenceTxs, TxsUpTo
<1>3. TxsUpTo(Len(script)) \in Txs
      /\ \A n \in 1..Len(TxsUpTo(Len(script))) :
           \E i \in 1..Len(script) : TxsUpTo(Len(script))[n] = TxOf(i)
  BY <1>1, TxsInOrder
<1>4. << >> \in Txs /\ Len(<< >>) = 0
  BY EmptySeq DEF Txs
<1> QED
  BY <1>2, <1>3, <1>4

\* What a transaction recovered from the reference is.
IsReferenceTx(tx) ==
  /\ tx.of \in 1..Len(script)
  /\ GasNeeded(tx) \in Nat /\ GasNeeded(tx) <= ReferenceGas.limit

\* The gas limit of a header is not below the limit it is made of.
LEMMA HeaderGasType ==
  ASSUME NEW g, g.limit \in Nat
  PROVE  /\ HeaderGas(g).used = g.used /\ HeaderGas(g).limit \in Nat
         /\ g.limit <= HeaderGas(g).limit
         /\ HeaderGas(g) = [used |-> HeaderGas(g).used, limit |-> HeaderGas(g).limit]
<1> DEFINE limits == {DefaultGasLimit, g.limit}
<1>1. limits \in SUBSET Int /\ limits # {} /\ limits \in SUBSET Nat /\ g.limit \in limits
  BY BuildAssumption
<1>2. limits = {g.limit} \cup {DefaultGasLimit}
  OBVIOUS
<1>3. IsFiniteSet(limits)
  <2>1. IsFiniteSet({g.limit})
    BY FS_Singleton
  <2>2. IsFiniteSet({g.limit} \cup {DefaultGasLimit})
    BY <2>1, FS_AddElement
  <2> QED
    BY <1>2, <2>2
<1>4. HeaderGas(g) = [used |-> g.used, limit |-> Max(limits)]
  BY DEF HeaderGas
<1> HIDE DEF limits
<1>5. Max(limits) \in limits /\ \A x \in limits : x <= Max(limits)
  BY <1>1, <1>3, MaxOf
<1> QED
  BY <1>1, <1>4, <1>5

\* The gas of the block on the reference chain leaves room for its transactions.
LEMMA ReferenceGasType ==
  ASSUME ScriptInv
  PROVE  /\ ReferenceGas \in Gas
         /\ \A n \in 1..Len(ReferenceTxs) : IsReferenceTx(ReferenceTxs[n])
<1> DEFINE last == Len(ReferenceTxs)
           used == {0} \cup {ReferenceTxs[n].used : n \in 1..last}
           limits == {0} \cup {GasNeeded(ReferenceTxs[n]) : n \in 1..last}
           g == [used |-> Max(used), limit |-> Max(limits)]
<1>1. last \in Nat /\ DOMAIN ReferenceTxs = 1..last /\ MaxActions \in Nat
      /\ \A n \in 1..last : ReferenceTxs[n] \in Tx
  BY ReferenceTxsType, LenProperties, BuildAssumption DEF Txs
<1>2. \A n \in 1..last : ReferenceTxs[n].used \in 0..(2 * MaxActions)
  BY <1>1 DEF Tx
<1>3. \A n \in 1..last : ReferenceTxs[n].of \in 1..Len(script) /\ GasNeeded(ReferenceTxs[n]) \in Nat
  BY ReferenceTxsType, TxOfAction
<1>4. IsFiniteSet(1..last)
  BY <1>1, FirstPositions
<1>5. ReferenceGas = HeaderGas(g)
  BY <1>1 DEF ReferenceGas
<1>6. Max(used) \in 0..(2 * MaxActions)
  <2> DEFINE usedOf == [n \in 1..last |-> ReferenceTxs[n].used]
             all == {ReferenceTxs[n].used : n \in 1..last}
  <2>1. usedOf \in Surjection(1..last, all)
    BY DEF Surjection
  <2>2. IsFiniteSet(all)
    BY <1>4, <2>1, FS_Surjection
  <2>3. used = all \cup {0} /\ used \subseteq 0..(2 * MaxActions) /\ used \in SUBSET Int
        /\ used # {}
    BY <1>1, <1>2
  <2> HIDE DEF all, used
  <2>4. IsFiniteSet(used)
    BY <2>2, <2>3, FS_AddElement
  <2> QED
    BY <2>3, <2>4, MaxOf
<1>7. Max(limits) \in Nat /\ \A n \in 1..last : GasNeeded(ReferenceTxs[n]) <= Max(limits)
  <2> DEFINE limitOf == [n \in 1..last |-> GasNeeded(ReferenceTxs[n])]
             all == {GasNeeded(ReferenceTxs[n]) : n \in 1..last}
  <2>1. limitOf \in Surjection(1..last, all)
    BY DEF Surjection
  <2>2. IsFiniteSet(all)
    BY <1>4, <2>1, FS_Surjection
  <2>3. limits = all \cup {0} /\ limits \subseteq Nat /\ limits \in SUBSET Int
        /\ limits # {}
    BY <1>1, <1>3
  <2>4. \A n \in 1..last : GasNeeded(ReferenceTxs[n]) \in limits
    OBVIOUS
  <2> HIDE DEF all, limits
  <2>5. IsFiniteSet(limits)
    BY <2>2, <2>3, FS_AddElement
  <2>6. Max(limits) \in limits /\ \A x \in limits : x <= Max(limits)
    BY <2>3, <2>5, MaxOf
  <2> QED
    BY <2>3, <2>4, <2>6
<1> HIDE DEF used, limits, last
<1>8. g.used = Max(used) /\ g.limit = Max(limits)
  OBVIOUS
<1> HIDE DEF g
<1>9. /\ ReferenceGas.used = Max(used) /\ ReferenceGas.limit \in Nat
      /\ Max(limits) <= ReferenceGas.limit
      /\ ReferenceGas = [used |-> ReferenceGas.used, limit |-> ReferenceGas.limit]
  BY <1>5, <1>7, <1>8, HeaderGasType
<1>10. ReferenceGas \in Gas
  BY <1>6, <1>9 DEF Gas
<1>11. \A n \in 1..last : IsReferenceTx(ReferenceTxs[n])
  BY <1>3, <1>7, <1>9 DEF IsReferenceTx
<1> QED
  BY <1>10, <1>11 DEF last

\* Whatever is null, a recovered block holds transactions of the reference only,
\* and all of them when nothing is null.
LEMMA FetchedTxs ==
  ASSUME ScriptInv, NEW p \in Fetched
  PROVE  /\ p.parent = parent /\ p.hash = ReferenceHash /\ p.gas = ReferenceGas /\ p.recovered
         /\ p = [parent |-> p.parent, hash |-> p.hash, txs |-> p.txs, gas |-> p.gas,
                 recovered |-> TRUE]
         /\ p.txs \in Txs
         /\ \A n \in 1..Len(p.txs) : IsReferenceTx(p.txs[n])
         /\ ~May("rawNull") => p.txs = ReferenceTxs
<1>1. PICK list \in RawTxs :
        p = [parent |-> parent, hash |-> ReferenceHash, txs |-> list, gas |-> ReferenceGas,
             recovered |-> TRUE]
  BY DEF Fetched
<1>2. /\ p.parent = parent /\ p.hash = ReferenceHash /\ p.gas = ReferenceGas /\ p.recovered
      /\ p = [parent |-> p.parent, hash |-> p.hash, txs |-> p.txs, gas |-> p.gas,
              recovered |-> TRUE]
      /\ p.txs = list
  BY <1>1
<1>3. ReferenceTxs \in Txs /\ \A n \in 1..Len(ReferenceTxs) : IsReferenceTx(ReferenceTxs[n])
  BY ReferenceTxsType, ReferenceGasType
<1>4. CASE list = ReferenceTxs
  BY <1>2, <1>3, <1>4
<1>5. CASE May("rawNull") /\ list # ReferenceTxs
  <2>1. PICK given \in SUBSET (1..Len(ReferenceTxs)) : list = Picked(ReferenceTxs, given)
    BY <1>5 DEF RawTxs
  <2>2. ReferenceTxs \in Seq(Tx)
    BY <1>3 DEF Txs
  <2>3. /\ list \in Seq(Tx) /\ Len(list) = Cardinality(given)
        /\ \A n \in 1..Cardinality(given) :
             Nth(given, n) \in 1..Len(ReferenceTxs) /\ list[n] = ReferenceTxs[Nth(given, n)]
    BY <2>1, <2>2, PickedIsSequence
  <2>6. \A n \in 1..Len(list) : IsReferenceTx(list[n])
    BY <1>3, <2>3
  <2> QED
    BY <1>2, <1>5, <2>3, <2>6 DEF Txs
<1>6. list = ReferenceTxs \/ May("rawNull")
  BY DEF RawTxs
<1> QED
  BY <1>4, <1>5, <1>6

-------------------------------------------------------------------------------
(***************************************************************************)
(* The translation of the block in hand.                                   *)
(***************************************************************************)

\* A sequence over a set is one over a larger set.
LEMMA SeqGrows ==
  ASSUME NEW A, NEW B, A \subseteq B, NEW s \in Seq(A)
  PROVE  s \in Seq(B)
<1>1. Len(s) \in Nat /\ s \in [1..Len(s) -> B]
  BY LenProperties
<1> QED
  BY <1>1, SeqDef

\* The larger of two numbers.
LEMMA MaxOfTwo ==
  ASSUME NEW a \in Nat, NEW b \in Nat
  PROVE  Max({a, b}) \in Nat /\ a <= Max({a, b}) /\ b <= Max({a, b})
<1>1. IsFiniteSet({a} \cup {b})
  <2>1. IsFiniteSet({a})
    BY FS_Singleton
  <2> QED
    BY <2>1, FS_AddElement
<1>2. {a, b} = {a} \cup {b} /\ {a, b} \in SUBSET Int /\ {a, b} # {}
  OBVIOUS
<1> QED
  BY <1>1, <1>2, MaxOf

\* What SHIP may show of actions, without and with all of them.
TracesFor(actions) ==
  {t \in [of : 1..Len(actions), kind : Kinds, shown : env.shown] : t.kind = actions[t.of]}

AllAreShown == "missing" \notin env.shown

\* Traces are those of the actions, and all of them when nothing is missing.
LEMMA TracesOfActions ==
  ASSUME NEW actions \in Scripts, NEW shown \in [1..Len(actions) -> env.shown]
  PROVE  /\ actions \in Seq(Kinds) /\ Len(actions) \in 0..MaxActions
         /\ TracesOf(actions, shown) \in Seq(TracesFor(actions))
         /\ Len(TracesOf(actions, shown)) <= Len(actions)
         /\ AllAreShown => /\ Len(TracesOf(actions, shown)) = Len(actions)
                           /\ \A n \in 1..Len(actions) : TracesOf(actions, shown)[n].of = n
<1> DEFINE last == Len(actions)
           all == [i \in 1..last |-> [of |-> i, kind |-> actions[i], shown |-> shown[i]]]
           given == {i \in 1..last : shown[i] # "missing"}
<1>1. actions \in Seq(Kinds) /\ last \in 0..MaxActions /\ actions \in [1..last -> Kinds]
  <2>1. PICK n \in 0..MaxActions : actions \in [1..n -> Kinds]
    BY DEF Scripts
  <2>2. n \in Nat /\ MaxActions \in Nat
    BY BuildAssumption
  <2>3. actions \in Seq(Kinds)
    BY <2>1, <2>2, SeqDef
  <2>4. last = n
    BY <2>1, <2>2, <2>3, LenProperties
  <2> QED
    BY <2>1, <2>3, <2>4
<1>2. all \in [1..last -> TracesFor(actions)] /\ \A i \in 1..last : all[i].of = i
  BY <1>1 DEF TracesFor
<1>3. TracesOf(actions, shown) = Picked(all, given) /\ given \in SUBSET (1..last)
  BY DEF TracesOf
<1>4. AllAreShown => given = 1..last
  BY DEF AllAreShown
<1> HIDE DEF last, all, given
<1>5. last \in Nat
  BY <1>1, BuildAssumption
<1>6. all \in Seq(TracesFor(actions))
  BY <1>2, <1>5, SeqDef
<1>7. Len(all) = last
  BY <1>2, <1>5, <1>6, LenProperties
<1>8. TracesOf(actions, shown) \in Seq(TracesFor(actions))
      /\ Len(TracesOf(actions, shown)) = Cardinality(given) /\ Cardinality(given) <= last
  BY <1>3, <1>5, <1>6, <1>7, PickedIsSequence
<1>9. AllAreShown => TracesOf(actions, shown) = all
  BY <1>3, <1>4, <1>6, <1>7, AllPicked
<1> QED
  BY <1>1, <1>2, <1>7, <1>8, <1>9 DEF last

\* The events of actions that make no transaction.
EventHandled ==
  \/ Head(traces).kind = "gasPrice" /\ events' = [events EXCEPT !.gasPrice = Len(txs)]
  \/ Head(traces).kind = "revision" /\ events' = [events EXCEPT !.revision = Len(txs)]
  \/ Head(traces).kind = "wallet" /\ events' = [events EXCEPT !.wallets = Append(@, Len(txs))]
  \/ Head(traces).kind = "other" /\ events' = events

\* handle_action makes a transaction, or fails, or keeps an event.
LEMMA ActionsDo ==
  ASSUME HandleAction
  PROVE  /\ pc = "actions" /\ traces # << >> /\ seen' \in {seen, seen + 1}
         /\ UNCHANGED <<env, num, parent, reference, script, payload, sent>>
         /\ \/ IsTransaction(Head(traces).kind) /\ AddTransaction /\ events' = events
            \/ ActionFails /\ events' = events
            \/ pc' = "failed" /\ UNCHANGED <<traces, txs, gas, events>>
            \/ /\ ~IsTransaction(Head(traces).kind) /\ EventHandled
               /\ traces' = Tail(traces) /\ UNCHANGED <<pc, txs, gas>>
<1>1. CASE HandleRaw
  BY <1>1 DEF HandleRaw, RawFails, ActionFails, Handling, Counted, IsTransaction
<1>2. CASE HandleRawWithoutReceipt
  BY <1>2 DEF HandleRawWithoutReceipt, RawFails, ActionFails, Handling, Counted, IsTransaction
<1>3. CASE HandleTransfer
  BY <1>3 DEF HandleTransfer, Handling, Counted, IsTransaction
<1>4. CASE HandleGasPrice
  BY <1>4 DEF HandleGasPrice, Handling, EventHandled, IsTransaction
<1>5. CASE HandleRevision
  BY <1>5 DEF HandleRevision, Handling, EventHandled, IsTransaction
<1>6. CASE HandleWallet
  BY <1>6 DEF HandleWallet, Handling, EventHandled, IsTransaction
<1>7. CASE HandleOther
  BY <1>7 DEF HandleOther, Handling, EventHandled, IsTransaction
<1> QED
  BY <1>1, <1>2, <1>3, <1>4, <1>5, <1>6, <1>7 DEF HandleAction

\* The traces left, the transactions made of the others and their gas are those of
\* the actions of the block in hand.
TranslationInv ==
  /\ env \in [endpoint : BOOLEAN, sampleEvery : Nat, shown : Shows, faults : FaultSets]
  /\ ScriptInv
  /\ traces \in Seq(TracesFor(script))
  /\ txs \in Txs /\ Len(txs) + Len(traces) <= MaxActions
  /\ seen \in 0..MaxActions /\ (pc = "actions" => seen + Len(traces) <= MaxActions)
  /\ gas \in [used : Nat, limit : Nat] /\ gas.used <= 2 * Len(txs)
  /\ \A i \in 1..Len(txs) : txs[i].of \in 1..Len(script) /\ GasNeeded(txs[i]) <= gas.limit
  /\ events \in Events

\* add_transaction: what a transaction may use counts from the gas used before it.
LEMMA AddedTransaction ==
  ASSUME TranslationInv, traces # << >>, AddTransaction
  PROVE  LET t == Head(traces)
             tx == Transaction(t.of, t.kind, Len(txs), gas.used)
         IN  /\ t \in TracesFor(script) /\ Len(script) \in Nat
             /\ tx \in Tx /\ tx.of = t.of /\ tx.used = gas.used + GasUsed(t.kind)
             /\ txs' = Append(txs, tx) /\ txs' \in Txs /\ Len(txs') = Len(txs) + 1
             /\ gas' \in [used : Nat, limit : Nat] /\ gas'.used = tx.used
             /\ gas.limit <= gas'.limit /\ GasNeeded(tx) <= gas'.limit
             /\ tx.used <= 2 * Len(txs')
<1> DEFINE t == Head(traces)
           tx == Transaction(t.of, t.kind, Len(txs), gas.used)
<1>1. /\ t \in TracesFor(script) /\ Len(Tail(traces)) = Len(traces) - 1
      /\ Tail(traces) \in Seq(TracesFor(script))
  BY HeadTailProperties DEF TranslationInv
<1>2. Len(script) \in Nat /\ Len(script) <= MaxActions /\ MaxActions \in Nat
  BY LenProperties, BuildAssumption DEF TranslationInv, ScriptInv
<1>3. Len(txs) \in Nat /\ Len(traces) \in Nat /\ txs \in Seq(Tx) /\ Len(Tail(traces)) \in Nat
  BY <1>1, LenProperties DEF TranslationInv, Txs
<1>4. Len(txs) + 1 <= MaxActions
  BY <1>1, <1>2, <1>3 DEF TranslationInv
<1>5. t.of \in 1..Len(script) /\ t.kind = script[t.of]
  BY <1>1 DEF TracesFor
<1>6. GasUsed(t.kind) \in 1..2 /\ GasLimit(t.kind) \in 1..3
  BY GasOfKinds
<1>7. gas.used \in Nat /\ gas.limit \in Nat /\ gas.used <= 2 * Len(txs)
  BY DEF TranslationInv
<1>8. /\ txs' = Append(txs, tx)
      /\ gas' = [used |-> tx.used, limit |-> Max({gas.limit, gas.used + GasLimit(t.kind)})]
  BY DEF AddTransaction
<1>9. tx.of = t.of /\ tx.used = gas.used + GasUsed(t.kind) /\ tx.index \in {0, Len(txs)}
      /\ tx = [of |-> tx.of, index |-> tx.index, used |-> tx.used]
  BY DEF Transaction
<1> HIDE DEF t, tx
<1>10. tx \in Tx
  <2>1. tx.of \in 1..MaxActions
    BY <1>2, <1>5, <1>9
  <2>2. tx.index \in 0..MaxActions
    BY <1>2, <1>3, <1>4, <1>9
  <2>3. tx.used \in 1..(2 * MaxActions)
    BY <1>2, <1>3, <1>4, <1>6, <1>7, <1>9
  <2> QED
    BY <1>9, <2>1, <2>2, <2>3 DEF Tx
<1>11. GasNeeded(tx) = gas.used + GasLimit(t.kind)
  BY <1>5, <1>6, <1>7, <1>9 DEF GasNeeded
<1>12. Max({gas.limit, gas.used + GasLimit(t.kind)}) \in Nat
       /\ gas.limit <= Max({gas.limit, gas.used + GasLimit(t.kind)})
       /\ gas.used + GasLimit(t.kind) <= Max({gas.limit, gas.used + GasLimit(t.kind)})
  <2>1. gas.limit \in Nat /\ gas.used + GasLimit(t.kind) \in Nat
    BY <1>6, <1>7
  <2> QED
    BY <2>1, MaxOfTwo
<1>13. gas' \in [used : Nat, limit : Nat] /\ gas'.used = tx.used /\ gas.limit <= gas'.limit
       /\ GasNeeded(tx) <= gas'.limit
  BY <1>6, <1>7, <1>8, <1>9, <1>11, <1>12
<1>14. txs' \in Txs /\ Len(txs') = Len(txs) + 1
  BY <1>3, <1>8, <1>10, AppendProperties DEF Txs
<1> QED
  BY <1>1, <1>2, <1>3, <1>6, <1>7, <1>8, <1>9, <1>10, <1>13, <1>14 DEF t, tx

\* Events are kept after some number of transactions.
LEMMA EventsType ==
  ASSUME events \in Events, txs \in Txs, Len(txs) <= MaxActions, EventHandled
  PROVE  events' \in Events
<1>1. MaxActions \in Nat /\ Len(txs) \in Nat /\ NoChange = -1
  BY LenProperties, BuildAssumption DEF Txs, NoChange
<1>2. Len(txs) \in 0..MaxActions /\ Len(txs) \in Position
  BY <1>1 DEF Position
<1>3. CASE events' = [events EXCEPT !.gasPrice = Len(txs)]
  BY <1>2, <1>3 DEF Events
<1>4. CASE events' = [events EXCEPT !.revision = Len(txs)]
  BY <1>2, <1>4 DEF Events
<1>5. CASE events' = [events EXCEPT !.wallets = Append(@, Len(txs))]
  <2>1. events.wallets \in Seq(0..MaxActions)
    BY DEF Events
  <2>2. Append(events.wallets, Len(txs)) \in Seq(0..MaxActions)
    BY <1>2, <2>1, AppendProperties
  <2> QED
    BY <1>5, <2>2 DEF Events
<1> QED
  BY <1>3, <1>4, <1>5 DEF EventHandled

\* No event is kept yet.
LEMMA NoEventsType == NoEvents \in Events
<1>1. NoChange \in Position
  BY BuildAssumption DEF NoChange, Position
<1>2. << >> \in Seq(0..MaxActions)
  BY EmptySeq
<1> QED
  BY <1>1, <1>2 DEF NoEvents, Events

\* Nothing is translated before the first block.
LEMMA TranslationInit == Init => TranslationInv
<1> SUFFICES ASSUME Init PROVE TranslationInv
  OBVIOUS
<1>1. env \in [endpoint : BOOLEAN, sampleEvery : Nat, shown : Shows, faults : FaultSets]
  BY BuildAssumption DEF Init
<1>2. script = << >> /\ traces = << >> /\ txs = << >> /\ Len(<< >>) = 0 /\ MaxActions \in Nat
  BY EmptySeq, BuildAssumption DEF Init
<1>3. script \in Seq(Kinds) /\ traces \in Seq(TracesFor(script)) /\ txs \in Txs
  BY <1>2, EmptySeq DEF Txs
<1>4. events \in Events
  BY NoEventsType DEF Init
<1>5. gas \in [used : Nat, limit : Nat] /\ gas.used = 0 /\ seen = 0
  BY DEF Init, NoGas
<1> QED
  BY <1>1, <1>2, <1>3, <1>4, <1>5 DEF TranslationInv, ScriptInv

\* A new block starts with its traces, if it is above the deploy block.
LEMMA TranslationStarts ==
  ASSUME TranslationInv, TakeBlock
  PROVE  TranslationInv'
<1>0. PICK actions \in Scripts :
        /\ script' = actions
        /\ \E shown \in [1..Len(actions) -> env.shown] :
             traces' = IF num <= DeployBlock THEN << >> ELSE TracesOf(actions, shown)
  BY DEF TakeBlock
<1>1. PICK shown \in [1..Len(actions) -> env.shown] :
        traces' = IF num <= DeployBlock THEN << >> ELSE TracesOf(actions, shown)
  BY <1>0
<1>2. env' = env /\ txs' = << >> /\ seen' = 0 /\ gas' = NoGas /\ events' = NoEvents
  BY DEF TakeBlock
<1>3. /\ actions \in Seq(Kinds) /\ Len(actions) \in 0..MaxActions
      /\ TracesOf(actions, shown) \in Seq(TracesFor(actions))
      /\ Len(TracesOf(actions, shown)) <= Len(actions)
  BY TracesOfActions
<1>4. << >> \in Seq(TracesFor(actions)) /\ Len(<< >>) = 0 /\ << >> \in Txs /\ MaxActions \in Nat
  BY EmptySeq, BuildAssumption DEF Txs
<1>5. traces' \in Seq(TracesFor(actions)) /\ Len(traces') \in Nat /\ Len(traces') <= MaxActions
  <2>1. traces' \in Seq(TracesFor(actions)) /\ Len(traces') <= Len(actions)
    BY <1>1, <1>3, <1>4
  <2> QED
    BY <1>3, <1>4, <2>1, LenProperties
<1>6. TracesFor(script)' = TracesFor(actions)
  BY <1>0, <1>2 DEF TracesFor
<1>7. gas' \in [used : Nat, limit : Nat] /\ gas'.used = 0
  BY <1>2 DEF NoGas
<1>8. events' \in Events
  BY <1>2, NoEventsType
<1>9. env' \in [endpoint : BOOLEAN, sampleEvery : Nat, shown : Shows, faults : FaultSets]
  BY <1>2 DEF TranslationInv
<1>10. ScriptInv'
  BY <1>0, <1>3, <1>4 DEF ScriptInv
<1>11. /\ txs' \in Txs /\ Len(txs') = 0 /\ Len(txs') + Len(traces') <= MaxActions
       /\ seen' \in 0..MaxActions /\ seen' + Len(traces') <= MaxActions
       /\ gas'.used <= 2 * Len(txs') /\ 1..Len(txs') = {}
  BY <1>2, <1>4, <1>5, <1>7
<1> QED
  BY <1>5, <1>6, <1>7, <1>8, <1>9, <1>10, <1>11 DEF TranslationInv

\* An action moves from the traces into the transactions or the events.
LEMMA TranslationGoesOn ==
  ASSUME TranslationInv, HandleAction
  PROVE  TranslationInv'
<1>1. /\ pc = "actions" /\ traces # << >> /\ seen' \in {seen, seen + 1}
      /\ env' = env /\ script' = script
  BY ActionsDo
<1>2. /\ Len(txs) \in Nat /\ Len(traces) \in Nat /\ MaxActions \in Nat
      /\ Tail(traces) \in Seq(TracesFor(script)) /\ Len(Tail(traces)) = Len(traces) - 1
      /\ traces \in Seq(TracesFor(script)) /\ Len(traces) # 0
  BY <1>1, HeadTailProperties, LenProperties, EmptySeq, BuildAssumption DEF TranslationInv, Txs
<1>3. seen \in Nat /\ seen + Len(traces) <= MaxActions /\ Len(txs) + Len(traces) <= MaxActions
  BY <1>1, <1>2 DEF TranslationInv
<1>4. seen' \in 0..MaxActions
  BY <1>1, <1>2, <1>3
<1>5. ScriptInv' /\ TracesFor(script)' = TracesFor(script)
  BY <1>1 DEF TranslationInv, ScriptInv, TracesFor
<1>6. env' \in [endpoint : BOOLEAN, sampleEvery : Nat, shown : Shows, faults : FaultSets]
  BY <1>1 DEF TranslationInv
<1>7. CASE IsTransaction(Head(traces).kind) /\ AddTransaction /\ events' = events
  <2>1. traces' = Tail(traces) /\ events' = events
    BY <1>7 DEF AddTransaction
  <2> DEFINE t == Head(traces)
             tx == Transaction(t.of, t.kind, Len(txs), gas.used)
  <2>2. /\ t \in TracesFor(script) /\ Len(script) \in Nat
        /\ tx \in Tx /\ tx.of = t.of
        /\ txs' = Append(txs, tx) /\ txs' \in Txs /\ Len(txs') = Len(txs) + 1
        /\ gas' \in [used : Nat, limit : Nat] /\ gas'.used = tx.used
        /\ gas.limit <= gas'.limit /\ GasNeeded(tx) <= gas'.limit
        /\ tx.used <= 2 * Len(txs')
    BY <1>1, <1>7, AddedTransaction
  <2>3. t.of \in 1..Len(script)
    BY <2>2 DEF TracesFor
  <2> HIDE DEF t, tx
  <2>4. /\ traces' \in Seq(TracesFor(script)) /\ Len(traces') = Len(traces) - 1
        /\ Len(txs') + Len(traces') <= MaxActions
        /\ seen' + Len(traces') <= MaxActions
    BY <1>1, <1>2, <1>3, <2>1, <2>2
  <2>5. \A i \in 1..Len(txs) : txs'[i] = txs[i] /\ txs[i] \in Tx
    BY <1>2, <2>2, AppendProperties, ElementOfSeq DEF TranslationInv, Txs
  <2>6. txs'[Len(txs) + 1] = tx
    BY <1>2, <2>2, AppendProperties DEF TranslationInv, Txs
  <2>7. \A x : GasNeeded(x)' = GasNeeded(x)
    BY <1>1 DEF GasNeeded
  <2>8. ASSUME NEW i \in 1..Len(txs')
        PROVE  txs'[i].of \in 1..Len(script') /\ GasNeeded(txs[i])' <= gas'.limit
    <3>1. CASE i \in 1..Len(txs)
      <4>1. txs'[i] = txs[i] /\ txs[i].of \in 1..Len(script) /\ GasNeeded(txs[i]) <= gas.limit
        BY <2>5, <3>1 DEF TranslationInv
      <4>2. GasNeeded(txs[i]) \in Int
        <5>1. txs[i].of \in 1..Len(script) /\ txs[i].used \in Int
          BY <2>5, <3>1, <4>1 DEF Tx
        <5>2. GasUsed(script[txs[i].of]) \in Int /\ GasLimit(script[txs[i].of]) \in Int
          BY GasOfKinds
        <5> QED
          BY <5>1, <5>2 DEF GasNeeded
      <4>3. GasNeeded(txs[i]) <= gas'.limit
        <5>1. gas.limit \in Nat /\ gas'.limit \in Nat
          BY <2>2 DEF TranslationInv
        <5> QED
          BY <2>2, <4>1, <4>2, <5>1
      <4>4. GasNeeded(txs[i])' = GasNeeded(txs[i])
        BY <1>1, <4>1 DEF GasNeeded
      <4> QED
        BY <1>1, <4>1, <4>3, <4>4
    <3>2. CASE i = Len(txs) + 1
      <4>1. txs'[i] = tx
        BY <2>6, <3>2
      <4>2. GasNeeded(txs[i])' = GasNeeded(tx)
        BY <1>1, <4>1 DEF GasNeeded
      <4> QED
        BY <1>1, <2>2, <2>3, <4>1, <4>2
    <3> QED
      BY <1>2, <2>2, <3>1, <3>2
  <2>9. gas'.used <= 2 * Len(txs') /\ events' \in Events
    BY <2>1, <2>2 DEF TranslationInv
  <2> QED
    BY <1>4, <1>5, <1>6, <2>2, <2>4, <2>8, <2>9 DEF TranslationInv
<1>8. CASE UNCHANGED <<traces, txs, gas, events>> /\ pc' # "actions"
  BY <1>1, <1>4, <1>5, <1>6, <1>8 DEF TranslationInv, GasNeeded
<1>9. CASE EventHandled /\ traces' = Tail(traces) /\ UNCHANGED <<pc, txs, gas>>
  <2>1. events' \in Events
    BY <1>2, <1>3, <1>9, EventsType DEF TranslationInv
  <2>2. /\ traces' \in Seq(TracesFor(script)) /\ Len(traces') = Len(traces) - 1
        /\ Len(txs') + Len(traces') <= MaxActions
        /\ seen' + Len(traces') <= MaxActions
    BY <1>1, <1>2, <1>3, <1>9
  <2>3. /\ txs' \in Txs /\ gas' \in [used : Nat, limit : Nat] /\ gas'.used <= 2 * Len(txs')
        /\ \A i \in 1..Len(txs) : txs[i].of \in 1..Len(script) /\ GasNeeded(txs[i]) <= gas.limit
    BY <1>9 DEF TranslationInv
  <2>4. \A i \in 1..Len(txs') : txs'[i].of \in 1..Len(script') /\ GasNeeded(txs[i])' <= gas'.limit
    BY <1>1, <1>9, <2>3 DEF GasNeeded
  <2> QED
    BY <1>4, <1>5, <1>6, <2>1, <2>2, <2>3, <2>4 DEF TranslationInv
<1>10. ActionFails => UNCHANGED <<traces, txs, gas>> /\ pc' # "actions"
  BY DEF ActionFails
<1> QED
  BY <1>7, <1>8, <1>9, <1>10, ActionsDo

\* What follows leaves the translation alone.
LEMMA TranslationPreserved ==
  ASSUME TranslationInv, [Next]_vars
  PROVE  TranslationInv'
<1>1. CASE TakeBlock
  BY <1>1, TranslationStarts
<1>2. CASE HandleAction
  BY <1>2, TranslationGoesOn
<1>3. CASE UNCHANGED <<env, script, traces, txs, seen, gas, events>>
           /\ (pc' = "actions" => pc = "actions")
  <2>1. TracesFor(script)' = TracesFor(script)
    BY <1>3 DEF TracesFor
  <2>2. ScriptInv'
    BY <1>3 DEF TranslationInv, ScriptInv
  <2> QED
    BY <1>3, <2>1, <2>2 DEF TranslationInv, GasNeeded
<1>4. RecoverBlock \/ BuildBlock \/ FinishBlock \/ UNCHANGED vars =>
        UNCHANGED <<env, script, traces, txs, seen, gas, events>>
        /\ (pc' = "actions" => pc = "actions")
  BY DEF RecoverBlock, BuildBlock, FinishBlock, UseBuilt, vars, work
<1> QED
  BY <1>1, <1>2, <1>3, <1>4 DEF Next

-------------------------------------------------------------------------------
(***************************************************************************)
(* The payload the block is sent with.                                     *)
(***************************************************************************)

\* The gas limit of a payload leaves room for each of its transactions.
RoomForAll(p) == \A i \in 1..Len(p.txs) : GasNeeded(p.txs[i]) <= p.gas.limit

\* Hashes are as long as the chain, and the payload in hand and the one sent last can
\* be run.
PayloadInv ==
  /\ pc \in {"take", "actions", "recover", "finish", "failed"}
  /\ num \in 1..(LastBlock + 1) /\ (pc \in {"actions", "recover", "finish"} => num <= LastBlock)
  /\ parent \in Seq(Txs) /\ Len(parent) = num - 1
  /\ reference \in Seq(Txs) /\ Len(reference) = num - 1
  /\ payload \in Payload
  /\ sent \in [num : 0..LastBlock, payload : Payload, receipts : Txs, events : Events]
  /\ pc = "finish" => Len(payload.hash) = num /\ RoomForAll(payload)
  /\ pc = "take" => RoomForAll(sent.payload)

\* The fields of a payload.
LEMMA PayloadOf ==
  ASSUME NEW a \in Seq(Txs), NEW h \in Seq(Txs), NEW list \in Txs, NEW g \in Gas,
         NEW r \in {TRUE, FALSE}
  PROVE  [parent |-> a, hash |-> h, txs |-> list, gas |-> g, recovered |-> r] \in Payload
<1>1. r \in BOOLEAN
  OBVIOUS
<1> QED
  BY <1>1 DEF Payload

\* What recovery fetches, or the translation makes, is a payload that can be run.
LEMMA PayloadsMade ==
  ASSUME TranslationInv, PayloadInv, NEW p, p \in Fetched \/ p = Built
  PROVE  p \in Payload /\ Len(p.hash) = num /\ RoomForAll(p)
<1>0. ScriptInv /\ txs \in Txs /\ MaxActions \in Nat /\ Len(txs) \in Nat /\ Len(txs) <= MaxActions
  <2>1. Len(txs) \in Nat /\ Len(traces) \in Nat
    BY LenProperties DEF TranslationInv, Txs
  <2> QED
    BY <2>1, BuildAssumption DEF TranslationInv
<1>1. CASE p \in Fetched
  <2>1. /\ p.parent = parent /\ p.hash = ReferenceHash /\ p.gas = ReferenceGas
        /\ p = [parent |-> p.parent, hash |-> p.hash, txs |-> p.txs, gas |-> p.gas,
                recovered |-> TRUE]
        /\ p.txs \in Txs
        /\ \A n \in 1..Len(p.txs) : IsReferenceTx(p.txs[n])
    BY <1>0, <1>1, FetchedTxs
  <2>2. ReferenceGas \in Gas /\ ReferenceTxs \in Txs
    BY <1>0, ReferenceGasType, ReferenceTxsType
  <2>3. p.hash \in Seq(Txs) /\ Len(p.hash) = num
    <3>1. reference \in Seq(Txs) /\ Len(reference) = num - 1 /\ num \in Int
      BY DEF PayloadInv
    <3>2. Append(reference, ReferenceTxs) \in Seq(Txs)
          /\ Len(Append(reference, ReferenceTxs)) = Len(reference) + 1
      BY <2>2, <3>1, AppendProperties
    <3> QED
      BY <2>1, <3>1, <3>2 DEF ReferenceHash
  <2>4. p.parent \in Seq(Txs) /\ p.gas \in Gas
    BY <2>1, <2>2 DEF PayloadInv
  <2>5. p \in Payload
    BY <2>1, <2>3, <2>4, PayloadOf
  <2>6. RoomForAll(p)
    BY <2>1 DEF RoomForAll, IsReferenceTx
  <2> QED
    BY <2>3, <2>5, <2>6
<1>2. CASE p = Built
  <2>1. /\ p.parent = parent /\ p.hash = Append(parent, txs) /\ p.txs = txs
        /\ p.gas = HeaderGas(gas)
        /\ p = [parent |-> p.parent, hash |-> p.hash, txs |-> p.txs, gas |-> p.gas,
                recovered |-> FALSE]
    BY <1>2 DEF Built
  <2>2. gas.limit \in Nat /\ gas.used \in Nat /\ gas.used <= 2 * Len(txs)
    BY DEF TranslationInv
  <2>3. /\ HeaderGas(gas).used = gas.used /\ HeaderGas(gas).limit \in Nat
        /\ gas.limit <= HeaderGas(gas).limit
        /\ HeaderGas(gas) = [used |-> HeaderGas(gas).used, limit |-> HeaderGas(gas).limit]
    BY <2>2, HeaderGasType
  <2>4. gas.used \in 0..(2 * MaxActions)
    BY <1>0, <2>2
  <2>5. p.gas \in Gas
    BY <2>1, <2>3, <2>4 DEF Gas
  <2>6. p.hash \in Seq(Txs) /\ Len(p.hash) = num /\ p.parent \in Seq(Txs)
    <3>1. parent \in Seq(Txs) /\ Len(parent) = num - 1 /\ num \in Int
      BY DEF PayloadInv
    <3>2. Append(parent, txs) \in Seq(Txs) /\ Len(Append(parent, txs)) = Len(parent) + 1
      BY <1>0, <3>1, AppendProperties
    <3> QED
      BY <2>1, <3>1, <3>2
  <2>7. p \in Payload
    BY <1>0, <2>1, <2>5, <2>6, PayloadOf
  <2>8. RoomForAll(p)
    <3> SUFFICES ASSUME NEW i \in 1..Len(txs) PROVE GasNeeded(txs[i]) <= HeaderGas(gas).limit
      BY <2>1 DEF RoomForAll
    <3>1. txs[i].of \in 1..Len(script) /\ GasNeeded(txs[i]) <= gas.limit
      BY DEF TranslationInv
    <3>2. GasNeeded(txs[i]) \in Int
      <4>1. txs[i].used \in Int
        <5>1. txs[i] \in Tx
          BY <1>0, ElementOfSeq DEF Txs
        <5> QED
          BY <5>1 DEF Tx
      <4>2. GasUsed(script[txs[i].of]) \in Int /\ GasLimit(script[txs[i].of]) \in Int
        BY GasOfKinds
      <4> QED
        BY <4>1, <4>2 DEF GasNeeded
    <3> QED
      BY <2>2, <2>3, <3>1, <3>2
  <2> QED
    BY <2>6, <2>7, <2>8
<1> QED
  BY <1>1, <1>2

\* No payload, and no block, yet.
LEMMA NoPayloadType ==
  /\ NoPayload \in Payload /\ RoomForAll(NoPayload)
  /\ NoBlock \in [num : 0..LastBlock, payload : Payload, receipts : Txs, events : Events]
  /\ << >> \in Seq(Txs) /\ Len(<< >>) = 0
<1>1. << >> \in Txs /\ << >> \in Seq(Txs) /\ Len(<< >>) = 0
  BY EmptySeq DEF Txs
<1>2. NoGas \in Gas
  BY BuildAssumption DEF NoGas, Gas
<1>3. NoPayload \in Payload /\ NoPayload.txs = << >>
  BY <1>1, <1>2 DEF NoPayload, Payload
<1>4. RoomForAll(NoPayload)
  BY <1>1, <1>3 DEF RoomForAll
<1>5. 0 \in 0..LastBlock
  BY BuildAssumption
<1> QED
  BY <1>1, <1>3, <1>4, <1>5, NoEventsType DEF NoBlock

\* Nothing is sent at the start.
LEMMA PayloadInit == Init => PayloadInv
<1> SUFFICES ASSUME Init PROVE PayloadInv
  OBVIOUS
<1>1. /\ pc = "take" /\ num = 1 /\ parent = << >> /\ reference = << >>
      /\ payload = NoPayload /\ sent = NoBlock /\ NoBlock.payload = NoPayload
  BY DEF Init, NoBlock
<1>2. 1 \in 1..(LastBlock + 1) /\ Len(<< >>) = 1 - 1
  BY BuildAssumption, NoPayloadType
<1> QED
  BY <1>1, <1>2, NoPayloadType DEF PayloadInv

\* Wallets told to the executor are some of those kept.
LEMMA WalletsType ==
  ASSUME TranslationInv, NEW wallets \in NewAddresses(events.wallets)
  PROVE  wallets \in Seq(0..MaxActions)
<1>1. events.wallets \in Seq(0..MaxActions)
  BY DEF TranslationInv, Events
<1>2. CASE wallets = events.wallets
  BY <1>1, <1>2
<1>3. CASE wallets # events.wallets
  <2>1. PICK found \in SUBSET (1..Len(events.wallets)) : wallets = Picked(events.wallets, found)
    BY <1>3 DEF NewAddresses
  <2> QED
    BY <1>1, <2>1, PickedIsSequence
<1> QED
  BY <1>2, <1>3

\* Every step keeps it.
LEMMA PayloadPreserved ==
  ASSUME TranslationInv, PayloadInv, [Next]_vars
  PROVE  PayloadInv'
<1>1. CASE TakeBlock
  <2>1. /\ pc' = "actions" /\ payload' = NoPayload /\ num <= LastBlock
        /\ UNCHANGED <<num, parent, reference, sent>>
    BY <1>1 DEF TakeBlock
  <2> QED
    BY <2>1, NoPayloadType DEF PayloadInv
<1>2. CASE HandleAction
  <2>1. /\ pc = "actions" /\ UNCHANGED <<num, parent, reference, payload, sent>>
        /\ pc' \in {"actions", "recover", "failed"}
    <3>1. AddTransaction => pc' = pc
      BY DEF AddTransaction
    <3>2. ActionFails => pc' = "recover"
      BY DEF ActionFails
    <3> QED
      BY <1>2, <3>1, <3>2, ActionsDo
  <2> QED
    BY <2>1 DEF PayloadInv
<1>3. CASE RecoverBlock \/ BuildBlock
  <2>1. /\ pc \in {"recover", "actions"}
        /\ UNCHANGED <<num, parent, reference, script, sent>>
        /\ \/ payload' \in Fetched /\ pc' = "finish"
           \/ payload' = Built /\ pc' = "finish"
           \/ payload' = payload /\ pc' = "failed"
    BY <1>3 DEF RecoverBlock, BuildBlock, UseBuilt
  <2>2. CASE payload' = payload /\ pc' = "failed"
    BY <2>1, <2>2 DEF PayloadInv
  <2>3. CASE (payload' \in Fetched \/ payload' = Built) /\ pc' = "finish"
    <3>1. PICK p : p = payload'
      OBVIOUS
    <3>2. p \in Payload /\ Len(p.hash) = num /\ RoomForAll(p)
      BY <2>3, <3>1, PayloadsMade
    <3>3. RoomForAll(payload)'
      BY <2>1, <3>1, <3>2 DEF RoomForAll, GasNeeded
    <3> QED
      BY <2>1, <2>3, <3>1, <3>2, <3>3 DEF PayloadInv
  <2> QED
    BY <2>1, <2>2, <2>3
<1>4. CASE FinishBlock
  <2>1. /\ pc = "finish" /\ pc' = "take" /\ num' = num + 1 /\ parent' = payload.hash
        /\ reference' = ReferenceHash /\ UNCHANGED <<script, txs, payload>>
    BY <1>4 DEF FinishBlock, work
  <2>2. num \in 1..LastBlock /\ num' \in 1..(LastBlock + 1) /\ num \in 0..LastBlock
    BY <2>1, BuildAssumption DEF PayloadInv
  <2>3. payload \in Payload /\ Len(payload.hash) = num /\ RoomForAll(payload)
    BY <2>1 DEF PayloadInv
  <2>4. parent' \in Seq(Txs) /\ Len(parent') = num' - 1
    BY <2>1, <2>2, <2>3 DEF Payload
  <2>5. reference' \in Seq(Txs) /\ Len(reference') = num' - 1
    <3>1. ReferenceTxs \in Txs
      BY ReferenceTxsType DEF TranslationInv
    <3>2. reference \in Seq(Txs) /\ Len(reference) = num - 1
      BY DEF PayloadInv
    <3>3. Append(reference, ReferenceTxs) \in Seq(Txs)
          /\ Len(Append(reference, ReferenceTxs)) = Len(reference) + 1
      BY <3>1, <3>2, AppendProperties
    <3> QED
      BY <2>1, <2>2, <3>2, <3>3 DEF ReferenceHash
  <2>6. PICK wallets \in NewAddresses(events.wallets) :
          sent' = [num |-> num, payload |-> payload,
                   receipts |-> IF num > DeployBlock THEN txs ELSE << >>,
                   events |-> IF num > DeployBlock THEN [events EXCEPT !.wallets = wallets]
                              ELSE NoEvents]
    BY <1>4 DEF FinishBlock
  <2>7. sent'.payload = payload
    BY <2>6
  <2>8. sent' \in [num : 0..LastBlock, payload : Payload, receipts : Txs, events : Events]
    <3>1. wallets \in Seq(0..MaxActions)
      BY WalletsType
    <3>2. [events EXCEPT !.wallets = wallets] \in Events
      BY <3>1 DEF TranslationInv, Events
    <3>3. txs \in Txs /\ << >> \in Txs
      BY EmptySeq DEF TranslationInv, Txs
    <3> QED
      BY <2>2, <2>3, <2>6, <3>2, <3>3, NoEventsType
  <2>9. RoomForAll(sent.payload)'
    BY <2>1, <2>3, <2>7 DEF RoomForAll, GasNeeded
  <2> QED
    BY <2>1, <2>2, <2>3, <2>4, <2>5, <2>8, <2>9 DEF PayloadInv
<1>5. CASE UNCHANGED vars
  BY <1>5 DEF vars, work, PayloadInv, RoomForAll, GasNeeded
<1> QED
  BY <1>1, <1>2, <1>3, <1>4, <1>5 DEF Next

\* Every state keeps the translation and the payload in order.
THEOREM TranslationHolds == Spec => [](TranslationInv /\ PayloadInv)
<1>1. Init => TranslationInv /\ PayloadInv
  BY TranslationInit, PayloadInit
<1>2. (TranslationInv /\ PayloadInv) /\ [Next]_vars => (TranslationInv /\ PayloadInv)'
  BY TranslationPreserved, PayloadPreserved
<1> QED
  BY <1>1, <1>2, PTL DEF Spec

\* The invariants give the types.
LEMMA TypesFollow == TranslationInv /\ PayloadInv => TypeOK
<1> SUFFICES ASSUME TranslationInv, PayloadInv PROVE TypeOK
  OBVIOUS
<1> DEFINE traceSet == [of : 1..MaxActions, kind : Kinds, shown : env.shown]
<1>1. /\ script \in Seq(Kinds) /\ Len(script) \in Nat /\ Len(script) <= MaxActions
      /\ MaxActions \in Nat /\ Len(txs) \in Nat /\ Len(traces) \in Nat
      /\ Len(txs) + Len(traces) <= MaxActions
  BY LenProperties, BuildAssumption DEF TranslationInv, ScriptInv, Txs
<1>2. TracesFor(script) \subseteq traceSet
  BY <1>1 DEF TracesFor
<1>3. traces \in Seq(TracesFor(script))
  BY DEF TranslationInv
<1> HIDE DEF traceSet
<1>4. traces \in Seq(traceSet)
  BY <1>2, <1>3, SeqGrows
<1>5. gas \in Gas
  <2>1. gas \in [used : Nat, limit : Nat] /\ gas.used <= 2 * Len(txs)
    BY DEF TranslationInv
  <2>2. gas.used \in 0..(2 * MaxActions)
    BY <1>1, <2>1
  <2> QED
    BY <2>1, <2>2 DEF Gas
<1>6. /\ env \in [endpoint : BOOLEAN, sampleEvery : Nat, shown : Shows, faults : FaultSets]
      /\ txs \in Txs /\ seen \in 0..MaxActions /\ events \in Events
  BY DEF TranslationInv
<1> QED
  BY <1>1, <1>4, <1>5, <1>6 DEF TypeOK, PayloadInv, traceSet

\* TypeOK: indices, gas and events of a block stay within what its actions allow, and
\* hashes grow by one list of transactions with every block sent.
THEOREM BuildTypesHold == Spec => []TypeOK
BY TranslationHolds, TypesFollow, PTL

\* The invariant of the payload leaves room for each transaction.
LEMMA RoomIsLeft == PayloadInv => GasFits
<1> SUFFICES ASSUME PayloadInv, pc = "take" PROVE
      \A i \in DOMAIN sent.payload.txs : GasNeeded(sent.payload.txs[i]) <= sent.payload.gas.limit
  BY DEF GasFits
<1>1. sent.payload.txs \in Seq(Tx)
  BY DEF PayloadInv, Payload, Txs
<1>2. DOMAIN sent.payload.txs = 1..Len(sent.payload.txs)
  BY <1>1, LenProperties
<1> QED
  BY <1>2 DEF PayloadInv, RoomForAll

\* GasFits: HeaderGas and the cumulative gas of add_transaction leave room for what
\* each transaction may use, in built and in recovered blocks.
THEOREM BlocksCanRun == Spec => []GasFits
BY TranslationHolds, RoomIsLeft, PTL

-------------------------------------------------------------------------------
(***************************************************************************)
(* When SHIP shows all actions, the translation follows them in order.     *)
(***************************************************************************)

\* The events of the first h actions on the reference chain.
KindUpTo(kind, h) == {i \in 1..h : script[i] = kind}
TxsAt(i) == Cardinality(TransactionsBefore(script, i))
LastUpTo(kind, h) == IF KindUpTo(kind, h) = {} THEN NoChange ELSE TxsAt(Max(KindUpTo(kind, h)))
WalletsUpTo(h) == Picked([i \in 1..Len(script) |-> TxsAt(i)], KindUpTo("wallet", h))
EventsUpTo(h) == [gasPrice |-> LastUpTo("gasPrice", h), revision |-> LastUpTo("revision", h),
                  wallets |-> WalletsUpTo(h)]

\* The actions of a kind, one more action considered.
LEMMA KindsInOrder ==
  ASSUME NEW kind, NEW h \in Nat
  PROVE  /\ KindUpTo(kind, h) \in SUBSET (1..h) /\ IsFiniteSet(KindUpTo(kind, h))
         /\ script[h + 1] = kind => KindUpTo(kind, h + 1) = KindUpTo(kind, h) \cup {h + 1}
         /\ script[h + 1] # kind => KindUpTo(kind, h + 1) = KindUpTo(kind, h)
<1>1. KindUpTo(kind, h) \in SUBSET (1..h)
  BY DEF KindUpTo
<1>2. IsFiniteSet(KindUpTo(kind, h))
  BY <1>1, PositionsAreFinite
<1>3. 1..(h + 1) = 1..h \cup {h + 1}
  OBVIOUS
<1>4. /\ script[h + 1] = kind => KindUpTo(kind, h + 1) = KindUpTo(kind, h) \cup {h + 1}
      /\ script[h + 1] # kind => KindUpTo(kind, h + 1) = KindUpTo(kind, h)
  BY <1>3 DEF KindUpTo
<1> QED
  BY <1>1, <1>2, <1>4

\* The last action of a kind, one more action considered.
LEMMA LastInOrder ==
  ASSUME NEW kind, NEW h \in Nat
  PROVE  LastUpTo(kind, h + 1) = IF script[h + 1] = kind THEN TxsAt(h + 1) ELSE LastUpTo(kind, h)
<1>1. CASE script[h + 1] # kind
  BY <1>1, KindsInOrder DEF LastUpTo
<1>2. CASE script[h + 1] = kind
  <2> DEFINE old == KindUpTo(kind, h)
             new == old \cup {h + 1}
  <2>1. old \in SUBSET (1..h) /\ IsFiniteSet(old) /\ KindUpTo(kind, h + 1) = new
    BY <1>2, KindsInOrder
  <2>2. new \in SUBSET Int /\ new # {} /\ h + 1 \in new /\ \A i \in new : i <= h + 1
    BY <2>1
  <2>3. IsFiniteSet(new)
    BY <2>1, FS_AddElement
  <2> HIDE DEF new, old
  <2>4. Max(new) \in new /\ \A i \in new : i <= Max(new)
    BY <2>2, <2>3, MaxOf
  <2>5. Max(new) = h + 1
    <3>1. Max(new) \in Int /\ h + 1 <= Max(new) /\ Max(new) <= h + 1
      BY <2>2, <2>4
    <3> QED
      BY <3>1
  <2> QED
    BY <1>2, <2>1, <2>2, <2>5 DEF LastUpTo
<1> QED
  BY <1>1, <1>2

\* The wallets, one more action considered.
LEMMA WalletsInOrder ==
  ASSUME ScriptInv, NEW h \in 0..Len(script), h < Len(script)
  PROVE  WalletsUpTo(h + 1) = IF script[h + 1] = "wallet" THEN Append(WalletsUpTo(h), TxsAt(h + 1))
                              ELSE WalletsUpTo(h)
<1> DEFINE n == Len(script)
           all == [i \in 1..n |-> TxsAt(i)]
           wallets == KindUpTo("wallet", h)
<1>1. n \in Nat
  BY LenProperties DEF ScriptInv
<1>2. h \in Nat /\ h + 1 \in 1..n
  BY <1>1
<1>3. wallets \in SUBSET (1..h)
      /\ (script[h + 1] = "wallet" => KindUpTo("wallet", h + 1) = wallets \cup {h + 1})
      /\ (script[h + 1] # "wallet" => KindUpTo("wallet", h + 1) = wallets)
  BY <1>2, KindsInOrder
<1>4. WalletsUpTo(h) = Picked(all, wallets)
      /\ WalletsUpTo(h + 1) = Picked(all, KindUpTo("wallet", h + 1))
      /\ all[h + 1] = TxsAt(h + 1)
  BY <1>2 DEF WalletsUpTo
<1>5. all \in [1..n -> Nat]
  <2> SUFFICES ASSUME NEW i \in 1..n PROVE TxsAt(i) \in Nat
    OBVIOUS
  <2>1. i \in Nat \ {0}
    OBVIOUS
  <2> QED
    BY <2>1, TransactionsInOrder DEF TxsAt
<1> HIDE DEF n, all, wallets
<1>6. all \in Seq(Nat)
  BY <1>1, <1>5, SeqDef
<1>7. Len(all) = n
  BY <1>1, <1>5, <1>6, LenProperties
<1>8. Picked(all, wallets \cup {h + 1}) = Append(Picked(all, wallets), all[h + 1])
  <2>1. wallets \in SUBSET (1..Len(all)) /\ h + 1 \in 1..Len(all) /\ \A i \in wallets : i < h + 1
    BY <1>1, <1>2, <1>3, <1>7
  <2> QED
    BY <1>6, <2>1, PickedAppends
<1> QED
  BY <1>3, <1>4, <1>8

\* The events, one more action considered.
LEMMA EventsInOrder ==
  ASSUME ScriptInv, NEW h \in 0..Len(script), h < Len(script)
  PROVE  /\ TxsAt(h + 1) = Len(TxsUpTo(h))
         /\ EventsUpTo(h + 1) =
              [gasPrice |-> IF script[h + 1] = "gasPrice" THEN Len(TxsUpTo(h))
                            ELSE EventsUpTo(h).gasPrice,
               revision |-> IF script[h + 1] = "revision" THEN Len(TxsUpTo(h))
                            ELSE EventsUpTo(h).revision,
               wallets |-> IF script[h + 1] = "wallet"
                           THEN Append(EventsUpTo(h).wallets, Len(TxsUpTo(h)))
                           ELSE EventsUpTo(h).wallets]
<1>1. h \in Nat
  BY LenProperties DEF ScriptInv
<1>2. TxsAt(h + 1) = Len(TxsUpTo(h))
  BY TxsInOrder DEF TxsAt
<1>3. /\ EventsUpTo(h).gasPrice = LastUpTo("gasPrice", h)
      /\ EventsUpTo(h).revision = LastUpTo("revision", h)
      /\ EventsUpTo(h).wallets = WalletsUpTo(h)
  BY DEF EventsUpTo
<1>4. EventsUpTo(h + 1) = [gasPrice |-> LastUpTo("gasPrice", h + 1),
                           revision |-> LastUpTo("revision", h + 1),
                           wallets |-> WalletsUpTo(h + 1)]
  BY DEF EventsUpTo
<1>5. LastUpTo("gasPrice", h + 1) = IF script[h + 1] = "gasPrice" THEN TxsAt(h + 1)
                                    ELSE LastUpTo("gasPrice", h)
  BY <1>1, LastInOrder
<1>6. LastUpTo("revision", h + 1) = IF script[h + 1] = "revision" THEN TxsAt(h + 1)
                                    ELSE LastUpTo("revision", h)
  BY <1>1, LastInOrder
<1>7. WalletsUpTo(h + 1) = IF script[h + 1] = "wallet" THEN Append(WalletsUpTo(h), TxsAt(h + 1))
                           ELSE WalletsUpTo(h)
  BY WalletsInOrder
<1> QED
  BY <1>2, <1>3, <1>4, <1>5, <1>6, <1>7

\* Nothing comes before the first action.
LEMMA NoEventsBefore ==
  ASSUME ScriptInv
  PROVE  EventsUpTo(0) = NoEvents
<1>1. \A kind : KindUpTo(kind, 0) = {}
  BY DEF KindUpTo
<1>2. LastUpTo("gasPrice", 0) = NoChange /\ LastUpTo("revision", 0) = NoChange
  BY <1>1 DEF LastUpTo
<1>3. WalletsUpTo(0) = << >>
  <2>1. WalletsUpTo(0) = Picked([i \in 1..Len(script) |-> TxsAt(i)], {})
    BY <1>1 DEF WalletsUpTo
  <2>2. Cardinality({}) = 0
    BY FS_EmptySet
  <2> QED
    BY <2>1, <2>2 DEF Picked
<1> QED
  BY <1>2, <1>3 DEF EventsUpTo, NoEvents

\* The first h actions are handled, the others are left, and what was made of the first
\* is what the reference chain has.
UpTo(h) ==
  /\ Len(traces) = Len(script) - h /\ \A n \in 1..Len(traces) : traces[n].of = h + n
  /\ txs = TxsUpTo(h) /\ gas.used = GasBefore(script, h + 1) /\ events = EventsUpTo(h)

InOrder == \E h \in 0..Len(script) : UpTo(h)

OrderInv ==
  pc # "take" => /\ num <= DeployBlock => traces = << >> /\ txs = << >>
                 /\ num > DeployBlock /\ AllAreShown => InOrder

\* A block starts before its first action.
LEMMA OrderStarts ==
  ASSUME TranslationInv, PayloadInv, TakeBlock
  PROVE  OrderInv'
<1>0. PICK actions \in Scripts :
        /\ script' = actions
        /\ \E shown \in [1..Len(actions) -> env.shown] :
             traces' = IF num <= DeployBlock THEN << >> ELSE TracesOf(actions, shown)
  BY DEF TakeBlock
<1>1. PICK shown \in [1..Len(actions) -> env.shown] :
        traces' = IF num <= DeployBlock THEN << >> ELSE TracesOf(actions, shown)
  BY <1>0
<1>2. env' = env /\ num' = num /\ txs' = << >> /\ gas' = NoGas /\ events' = NoEvents
  BY DEF TakeBlock
<1>3. num' <= DeployBlock => traces' = << >> /\ txs' = << >>
  BY <1>1, <1>2
<1>4. ASSUME num > DeployBlock, AllAreShown
      PROVE  InOrder'
  <2>1. DeployBlock \in Int /\ num \in Int
    BY BuildAssumption DEF PayloadInv
  <2>2. traces' = TracesOf(actions, shown)
    BY <1>1, <1>4, <2>1
  <2>3. /\ actions \in Seq(Kinds) /\ Len(actions) \in Nat
        /\ Len(traces') = Len(actions) /\ \A n \in 1..Len(actions) : traces'[n].of = n
    BY <1>4, <2>2, TracesOfActions, LenProperties
  <2>4. ScriptInv'
    <3>1. (TranslationInv => ScriptInv)'
      BY DEF TranslationInv
    <3> QED
      BY <3>1, TranslationStarts
  <2>5. TxsUpTo(0)' = << >> /\ GasBefore(script, 1)' = 0 /\ EventsUpTo(0)' = NoEvents
    <3>1. (ScriptInv => TxsUpTo(0) = << >> /\ GasBefore(script, 1) = 0)'
      BY NothingBefore, PTL
    <3>2. (ScriptInv => EventsUpTo(0) = NoEvents)'
      BY NoEventsBefore, PTL
    <3> QED
      BY <2>4, <3>1, <3>2
  <2>6. 0 + 1 = 1 /\ 0 \in 0..Len(actions) /\ Len(actions) - 0 = Len(actions)
        /\ \A n \in 1..Len(actions) : 0 + n = n
    BY <2>3
  <2>7. UpTo(0)'
    BY <1>0, <1>2, <2>3, <2>5, <2>6 DEF UpTo, NoGas
  <2> QED
    BY <1>0, <2>6, <2>7 DEF InOrder
<1> QED
  BY <1>2, <1>3, <1>4 DEF OrderInv, AllAreShown

\* The next action is the first that is left.
LEMMA NextAction ==
  ASSUME TranslationInv, traces # << >>, NEW h \in 0..Len(script), UpTo(h)
  PROVE  /\ h < Len(script) /\ h + 1 \in 1..Len(script) /\ h \in Nat /\ Len(script) \in Nat
         /\ Head(traces).of = h + 1 /\ Head(traces).kind = script[h + 1]
         /\ Len(Tail(traces)) = Len(script) - (h + 1)
         /\ \A n \in 1..Len(Tail(traces)) : Tail(traces)[n].of = h + 1 + n
<1>1. Len(script) \in Nat
  BY LenProperties DEF TranslationInv, ScriptInv
<1>2. /\ traces \in Seq(TracesFor(script)) /\ Len(traces) \in Nat /\ Len(traces) # 0
      /\ Len(Tail(traces)) = Len(traces) - 1
      /\ Head(traces) \in TracesFor(script) /\ Head(traces) = traces[1]
      /\ \A n \in 1..(Len(traces) - 1) : Tail(traces)[n] = traces[n + 1]
  BY LenProperties, EmptySeq, HeadTailProperties DEF TranslationInv
<1>3. Len(traces) = Len(script) - h /\ \A n \in 1..Len(traces) : traces[n].of = h + n
  BY DEF UpTo
<1>4. h < Len(script) /\ h + 1 \in 1..Len(script) /\ h \in Nat
      /\ Len(Tail(traces)) = Len(script) - (h + 1)
  BY <1>1, <1>2, <1>3
<1>5. Head(traces).of = h + 1
  BY <1>1, <1>2, <1>3
<1>6. Head(traces).kind = script[h + 1]
  BY <1>2, <1>5 DEF TracesFor
<1>7. \A n \in 1..Len(Tail(traces)) : Tail(traces)[n].of = h + 1 + n
  <2> SUFFICES ASSUME NEW n \in 1..Len(Tail(traces)) PROVE Tail(traces)[n].of = h + 1 + n
    OBVIOUS
  <2>1. n \in 1..(Len(traces) - 1) /\ n + 1 \in 1..Len(traces)
    BY <1>2
  <2>2. Tail(traces)[n] = traces[n + 1] /\ traces[n + 1].of = h + (n + 1)
    BY <1>2, <1>3, <2>1
  <2> QED
    BY <1>4, <2>1, <2>2
<1> QED
  BY <1>1, <1>4, <1>5, <1>6, <1>7

\* What a translation that has come to action h makes does not depend on the traces.
LEMMA SameActions ==
  ASSUME script' = script, NEW h
  PROVE  /\ TxsUpTo(h)' = TxsUpTo(h) /\ EventsUpTo(h)' = EventsUpTo(h)
         /\ GasBefore(script, h + 1)' = GasBefore(script, h + 1)
<1>1. TxsUpTo(h)' = TxsUpTo(h)
  BY DEF TxsUpTo, TxOf
<1>2. EventsUpTo(h)' = EventsUpTo(h)
  BY DEF EventsUpTo, LastUpTo, WalletsUpTo, KindUpTo, TxsAt
<1> QED
  BY <1>1, <1>2

\* Each action handled adds its transaction, or its event, to those before it.
LEMMA OrderGoesOn ==
  ASSUME TranslationInv, HandleAction, NEW h \in 0..Len(script), UpTo(h)
  PROVE  InOrder'
<1>1. /\ traces # << >> /\ script' = script
      /\ \/ IsTransaction(Head(traces).kind) /\ AddTransaction /\ events' = events
         \/ ActionFails /\ events' = events
         \/ pc' = "failed" /\ UNCHANGED <<traces, txs, gas, events>>
         \/ /\ ~IsTransaction(Head(traces).kind) /\ EventHandled
            /\ traces' = Tail(traces) /\ UNCHANGED <<pc, txs, gas>>
  BY ActionsDo
<1>2. ScriptInv
  BY DEF TranslationInv
<1>3. /\ h < Len(script) /\ h + 1 \in 1..Len(script) /\ h \in Nat /\ Len(script) \in Nat
      /\ Head(traces).of = h + 1 /\ Head(traces).kind = script[h + 1]
      /\ Len(Tail(traces)) = Len(script) - (h + 1)
      /\ \A n \in 1..Len(Tail(traces)) : Tail(traces)[n].of = h + 1 + n
  BY <1>1, NextAction
<1>4. txs = TxsUpTo(h) /\ gas.used = GasBefore(script, h + 1) /\ events = EventsUpTo(h)
  BY DEF UpTo
<1>5. /\ TxsUpTo(h + 1) = IF IsTransaction(script[h + 1]) THEN Append(TxsUpTo(h), TxOf(h + 1))
                          ELSE TxsUpTo(h)
      /\ Len(TxsUpTo(h)) = Cardinality(TransactionsBefore(script, h + 1))
  BY <1>2, <1>3, TxsInOrder
<1>6. GasBefore(script, h + 2) = IF IsTransaction(script[h + 1])
                                 THEN GasBefore(script, h + 1) + GasUsed(script[h + 1])
                                 ELSE GasBefore(script, h + 1)
  <2>1. h + 1 \in Nat \ {0} /\ h + 1 + 1 = h + 2
    BY <1>3
  <2> QED
    BY <2>1, GasAdds
<1>7. EventsUpTo(h + 1) =
              [gasPrice |-> IF script[h + 1] = "gasPrice" THEN Len(TxsUpTo(h))
                            ELSE EventsUpTo(h).gasPrice,
               revision |-> IF script[h + 1] = "revision" THEN Len(TxsUpTo(h))
                            ELSE EventsUpTo(h).revision,
               wallets |-> IF script[h + 1] = "wallet"
                           THEN Append(EventsUpTo(h).wallets, Len(TxsUpTo(h)))
                           ELSE EventsUpTo(h).wallets]
  BY <1>2, <1>3, EventsInOrder
<1>8. EventsUpTo(h) = [gasPrice |-> EventsUpTo(h).gasPrice, revision |-> EventsUpTo(h).revision,
                       wallets |-> EventsUpTo(h).wallets]
  BY DEF EventsUpTo
<1> DEFINE next == h + 1
<1>9. next \in 0..Len(script) /\ next + 1 = h + 2
  BY <1>3
<1>10. CASE traces' = Tail(traces) /\ txs' = TxsUpTo(h + 1)
            /\ gas'.used = GasBefore(script, h + 2) /\ events' = EventsUpTo(h + 1)
  <2>1. TxsUpTo(next)' = TxsUpTo(h + 1) /\ EventsUpTo(next)' = EventsUpTo(h + 1)
        /\ GasBefore(script, next + 1)' = GasBefore(script, h + 2)
    BY <1>1, <1>9, SameActions
  <2>2. UpTo(next)'
    BY <1>1, <1>3, <1>10, <2>1 DEF UpTo
  <2> QED
    BY <1>1, <1>9, <2>2 DEF InOrder
<1>11. CASE IsTransaction(Head(traces).kind) /\ AddTransaction /\ events' = events
  <2>1. /\ traces' = Tail(traces)
        /\ txs' = Append(txs, Transaction(h + 1, script[h + 1], Len(txs), gas.used))
        /\ gas'.used = gas.used + GasUsed(script[h + 1])
    BY <1>3, <1>11 DEF AddTransaction, Transaction
  <2>2. TxOf(h + 1) = Transaction(h + 1, script[h + 1], Len(txs), gas.used)
    BY <1>4, <1>5 DEF TxOf
  <2>3. IsTransaction(script[h + 1])
    BY <1>3, <1>11
  <2>4. EventsUpTo(h + 1) = EventsUpTo(h)
    BY <1>7, <1>8, <2>3 DEF IsTransaction
  <2> QED
    BY <1>4, <1>5, <1>6, <1>10, <1>11, <2>1, <2>2, <2>3, <2>4
<1>12. CASE ~IsTransaction(Head(traces).kind) /\ EventHandled
            /\ traces' = Tail(traces) /\ UNCHANGED <<pc, txs, gas>>
  <2>1. ~IsTransaction(script[h + 1])
    BY <1>3, <1>12
  <2>2. txs' = TxsUpTo(h + 1) /\ gas'.used = GasBefore(script, h + 2)
    BY <1>4, <1>5, <1>6, <1>12, <2>1
  <2>3. events' = EventsUpTo(h + 1)
    <3>1. PICK a, b, c : /\ events = [gasPrice |-> a, revision |-> b, wallets |-> c]
                         /\ EventsUpTo(h).gasPrice = a /\ EventsUpTo(h).revision = b
                         /\ EventsUpTo(h).wallets = c
      BY <1>4, <1>8
    <3>2. Len(TxsUpTo(h)) = Len(txs)
      BY <1>4
    <3>3. CASE script[h + 1] = "gasPrice"
      BY <1>3, <1>7, <1>12, <3>1, <3>2, <3>3 DEF EventHandled
    <3>4. CASE script[h + 1] = "revision"
      BY <1>3, <1>7, <1>12, <3>1, <3>2, <3>4 DEF EventHandled
    <3>5. CASE script[h + 1] = "wallet"
      BY <1>3, <1>7, <1>12, <3>1, <3>2, <3>5 DEF EventHandled
    <3>6. CASE script[h + 1] = "other"
      BY <1>3, <1>7, <1>12, <3>1, <3>2, <3>6 DEF EventHandled
    <3> QED
      BY <1>3, <1>12, <3>3, <3>4, <3>5, <3>6 DEF EventHandled
  <2> QED
    BY <1>10, <1>12, <2>2, <2>3
<1>13. CASE UNCHANGED <<traces, txs, gas, events>>
  <2>1. UpTo(h)'
    BY <1>1, <1>13, SameActions DEF UpTo
  <2> QED
    BY <1>1, <2>1 DEF InOrder
<1>14. ActionFails /\ events' = events => UNCHANGED <<traces, txs, gas, events>>
  BY DEF ActionFails
<1> QED
  BY <1>1, <1>11, <1>12, <1>13, <1>14

\* Every step keeps the order.
LEMMA OrderPreserved ==
  ASSUME TranslationInv, PayloadInv, OrderInv, [Next]_vars
  PROVE  OrderInv'
<1>1. CASE TakeBlock
  BY <1>1, OrderStarts
<1>2. CASE HandleAction
  <2>1. pc = "actions" /\ traces # << >> /\ UNCHANGED <<env, num, script>>
    BY <1>2, ActionsDo
  <2>2. ~(num <= DeployBlock)
    BY <2>1 DEF OrderInv
  <2>3. AllAreShown => InOrder
    <3>1. num \in Int /\ DeployBlock \in Int
      BY BuildAssumption DEF PayloadInv
    <3> QED
      BY <2>1, <2>2, <3>1 DEF OrderInv
  <2>4. AllAreShown => InOrder'
    BY <1>2, <2>3, OrderGoesOn DEF InOrder
  <2> QED
    BY <2>1, <2>2, <2>4 DEF OrderInv, AllAreShown
<1>3. CASE UNCHANGED <<env, num, script, traces, txs, gas, events>> /\ pc # "take"
  <2>1. InOrder => InOrder'
    BY <1>3, SameActions DEF InOrder, UpTo
  <2> QED
    BY <1>3, <2>1 DEF OrderInv, AllAreShown
<1>4. RecoverBlock \/ BuildBlock =>
        UNCHANGED <<env, num, script, traces, txs, gas, events>> /\ pc # "take"
  BY DEF RecoverBlock, BuildBlock
<1>5. CASE FinishBlock
  BY <1>5 DEF FinishBlock, OrderInv
<1>6. CASE UNCHANGED vars
  <2>1. UNCHANGED <<env, pc, num, script, traces, txs, gas, events>>
    BY <1>6 DEF vars, work
  <2>2. InOrder => InOrder'
    BY <2>1, SameActions DEF InOrder, UpTo
  <2> QED
    BY <2>1, <2>2 DEF OrderInv, AllAreShown
<1> QED
  BY <1>1, <1>2, <1>3, <1>4, <1>5, <1>6 DEF Next

-------------------------------------------------------------------------------
(***************************************************************************)
(* The block that is sent.                                                 *)
(***************************************************************************)

\* Our chain is the reference's, the payload about to be sent is its block, and what was
\* built here goes with the transactions translated here.
SentInv ==
  /\ CanBeRight => parent = reference
  /\ pc = "finish" /\ CanBeRight =>
       payload.hash = ReferenceHash /\ payload.hash = Append(payload.parent, payload.txs)
  /\ pc = "finish" /\ ~payload.recovered => payload.txs = txs /\ traces = << >>
  /\ SentIsCanonical
  /\ ExtraFieldsMatch

\* With all actions shown and handled, the translation is the reference's.
LEMMA AllTranslated ==
  ASSUME TranslationInv, PayloadInv, OrderInv, pc # "take", traces = << >>, AllAreShown
  PROVE  txs = ReferenceTxs /\ (num > DeployBlock => events = EventsUpTo(Len(script)))
<1>1. num \in Int /\ DeployBlock \in Int /\ Len(traces) = 0 /\ Len(script) \in Nat
  BY BuildAssumption, EmptySeq, LenProperties DEF PayloadInv, TranslationInv, ScriptInv
<1>2. ReferenceTxs = IF num <= DeployBlock THEN << >> ELSE TxsUpTo(Len(script))
  BY ReferenceTxsType DEF TranslationInv
<1>3. CASE num <= DeployBlock
  BY <1>1, <1>2, <1>3 DEF OrderInv
<1>4. CASE num > DeployBlock
  <2>1. PICK h \in 0..Len(script) : UpTo(h)
    BY <1>4 DEF OrderInv, InOrder
  <2>2. h = Len(script)
    BY <1>1, <2>1 DEF UpTo
  <2> QED
    BY <1>1, <1>2, <1>4, <2>1, <2>2 DEF UpTo
<1> QED
  BY <1>1, <1>3, <1>4

\* The block fetched, or built from all there is, is the reference's.
LEMMA PayloadIsRight ==
  ASSUME TranslationInv, PayloadInv, OrderInv, SentInv, RecoverBlock \/ BuildBlock, pc' = "finish"
  PROVE  /\ CanBeRight => /\ payload'.hash = ReferenceHash
                          /\ payload'.hash = Append(payload'.parent, payload'.txs)
         /\ ~payload'.recovered => payload'.txs = txs /\ traces = << >>
<1>1. CASE payload' \in Fetched
  <2>1. PICK p \in Fetched : p = payload'
    BY <1>1
  <2>2. /\ p.parent = parent /\ p.hash = ReferenceHash /\ p.recovered
        /\ (~May("rawNull") => p.txs = ReferenceTxs)
    BY FetchedTxs DEF TranslationInv
  <2>3. CanBeRight => ~May("rawNull") /\ parent = reference
    BY DEF CanBeRight, SentInv
  <2> QED
    BY <2>1, <2>2, <2>3 DEF ReferenceHash
<1>2. CASE BuildBlock /\ payload' = Built
  <2>1. pc = "actions" /\ traces = << >> /\ Built.hash = Append(parent, txs) /\ Built.txs = txs
        /\ Built.parent = parent
    BY <1>2 DEF BuildBlock, Built
  <2>2. ASSUME CanBeRight
        PROVE  Built.hash = ReferenceHash
    <3>1. CASE AllAreShown
      <4>1. txs = ReferenceTxs /\ parent = reference
        BY <2>1, <2>2, <3>1, AllTranslated DEF SentInv
      <4> QED
        BY <2>1, <4>1 DEF ReferenceHash
    <3>2. CASE ~AllAreShown
      <4>1. Checked /\ ~May("hashFails") /\ ~May("blockFails")
        BY <2>2, <3>2 DEF CanBeRight, AllAreShown, Checked, IsSampleBlock
      <4>2. \/ Built.hash = ReferenceHash
            \/ payload' \in Fetched
        BY <1>2, <4>1 DEF BuildBlock
      <4>3. payload' \in Fetched => payload'.recovered /\ ~Built.recovered
        BY FetchedTxs DEF TranslationInv, Built
      <4> QED
        BY <1>2, <4>2, <4>3
    <3> QED
      BY <3>1, <3>2
  <2> QED
    BY <1>2, <2>1, <2>2
<1> QED
  BY <1>1, <1>2 DEF RecoverBlock, BuildBlock, UseBuilt

\* The events of the block sent last on the reference chain.
LEMMA ReferenceEventsAre ==
  ReferenceEvents = IF sent.num <= DeployBlock THEN NoEvents ELSE EventsUpTo(Len(script))
BY DEF ReferenceEvents, EventsUpTo, LastUpTo, WalletsUpTo, KindUpTo, TxsAt

\* No wallets are some of no wallets.
LEMMA NoWallets == << >> \in NewAddresses(<< >>)
<1>1. << >> \in Seq({}) /\ Len(<< >>) = 0
  BY EmptySeq
<1>2. {} = 1..Len(<< >>) /\ {} \in SUBSET (1..Len(<< >>))
  BY <1>1
<1>3. Picked(<< >>, {}) = << >>
  BY <1>1, <1>2, AllPicked
<1>4. CASE May("address")
  BY <1>2, <1>3, <1>4 DEF NewAddresses
<1>5. CASE ~May("address")
  BY <1>5 DEF NewAddresses
<1> QED
  BY <1>4, <1>5

\* The block sent is the one that was made, its events are those of its transactions.
LEMMA SentIsRight ==
  ASSUME TranslationInv, PayloadInv, OrderInv, SentInv, FinishBlock
  PROVE  SentInv'
<1>1. /\ pc = "finish" /\ pc' = "take" /\ parent' = payload.hash
      /\ reference' = ReferenceHash /\ UNCHANGED <<env, script, txs>>
  BY DEF FinishBlock, work
<1>2. PICK wallets \in NewAddresses(events.wallets) :
        sent' = [num |-> num, payload |-> payload,
                 receipts |-> IF num > DeployBlock THEN txs ELSE << >>,
                 events |-> IF num > DeployBlock THEN [events EXCEPT !.wallets = wallets]
                            ELSE NoEvents]
  BY DEF FinishBlock
<1>3. sent'.num = num /\ sent'.payload = payload
      /\ (num > DeployBlock => sent'.receipts = txs
                               /\ sent'.events = [events EXCEPT !.wallets = wallets])
      /\ (~(num > DeployBlock) => sent'.receipts = << >> /\ sent'.events = NoEvents)
  BY <1>2
<1>4. CanBeRight' = CanBeRight
  BY <1>1 DEF CanBeRight, May
<1>5. CanBeRight => payload.hash = ReferenceHash /\ payload.hash = Append(payload.parent, payload.txs)
  BY <1>1 DEF SentInv
<1>6. (CanBeRight => parent = reference)'
  BY <1>1, <1>4, <1>5
<1>7. SentIsCanonical'
  BY <1>1, <1>3, <1>4, <1>5 DEF SentIsCanonical
<1>8. ASSUME AllAreShown, ~payload.recovered
      PROVE  /\ sent'.receipts = sent'.payload.txs
             /\ sent'.events.gasPrice = ReferenceEvents'.gasPrice
             /\ sent'.events.revision = ReferenceEvents'.revision
             /\ sent'.events.wallets \in NewAddresses(ReferenceEvents.wallets)'
  <2>0. num \in Int /\ DeployBlock \in Int
    BY BuildAssumption DEF PayloadInv
  <2>1. payload.txs = txs /\ traces = << >>
    BY <1>1, <1>8 DEF SentInv
  <2>2. txs = ReferenceTxs /\ (num > DeployBlock => events = EventsUpTo(Len(script)))
    BY <1>1, <1>8, <2>1, AllTranslated
  <2>3. ReferenceEvents' = IF sent'.num <= DeployBlock THEN NoEvents ELSE EventsUpTo(Len(script))'
    <3>1. (ReferenceEvents = IF sent.num <= DeployBlock THEN NoEvents
                             ELSE EventsUpTo(Len(script)))'
      BY ReferenceEventsAre, PTL
    <3> QED
      BY <3>1
  <2>4. EventsUpTo(Len(script))' = EventsUpTo(Len(script))
    <3>1. PICK h : h = Len(script)
      OBVIOUS
    <3> QED
      BY <1>1 DEF EventsUpTo, LastUpTo, WalletsUpTo, KindUpTo, TxsAt
  <2>5. NewAddresses(ReferenceEvents.wallets)' = NewAddresses(ReferenceEvents'.wallets)
    BY <1>1 DEF NewAddresses, May
  <2>6. CASE num > DeployBlock
    <3>1. ReferenceEvents' = events
      BY <1>3, <2>0, <2>2, <2>3, <2>4, <2>6
    <3>2. sent'.events.gasPrice = events.gasPrice /\ sent'.events.revision = events.revision
          /\ sent'.events.wallets = wallets
      BY <1>3, <2>6 DEF TranslationInv, Events
    <3> QED
      BY <1>2, <1>3, <2>1, <2>5, <2>6, <3>1, <3>2
  <2>7. CASE num <= DeployBlock
    <3>1. ReferenceEvents' = NoEvents /\ sent'.events = NoEvents /\ sent'.receipts = << >>
      BY <1>3, <2>0, <2>3, <2>7
    <3>2. txs = << >>
      BY <1>1, <2>7 DEF OrderInv
    <3>3. NoEvents.wallets = << >>
      BY DEF NoEvents
    <3> QED
      BY <1>3, <2>1, <2>5, <3>1, <3>2, <3>3, NoWallets
  <2> QED
    BY <2>0, <2>6, <2>7
<1>9. ExtraFieldsMatch'
  BY <1>1, <1>3, <1>8 DEF ExtraFieldsMatch, AllAreShown
<1> QED
  BY <1>1, <1>6, <1>7, <1>9 DEF SentInv

\* Before the first block the chains are the same, and nothing is sent.
LEMMA SentInit == Init => OrderInv /\ SentInv
<1> SUFFICES ASSUME Init PROVE OrderInv /\ SentInv
  OBVIOUS
<1>1. pc = "take" /\ parent = reference /\ ~HasSent
  BY DEF Init, HasSent
<1> QED
  BY <1>1 DEF OrderInv, SentInv, SentIsCanonical, ExtraFieldsMatch

\* Every step keeps it.
LEMMA SentPreserved ==
  ASSUME TranslationInv, PayloadInv, OrderInv, SentInv, [Next]_vars
  PROVE  SentInv'
<1>1. CASE UNCHANGED <<env, parent, reference, sent>> /\ pc' # "finish" /\ pc' # "take"
  <2>1. CanBeRight' = CanBeRight
    BY <1>1 DEF CanBeRight, May
  <2>2. SentIsCanonical'
    BY <1>1, <2>1 DEF SentInv, SentIsCanonical, HasSent
  <2>3. ExtraFieldsMatch'
    BY <1>1 DEF ExtraFieldsMatch
  <2> QED
    BY <1>1, <2>1, <2>2, <2>3 DEF SentInv
<1>2. CASE TakeBlock
  BY <1>1, <1>2 DEF TakeBlock
<1>3. CASE HandleAction
  <2>1. UNCHANGED <<env, parent, reference, sent>> /\ pc = "actions"
        /\ pc' \in {"actions", "recover", "failed"}
    <3>1. AddTransaction => pc' = pc
      BY DEF AddTransaction
    <3>2. ActionFails => pc' = "recover"
      BY DEF ActionFails
    <3> QED
      BY <1>3, <3>1, <3>2, ActionsDo
  <2> QED
    BY <1>1, <2>1
<1>4. CASE RecoverBlock \/ BuildBlock
  <2>1. /\ UNCHANGED <<env, num, parent, reference, script, traces, txs, sent>>
        /\ pc' \in {"finish", "failed"}
    BY <1>4 DEF RecoverBlock, BuildBlock, UseBuilt
  <2>2. CASE pc' = "failed"
    BY <1>1, <2>1, <2>2
  <2>3. CASE pc' = "finish"
    <3>1. CanBeRight' = CanBeRight
      BY <2>1 DEF CanBeRight, May
    <3>2. ReferenceHash' = ReferenceHash
      BY <2>1 DEF ReferenceHash, ReferenceTxs, TxOf
    <3>3. SentIsCanonical'
      BY <2>1, <3>1 DEF SentInv, SentIsCanonical, HasSent
    <3>4. ExtraFieldsMatch'
      BY <2>3 DEF ExtraFieldsMatch
    <3>5. /\ CanBeRight => /\ payload'.hash = ReferenceHash
                           /\ payload'.hash = Append(payload'.parent, payload'.txs)
          /\ ~payload'.recovered => payload'.txs = txs /\ traces = << >>
      BY <1>4, <2>3, PayloadIsRight
    <3>6. CanBeRight => parent = reference
      BY DEF SentInv
    <3> QED
      BY <2>1, <3>1, <3>2, <3>3, <3>4, <3>5, <3>6 DEF SentInv
  <2> QED
    BY <2>1, <2>2, <2>3
<1>5. CASE FinishBlock
  BY <1>5, SentIsRight
<1>6. CASE UNCHANGED vars
  <2>1. UNCHANGED <<env, pc, num, parent, reference, script, traces, txs, payload, sent>>
    BY <1>6 DEF vars, work
  <2>2. CanBeRight' = CanBeRight
    BY <2>1 DEF CanBeRight, May
  <2>3. ReferenceHash' = ReferenceHash
    BY <2>1 DEF ReferenceHash, ReferenceTxs, TxOf
  <2>4. SentIsCanonical'
    BY <2>1, <2>2 DEF SentInv, SentIsCanonical, HasSent
  <2>5. ExtraFieldsMatch'
    <3>1. (ReferenceEvents = IF sent.num <= DeployBlock THEN NoEvents
                             ELSE EventsUpTo(Len(script)))'
      BY ReferenceEventsAre, PTL
    <3>2. ReferenceEvents' = ReferenceEvents
      BY <2>1, <3>1, ReferenceEventsAre
         DEF EventsUpTo, LastUpTo, WalletsUpTo, KindUpTo, TxsAt
    <3>3. NewAddresses(ReferenceEvents.wallets)' = NewAddresses(ReferenceEvents.wallets)
      BY <2>1, <3>2 DEF NewAddresses, May
    <3> QED
      BY <2>1, <3>2, <3>3 DEF SentInv, ExtraFieldsMatch, HasSent
  <2> QED
    BY <2>1, <2>2, <2>3, <2>4, <2>5 DEF SentInv
<1> QED
  BY <1>2, <1>3, <1>4, <1>5, <1>6 DEF Next

\* Every state follows the reference chain.
THEOREM TranslationFollows == Spec => [](OrderInv /\ SentInv)
<1>1. Init => TranslationInv /\ PayloadInv /\ OrderInv /\ SentInv
  BY TranslationInit, PayloadInit, SentInit
<1>2. (TranslationInv /\ PayloadInv /\ OrderInv /\ SentInv) /\ [Next]_vars =>
        (TranslationInv /\ PayloadInv /\ OrderInv /\ SentInv)'
  BY TranslationPreserved, PayloadPreserved, OrderPreserved, SentPreserved
<1> QED
  BY <1>1, <1>2, PTL DEF Spec

\* SentIsCanonical: null answers, failed receipts, unknown accounts and, when every
\* block is checked, traces SHIP does not show end in the reference's block or in an
\* error, after any number of blocks.
THEOREM SentBlocksAreCanonical == Spec => []SentIsCanonical
<1>1. SentInv => SentIsCanonical
  BY DEF SentInv
<1> QED
  BY <1>1, TranslationFollows, PTL

\* ExtraFieldsMatch: receipts, gas price, revision and wallets sent beside a payload
\* belong to its transactions, and come after as many as on the reference chain.
THEOREM ExtraFieldsFitPayload == Spec => []ExtraFieldsMatch
<1>1. SentInv => ExtraFieldsMatch
  BY DEF SentInv
<1> QED
  BY <1>1, TranslationFollows, PTL
===============================================================================

---------------------------- MODULE StateDiffsProofs ----------------------------
(***************************************************************************)
(* Theorems about StateDiffs and AddressCache, for every value of their    *)
(* constants: any accounts, retries, capacity of the caches and blocks.    *)
(***************************************************************************)
EXTENDS StateDiffs, FiniteSetTheorems, SequenceTheorems, InductionFacts, TLAPS

-------------------------------------------------------------------------------
(***************************************************************************)
(* The caches.                                                             *)
(***************************************************************************)

\* A key and the position it is looked up at.
IsLookup(key, position) ==
  \/ key \in Names /\ position = "TERTIARY"
  \/ key \in Indexes /\ position = "PRIMARY"

\* An account's index, name and address have their types, and no name is an index.
LEMMA AccountTypes ==
  /\ \A a \in Accounts : a.index \in Indexes /\ a.name \in Names /\ a.address \in Address
                         /\ a.index \in Nat /\ a.name \in Nat
  /\ Names \cap Indexes = {}
  /\ NoAddress \notin Address
BY CacheAssumption DEF Names, Indexes

\* An insertion adds the address at its key, and may evict any entry.
LEMMA InsertedProperties ==
  ASSUME NEW K, NEW c \in [K -> Address \cup {NoAddress}], NEW key \in K,
         NEW address \in Address, NEW d \in Inserted(c, key, address)
  PROVE  /\ d \in [K -> Address \cup {NoAddress}]
         /\ \A k \in K : d[k] # NoAddress => d[k] = IF k = key THEN address ELSE c[k]
<1> DEFINE added == [c EXCEPT ![key] = address]
<1>1. added \in [K -> Address \cup {NoAddress}]
      /\ \A k \in K : added[k] = IF k = key THEN address ELSE c[k]
  OBVIOUS
<1>2. d = added \/ \E k \in K : d = [added EXCEPT ![k] = NoAddress]
  BY DEF Inserted
<1> HIDE DEF added
<1>3. CASE d = added
  BY <1>1, <1>3
<1>4. CASE \E k \in K : d = [added EXCEPT ![k] = NoAddress]
  <2>1. PICK e \in K : d = [added EXCEPT ![e] = NoAddress]
    BY <1>4
  <2> QED
    BY <1>1, <2>1
<1> QED
  BY <1>2, <1>3, <1>4

\* The bounds of a lookup leave only rows whose key is the one asked for.
LEMMA FoundIsRight ==
  ASSUME NEW key \in Nat, NEW position, NEW row \in Found(key, position)
  PROVE  row \in Accounts /\ KeyAt(position, row) = key
<1>1. PICK seen \in {a.index + 1 : a \in Accounts} :
        row \in get_account_address(key, position, seen)
  BY DEF Found
<1>2. row \in Accounts /\ key <= KeyAt(position, row) /\ KeyAt(position, row) <= key
  BY <1>1 DEF get_account_address
<1>3. KeyAt(position, row) \in Nat
  BY <1>2, AccountTypes DEF KeyAt
<1> QED
  BY <1>2, <1>3

\* A lookup that returns an address returns the right one, and leaves right caches.
LEMMA ResolvesRight ==
  ASSUME CacheTypeOK, CachesAreRight, NEW key, NEW position, IsLookup(key, position),
         NEW address, Resolves(key, position, address)
  PROVE  CacheTypeOK' /\ CachesAreRight' /\ IsAddressOf(address, key, position)
<1>0. key \in CacheKeys /\ key \in Nat
  BY AccountTypes DEF IsLookup, CacheKeys, Names, Indexes
<1>1. CASE IsHit(key, position) /\ address = Cached(key, position) /\ UNCHANGED cacheVars
  <2>1. CacheTypeOK' /\ CachesAreRight'
    BY <1>1 DEF CacheTypeOK, CachesAreRight, cacheVars
  <2>2. IsAddressOf(address, key, position)
    BY <1>1, AccountTypes DEF IsLookup, IsHit, Cached, CachesAreRight
  <2> QED
    BY <2>1, <2>2
<1>2. CASE \E row \in Found(key, position) : address = row.address /\ Keep(key, row)
  <2>1. PICK row \in Found(key, position) : address = row.address /\ Keep(key, row)
    BY <1>2
  <2>2. row \in Accounts /\ KeyAt(position, row) = key
    BY <1>0, FoundIsRight
  <2>3. row.index \in Indexes /\ row.index \in CacheKeys /\ address \in Address
    BY <2>1, <2>2, AccountTypes DEF CacheKeys
  <2>4. cache' \in Inserted(cache, key, address) /\ tries' = 0
        /\ index_cache' \in Inserted(index_cache, row.index, address)
    BY <2>1 DEF Keep
  <2>5. /\ cache' \in [CacheKeys -> Address \cup {NoAddress}]
        /\ \A k \in CacheKeys :
             cache'[k] # NoAddress => cache'[k] = IF k = key THEN address ELSE cache[k]
    <3>1. cache \in [CacheKeys -> Address \cup {NoAddress}]
      BY DEF CacheTypeOK
    <3>2. key \in CacheKeys /\ address \in Address
      BY <1>0, <2>3
    <3>3. cache' \in Inserted(cache, key, address)
      BY <2>4
    <3> QED
      BY <3>1, <3>2, <3>3, InsertedProperties
  <2>6. /\ index_cache' \in [Indexes -> Address \cup {NoAddress}]
        /\ \A k \in Indexes :
             index_cache'[k] # NoAddress =>
               index_cache'[k] = IF k = row.index THEN address ELSE index_cache[k]
    BY <2>3, <2>4, InsertedProperties DEF CacheTypeOK
  <2>7. CacheTypeOK'
    BY <2>4, <2>5, <2>6, CacheAssumption DEF CacheTypeOK
  <2>8. IsAddressOf(address, key, position)
    BY <2>1, <2>2 DEF IsAddressOf
  <2>9. ASSUME NEW k \in Names, cache'[k] # NoAddress
        PROVE  IsAddressOf(cache'[k], k, "TERTIARY")
    <3>1. CASE k = key
      <4>1. position = "TERTIARY"
        BY <2>9, <3>1, AccountTypes DEF IsLookup
      <4> QED
        BY <2>5, <2>8, <2>9, <3>1, <4>1 DEF CacheKeys
    <3>2. CASE k # key
      BY <2>5, <2>9, <3>2 DEF CachesAreRight, CacheKeys
    <3> QED
      BY <3>1, <3>2
  <2>10. ASSUME NEW k \in Indexes, index_cache'[k] # NoAddress
         PROVE  IsAddressOf(index_cache'[k], k, "PRIMARY")
    <3>1. CASE k = row.index
      BY <2>1, <2>2, <2>6, <2>10, <3>1 DEF IsAddressOf, KeyAt
    <3>2. CASE k # row.index
      BY <2>6, <2>10, <3>2 DEF CachesAreRight
    <3> QED
      BY <3>1, <3>2
  <2> QED
    BY <2>7, <2>8, <2>9, <2>10 DEF CachesAreRight
<1> QED
  BY <1>1, <1>2 DEF Resolves

\* A try that fails, and a lookup that gives up, change no entry.
LEMMA FailureKeepsCaches ==
  ASSUME CacheTypeOK, CachesAreRight, NEW key, NEW position,
         Fails(key, position) \/ GivesUp(key, position)
  PROVE  CacheTypeOK' /\ CachesAreRight'
<1>1. UNCHANGED <<cache, index_cache>>
  BY DEF Fails, GivesUp
<1>2. tries' \in 0..MaxRetry
  BY CacheAssumption DEF CacheTypeOK, Fails, GivesUp
<1> QED
  BY <1>1, <1>2 DEF CacheTypeOK, CachesAreRight

\* Empty caches are right.
LEMMA EmptyIsRight ==
  ASSUME cache = Empty, index_cache = [k \in Indexes |-> NoAddress], tries = 0
  PROVE  CacheTypeOK /\ CachesAreRight
BY CacheAssumption DEF CacheTypeOK, CachesAreRight, Empty, CacheKeys

-------------------------------------------------------------------------------
(***************************************************************************)
(* The lookups of a block.                                                 *)
(***************************************************************************)

\* Everything that is looked up is an account of the contract: a scope of a row is
\* an index, a name is a name.
LookupInv ==
  /\ CacheTypeOK
  /\ CachesAreRight
  /\ IsFiniteSet(block.deltas)
  /\ \A d \in block.deltas : d.slot \in Slots
  /\ block.transfers \in Seq(Names) /\ block.wallets \in Seq(Names)
  /\ rows \in Seq(block.deltas)
  /\ pc = "native" => rows = << >>
  /\ names \in Seq(Names)
  /\ AddressesAreRight

\* The slots of the contract are finitely many.
LEMMA SlotsAreFinite == IsFiniteSet(Slots)
<1> DEFINE indexOf == [a \in Accounts |-> a.index]
<1>1. indexOf \in Surjection(Accounts, Indexes)
  BY DEF Surjection, Indexes
<1>2. IsFiniteSet(Indexes)
  BY <1>1, FS_Surjection, CacheAssumption
<1> QED
  BY <1>2, FS_Product, DiffsAssumption DEF Slots

\* A block's deltas are finitely many, and of slots.
LEMMA DeltasAreFinite ==
  ASSUME NEW effect \in [Slots -> {"none", "write", "clear", "recreate"}], NEW n
  PROVE  LET deltas == UNION {DeltasOf(s, effect[s], n) : s \in Slots}
         IN  IsFiniteSet(deltas) /\ \A d \in deltas : d.slot \in Slots
<1> DEFINE of == [s \in Slots |-> DeltasOf(s, effect[s], n)]
<1> DEFINE sets == {DeltasOf(s, effect[s], n) : s \in Slots}
<1>1. of \in Surjection(Slots, sets)
  BY DEF Surjection
<1>2. IsFiniteSet(sets)
  BY <1>1, SlotsAreFinite, FS_Surjection
<1>3. ASSUME NEW s \in Slots
      PROVE  /\ IsFiniteSet(DeltasOf(s, effect[s], n))
             /\ \A d \in DeltasOf(s, effect[s], n) : d.slot = s
  <2> DEFINE removed == Delta(s, FALSE, contract[s])
             created == Delta(s, TRUE, [index |-> n, value |-> n])
             written == IF contract[s] = NoRow THEN created
                        ELSE Delta(s, TRUE, [contract[s] EXCEPT !.value = n])
  <2>1. removed.slot = s /\ created.slot = s /\ written.slot = s
    BY DEF Delta
  <2>2. DeltasOf(s, effect[s], n) \in {{}, {written}, {removed}, {removed, created}}
    <3>1. effect[s] \in {"none", "write", "clear", "recreate"}
      OBVIOUS
    <3>2. CASE effect[s] = "none"
      BY <3>2 DEF DeltasOf
    <3>3. CASE effect[s] = "write"
      BY <3>3 DEF DeltasOf
    <3>4. CASE effect[s] = "clear"
      BY <3>4 DEF DeltasOf
    <3>5. CASE effect[s] = "recreate"
      BY <3>5 DEF DeltasOf
    <3> QED
      BY <3>1, <3>2, <3>3, <3>4, <3>5
  <2> HIDE DEF removed, created, written
  <2>3. {removed, created} = {removed} \cup {created}
    OBVIOUS
  <2>4. IsFiniteSet({}) /\ IsFiniteSet({written}) /\ IsFiniteSet({removed})
        /\ IsFiniteSet({removed, created})
    <3>1. IsFiniteSet({}) /\ IsFiniteSet({written}) /\ IsFiniteSet({removed})
      BY FS_EmptySet, FS_Singleton
    <3>2. IsFiniteSet({removed} \cup {created})
      BY <3>1, FS_AddElement
    <3> QED
      BY <2>3, <3>1, <3>2
  <2> QED
    BY <2>1, <2>2, <2>4
<1>4. IsFiniteSet(UNION sets)
  <2>1. \A T \in sets : IsFiniteSet(T)
    BY <1>3
  <2> QED
    BY <1>2, <2>1, FS_UNION
<1> QED
  BY <1>3, <1>4

\* A list of at most n names is a sequence of names.
LEMMA NameListsAreSequences ==
  ASSUME NEW lists \in NameLists
  PROVE  lists[1] \in Seq(Names) /\ lists[2] \in Seq(Names)
<1>1. lists[1] \in SeqOf(Names, env.maxNames) /\ lists[2] \in SeqOf(Names, env.maxNames)
  BY DEF NameLists
<1>2. SeqOf(Names, env.maxNames) \subseteq Seq(Names)
  BY SeqDef DEF SeqOf
<1> QED
  BY <1>1, <1>2

\* What is kept of a block's deltas is a sequence of them.
LEMMA RowsAreDeltas ==
  ASSUME IsFiniteSet(block.deltas), NEW order \in Orders(block.deltas),
         NEW sorted \in Orders(Deduplicated(order))
  PROVE  sorted \in Seq(block.deltas)
<1>1. order \in [1..Cardinality(block.deltas) -> block.deltas]
  BY DEF Orders
<1>2. Deduplicated(order) \subseteq block.deltas
  BY <1>1 DEF Deduplicated
<1>3. Cardinality(Deduplicated(order)) \in Nat
  BY <1>2, FS_Subset, FS_CardinalityType
<1>4. sorted \in [1..Cardinality(Deduplicated(order)) -> block.deltas]
  BY <1>2 DEF Orders
<1> QED
  BY <1>3, <1>4, SeqDef

\* The answer to a right lookup is right.
LEMMA AnswerIsRight ==
  ASSUME CacheTypeOK, CachesAreRight, AddressesAreRight, NEW key, NEW position,
         IsLookup(key, position), NEW address, Resolves(key, position, address),
         Answer(key, position, address)
  PROVE  CacheTypeOK' /\ CachesAreRight' /\ AddressesAreRight'
<1>1. CacheTypeOK' /\ CachesAreRight' /\ IsAddressOf(address, key, position)
  BY ResolvesRight
<1>2. answers' = answers \cup {[key |-> key, position |-> position, address |-> address]}
  BY DEF Answer
<1> QED
  BY <1>1, <1>2 DEF AddressesAreRight

\* Names are looked up by name, scopes by index.
LEMMA LookupsOfBlock ==
  ASSUME LookupInv
  PROVE  /\ names # << >> => IsLookup(Head(names), "TERTIARY") /\ Tail(names) \in Seq(Names)
         /\ rows # << >> => IsLookup(Scope, "PRIMARY") /\ Tail(rows) \in Seq(block.deltas)
<1>1. ASSUME names # << >>
      PROVE  IsLookup(Head(names), "TERTIARY") /\ Tail(names) \in Seq(Names)
  BY <1>1, HeadTailProperties DEF LookupInv, IsLookup
<1>2. ASSUME rows # << >>
      PROVE  IsLookup(Scope, "PRIMARY") /\ Tail(rows) \in Seq(block.deltas)
  <2>1. Head(rows) \in block.deltas /\ Tail(rows) \in Seq(block.deltas)
    BY <1>2, HeadTailProperties DEF LookupInv
  <2>2. Head(rows).slot \in Slots
    BY <2>1 DEF LookupInv
  <2>3. Scope \in Indexes
    BY <2>2 DEF Slots, Scope
  <2> QED
    BY <2>1, <2>3 DEF IsLookup
<1> QED
  BY <1>1, <1>2

\* Every action of a lookup keeps the invariant.
LEMMA LookupsPreserve ==
  ASSUME LookupInv, Lookups
  PROVE  LookupInv'
<1>0. CacheTypeOK /\ CachesAreRight /\ AddressesAreRight
  BY DEF LookupInv
<1>1. ASSUME block' = block, CacheTypeOK', CachesAreRight', AddressesAreRight',
             rows' \in Seq(block.deltas), names' \in Seq(Names), pc' # "native"
      PROVE  LookupInv'
  BY <1>1 DEF LookupInv
<1>2. CASE ResolveTransfer
  <2>1. names # << >> /\ names' = Tail(names) /\ pc = "transfers"
        /\ UNCHANGED <<block, pc, rows>>
    BY <1>2 DEF ResolveTransfer, native
  <2>2. CacheTypeOK' /\ CachesAreRight' /\ AddressesAreRight'
    BY <1>0, <1>2, <2>1, LookupsOfBlock, AnswerIsRight DEF ResolveTransfer
  <2> QED
    BY <1>1, <2>1, <2>2, LookupsOfBlock DEF LookupInv
<1>3. CASE AbandonTransfers
  <2>1. names' = << >> /\ pc = "transfers" /\ UNCHANGED <<block, pc, rows, answers>>
    BY <1>3 DEF AbandonTransfers, native
  <2>2. CacheTypeOK' /\ CachesAreRight'
    BY <1>0, <1>3, FailureKeepsCaches DEF AbandonTransfers
  <2>3. AddressesAreRight' /\ names' \in Seq(Names)
    BY <1>0, <2>1, EmptySeq DEF AddressesAreRight
  <2> QED
    BY <1>1, <2>1, <2>2, <2>3 DEF LookupInv
<1>4. CASE ResolveScope
  <2>1. rows # << >> /\ rows' = Tail(rows) /\ pc = "rows" /\ UNCHANGED <<block, pc, names>>
    BY <1>4 DEF ResolveScope, native
  <2>2. PICK address \in Address :
          Resolves(Scope, "PRIMARY", address) /\ Answer(Scope, "PRIMARY", address)
    BY <1>4 DEF ResolveScope
  <2>3. CacheTypeOK' /\ CachesAreRight' /\ AddressesAreRight'
    BY <1>0, <2>1, <2>2, LookupsOfBlock, AnswerIsRight
  <2> QED
    BY <1>1, <2>1, <2>3, LookupsOfBlock DEF LookupInv
<1>5. CASE DropRow
  <2>1. rows # << >> /\ rows' = Tail(rows) /\ pc = "rows"
        /\ UNCHANGED <<block, pc, names, answers>>
    BY <1>5 DEF DropRow, native
  <2>2. CacheTypeOK' /\ CachesAreRight'
    BY <1>0, <1>5, FailureKeepsCaches DEF DropRow
  <2>3. AddressesAreRight'
    BY <1>0, <2>1 DEF AddressesAreRight
  <2> QED
    BY <1>1, <2>1, <2>2, <2>3, LookupsOfBlock DEF LookupInv
<1>6. CASE ResolveWallet
  <2>1. names # << >> /\ names' = Tail(names) /\ pc = "wallets" /\ UNCHANGED <<block, pc, rows>>
    BY <1>6 DEF ResolveWallet, native
  <2>2. CASE \E address \in Address :
               Resolves(Head(names), "TERTIARY", address)
               /\ Answer(Head(names), "TERTIARY", address)
    <3>1. CacheTypeOK' /\ CachesAreRight' /\ AddressesAreRight'
      BY <1>0, <2>1, <2>2, LookupsOfBlock, AnswerIsRight
    <3> QED
      BY <1>1, <2>1, <3>1, LookupsOfBlock DEF LookupInv
  <2>3. CASE GivesUp(Head(names), "TERTIARY") /\ UNCHANGED answers
    <3>1. CacheTypeOK' /\ CachesAreRight'
      BY <1>0, <2>3, FailureKeepsCaches
    <3>2. AddressesAreRight'
      BY <1>0, <2>3 DEF AddressesAreRight
    <3> QED
      BY <1>1, <2>1, <3>1, <3>2, LookupsOfBlock DEF LookupInv
  <2> QED
    BY <1>6, <2>2, <2>3 DEF ResolveWallet
<1>7. CASE TryAgain
  <2>1. pc # "native" /\ UNCHANGED <<block, pc, rows, names, answers>>
    BY <1>7 DEF TryAgain, native
  <2>2. CacheTypeOK' /\ CachesAreRight'
    BY <1>0, <1>7, FailureKeepsCaches DEF TryAgain
  <2>3. AddressesAreRight'
    BY <1>0, <2>1 DEF AddressesAreRight
  <2> QED
    BY <1>1, <2>1, <2>2, <2>3 DEF LookupInv
<1> QED
  BY <1>2, <1>3, <1>4, <1>5, <1>6, <1>7 DEF Lookups

\* The invariant holds initially.
LEMMA LookupInit == Init => LookupInv
<1> SUFFICES ASSUME Init PROVE LookupInv
  OBVIOUS
<1>1. CacheTypeOK /\ CachesAreRight
  BY EmptyIsRight DEF Init, CacheInit
<1>2. block = [deltas |-> {}, transfers |-> << >>, wallets |-> << >>] /\ rows = << >>
      /\ names = << >> /\ answers = {}
  BY DEF Init
<1>3. IsFiniteSet(block.deltas)
  BY <1>2, FS_EmptySet
<1> QED
  BY <1>1, <1>2, <1>3, EmptySeq DEF LookupInv, AddressesAreRight

\* A new native block refers to accounts of the contract.
LEMMA NativeBlockPreserves ==
  ASSUME LookupInv, NativeBlock
  PROVE  LookupInv'
<1>1. PICK effect \in [Slots -> {"none", "write", "clear", "recreate"}],
           lists \in NameLists :
        block' = [deltas |-> UNION {DeltasOf(s, effect[s], num + 1) : s \in Slots},
                  transfers |-> lists[1], wallets |-> lists[2]]
  BY DEF NativeBlock
<1>2. IsFiniteSet(block'.deltas) /\ \A d \in block'.deltas : d.slot \in Slots
  BY <1>1, DeltasAreFinite
<1>3. block'.transfers \in Seq(Names) /\ block'.wallets \in Seq(Names)
  BY <1>1, NameListsAreSequences
<1>4. pc = "native" /\ pc' = "decode" /\ UNCHANGED <<cache, index_cache, tries, rows, names, answers>>
  BY DEF NativeBlock, cacheVars, work
<1>5. CacheTypeOK' /\ CachesAreRight' /\ AddressesAreRight'
  BY <1>4 DEF LookupInv, CacheTypeOK, CachesAreRight, AddressesAreRight
<1>6. rows' \in Seq(block'.deltas) /\ names' \in Seq(Names)
  BY <1>4, EmptySeq DEF LookupInv
<1> QED
  BY <1>2, <1>3, <1>4, <1>5, <1>6 DEF LookupInv

\* The rows of a block are decoded from its deltas.
LEMMA DecodePreserves ==
  ASSUME LookupInv, Decode
  PROVE  LookupInv'
<1>1. rows' \in Seq(block.deltas)
  BY RowsAreDeltas DEF Decode, LookupInv
<1>2. names' = block.transfers /\ answers' = {} /\ pc' = "transfers"
      /\ UNCHANGED <<block, cache, index_cache, tries>>
  BY DEF Decode, native, cacheVars
<1> QED
  BY <1>1, <1>2 DEF LookupInv, CacheTypeOK, CachesAreRight, AddressesAreRight

\* The steps between the lookups.
LEMMA OthersPreserve ==
  ASSUME LookupInv,
         \/ ActionsHandled \/ RowsResolved \/ BlockCompleted \/ WriteTmp \/ Rename
         \/ SendPayload \/ Answered \/ ExecutorApplies \/ UNCHANGED vars
  PROVE  LookupInv'
<1>1. UNCHANGED <<block, cache, index_cache, tries>>
  BY DEF ActionsHandled, RowsResolved, BlockCompleted, WriteTmp, Rename, SendPayload, Answered,
         ExecutorApplies, vars, native, cacheVars
<1>2. CacheTypeOK' /\ CachesAreRight'
  BY <1>1 DEF LookupInv, CacheTypeOK, CachesAreRight
<1>3. answers' = answers \/ answers' = {}
  BY DEF ActionsHandled, RowsResolved, BlockCompleted, WriteTmp, Rename, SendPayload, Answered,
         ExecutorApplies, vars, work
<1>4. AddressesAreRight'
  BY <1>3 DEF LookupInv, AddressesAreRight
<1>5. names' \in {names, << >>, block.wallets}
  BY DEF ActionsHandled, RowsResolved, BlockCompleted, WriteTmp, Rename, SendPayload, Answered,
         ExecutorApplies, vars, work
<1>6. names' \in Seq(Names)
  BY <1>5, EmptySeq DEF LookupInv
<1>7. \/ rows' = << >>
      \/ rows' = rows /\ pc' # "native"
      \/ rows' = rows /\ pc' = pc
  BY DEF ActionsHandled, RowsResolved, BlockCompleted, WriteTmp, Rename, SendPayload, Answered,
         ExecutorApplies, vars, work
<1>8. rows' \in Seq(block.deltas) /\ (pc' = "native" => rows' = << >>)
  BY <1>7, EmptySeq DEF LookupInv
<1> QED
  BY <1>1, <1>2, <1>4, <1>6, <1>8 DEF LookupInv

\* The next attempt starts with empty caches.
LEMMA RestartPreserves ==
  ASSUME LookupInv, Restart
  PROVE  LookupInv'
<1>1. cache' = Empty /\ index_cache' = [k \in Indexes |-> NoAddress] /\ tries' = 0
  BY DEF Restart
<1>2. CacheTypeOK' /\ CachesAreRight'
  BY <1>1, CacheAssumption DEF CacheTypeOK, CachesAreRight, Empty, CacheKeys
<1>3. rows' = << >> /\ names' = << >> /\ answers' = {} /\ UNCHANGED block
  BY DEF Restart, native
<1> QED
  BY <1>2, <1>3, EmptySeq DEF LookupInv, AddressesAreRight

\* NameToAddressCache::get and get_index: whatever is evicted, however replicas
\* lag, and though get_index also fills the cache that get reads, an account is
\* never taken for another, in the caches and in the block.
THEOREM LookupsAreRight == Spec => []LookupInv
<1>1. ASSUME LookupInv, [Next]_vars
      PROVE  LookupInv'
  <2>1. CASE NativeBlock
    BY <1>1, <2>1, NativeBlockPreserves
  <2>2. CASE Client
    BY <1>1, <2>2, DecodePreserves, LookupsPreserve, OthersPreserve DEF Client
  <2>3. CASE ExecutorApplies \/ UNCHANGED vars
    BY <1>1, <2>3, OthersPreserve
  <2>4. CASE Restart
    BY <1>1, <2>4, RestartPreserves
  <2> QED
    BY <1>1, <2>1, <2>2, <2>3, <2>4 DEF Next
<1> QED
  BY <1>1, LookupInit, PTL DEF Spec

\* The addresses a block is built with are those of the accounts asked for.
THEOREM AnswersAreRight == Spec => []AddressesAreRight
<1>1. LookupInv => AddressesAreRight
  BY DEF LookupInv
<1> QED
  BY <1>1, LookupsAreRight, PTL

-------------------------------------------------------------------------------
(***************************************************************************)
(* The files of extra fields.                                              *)
(***************************************************************************)

\* What is renamed is whole, what is there when the payload is sent is of the
\* attempt in hand, and a payload on its way to an executor that needs it has its
\* file or a warning.
FileInv ==
  /\ num \in Nat /\ applied \in Nat /\ pending \in Nat
  /\ pending <= num
  /\ pc = "native" => pending <= applied
  /\ pc = "rename" => tmp = ExtraFields
  /\ pc \in {"send", "wait"} /\ ~warned => file = ExtraFields
  /\ FilesAreWhole
  /\ PayloadHasItsFile

\* A whole file is neither missing nor a part.
LEMMA WholeIsWhole == ExtraFields # Nothing /\ ExtraFields # Partial /\ Nothing # Partial
<1>1. ExtraFields.kind = "whole" /\ Nothing.kind = "nothing" /\ Partial.kind = "partial"
  BY DEF ExtraFields, Nothing, Partial
<1> QED
  BY <1>1

\* The invariant is kept by every step.
LEMMA FilePreserved ==
  ASSUME FileInv, [Next]_vars
  PROVE  FileInv'
<1>1. CASE NativeBlock
  <2>1. num' = num + 1 /\ pc = "native" /\ pc' = "decode" /\ file' = Nothing
        /\ UNCHANGED <<applied, pending>>
    BY <1>1 DEF NativeBlock, remote
  <2> QED
    BY <2>1, WholeIsWhole DEF FileInv, FilesAreWhole, PayloadHasItsFile
<1>2. CASE Decode \/ Lookups \/ ActionsHandled \/ RowsResolved \/ BlockCompleted
  <2>1. pc' \in {"transfers", "rows", "wallets", "write"}
        /\ UNCHANGED <<num, applied, pending, file, warned>>
    BY <1>2 DEF Decode, Lookups, ActionsHandled, RowsResolved, BlockCompleted, ResolveTransfer,
                AbandonTransfers, ResolveScope, DropRow, ResolveWallet, TryAgain, native, disk,
                remote
  <2> QED
    BY <2>1 DEF FileInv, FilesAreWhole, PayloadHasItsFile
<1>3. CASE WriteTmp
  <2>1. /\ UNCHANGED <<num, applied, pending, file, diffs, misses>>
        /\ \/ pc' = "rename" /\ tmp' = ExtraFields /\ UNCHANGED warned
           \/ pc' = "send" /\ warned' = TRUE
    BY <1>3 DEF WriteTmp, native, work, remote
  <2>2. ExtraFields' = ExtraFields
    BY <2>1 DEF ExtraFields
  <2> QED
    BY <2>1, <2>2 DEF FileInv, FilesAreWhole, PayloadHasItsFile
<1>4. CASE Rename
  <2>1. /\ pc = "rename" /\ pc' = "send" /\ UNCHANGED <<num, applied, pending, diffs, misses>>
        /\ \/ file' = tmp /\ UNCHANGED warned
           \/ warned' = TRUE /\ UNCHANGED file
    BY <1>4 DEF Rename, native, work, remote
  <2>2. ExtraFields' = ExtraFields
    BY <2>1 DEF ExtraFields
  <2> QED
    BY <2>1, <2>2, WholeIsWhole DEF FileInv, FilesAreWhole, PayloadHasItsFile
<1>5. CASE SendPayload
  <2>1. pc = "send" /\ pc' = "wait" /\ pending' = num
        /\ UNCHANGED <<num, applied, file, warned, diffs, misses>>
    BY <1>5 DEF SendPayload, native, work, disk, remote
  <2>2. ExtraFields' = ExtraFields
    BY <2>1 DEF ExtraFields
  <2> QED
    BY <2>1, <2>2, WholeIsWhole DEF FileInv, FilesAreWhole, PayloadHasItsFile
<1>6. CASE Answered
  <2>1. pending = 0 /\ pc' = "native" /\ UNCHANGED <<num, applied, pending, file, warned>>
    BY <1>6 DEF Answered, native, disk, remote
  <2> QED
    BY <2>1 DEF FileInv, FilesAreWhole, PayloadHasItsFile
<1>7. CASE ExecutorApplies
  <2>1. pending' = 0 /\ applied' \in {applied, pending}
        /\ UNCHANGED <<num, pc, diffs, misses, tmp, file, warned>>
    BY <1>7 DEF ExecutorApplies, native, work, disk, remote
  <2>2. ExtraFields' = ExtraFields
    BY <2>1 DEF ExtraFields
  <2> QED
    BY <2>1, <2>2 DEF FileInv, FilesAreWhole, PayloadHasItsFile
<1>8. CASE Restart
  <2>1. /\ pc' = IF applied = num THEN "native" ELSE "decode"
        /\ pending' \in {pending, 0} /\ UNCHANGED <<num, applied, file, warned>>
    BY <1>8 DEF Restart, native, remote
  <2> QED
    BY <2>1 DEF FileInv, FilesAreWhole, PayloadHasItsFile
<1>9. CASE UNCHANGED vars
  <2>1. UNCHANGED <<num, applied, pending, pc, diffs, misses, tmp, file, warned>>
    BY <1>9 DEF vars, native, work, disk, remote
  <2>2. ExtraFields' = ExtraFields
    BY <2>1 DEF ExtraFields
  <2> QED
    BY <2>1, <2>2 DEF FileInv, FilesAreWhole, PayloadHasItsFile
<1> QED
  BY <1>1, <1>2, <1>3, <1>4, <1>5, <1>6, <1>7, <1>8, <1>9 DEF Next, Client

\* The invariant holds in every reachable state.
THEOREM FilesInvariant == Spec => []FileInv
<1>1. Init => FileInv
  BY WholeIsWhole DEF Init, FileInv, FilesAreWhole, PayloadHasItsFile
<1> QED
  BY <1>1, FilePreserved, PTL DEF Spec

\* send_batch: tmp and rename keep the executor from ever finding a part of a file.
THEOREM WholeFiles == Spec => []FilesAreWhole
<1>1. FileInv => FilesAreWhole
  BY DEF FileInv
<1> QED
  BY <1>1, FilesInvariant, PTL

\* send_batch: a payload overtakes its file only with a warning.
THEOREM PayloadsHaveFiles == Spec => []PayloadHasItsFile
<1>1. FileInv => PayloadHasItsFile
  BY DEF FileInv
<1> QED
  BY <1>1, FilesInvariant, PTL

\* send_batch: a file of an earlier attempt is replaced.
THEOREM FilesAreCurrent == Spec => []FileIsCurrent
<1>1. FileInv => FileIsCurrent
  BY DEF FileInv, FileIsCurrent
<1> QED
  BY <1>1, FilesInvariant, PTL

-------------------------------------------------------------------------------
(***************************************************************************)
(* The numbers of the blocks.                                              *)
(***************************************************************************)

\* The executor has the block in hand or the one before, and no other payload is
\* on its way to it.
PhaseInv ==
  /\ num \in Nat /\ num <= LastBlock /\ applied \in Nat /\ pending \in Nat
  /\ applied = num \/ (num = applied + 1 /\ pc # "native")
  /\ pending = 0 \/ pending = num \/ (num = pending + 1 /\ applied # num)
  /\ pc = "wait" => pending = num \/ applied = num
  /\ pc \in {"native", "decode", "transfers", "rows", "wallets", "write", "rename", "send",
             "wait"}

\* The steps that translate a block change neither the chain nor the files nor the
\* executor.
LEMMA TranslationSteps ==
  ASSUME Decode \/ Lookups \/ ActionsHandled \/ RowsResolved \/ BlockCompleted
  PROVE  /\ pc \in {"decode", "transfers", "rows", "wallets"}
         /\ pc' \in {"transfers", "rows", "wallets", "write"}
         /\ UNCHANGED <<env, num, block, contract, tmp, file, warned, pending, applied,
                        executor, lost>>
BY DEF Decode, Lookups, ActionsHandled, RowsResolved, BlockCompleted, ResolveTransfer,
       AbandonTransfers, ResolveScope, DropRow, ResolveWallet, TryAgain, native, disk, remote

\* The numbers are kept in order by every step.
LEMMA PhasePreserved ==
  ASSUME PhaseInv, [Next]_vars
  PROVE  PhaseInv'
<1>1. CASE NativeBlock
  <2>1. pc = "native" /\ pc' = "decode" /\ num < LastBlock /\ num' = num + 1
        /\ UNCHANGED <<applied, pending>>
    BY <1>1 DEF NativeBlock, remote
  <2> QED
    BY <2>1, DiffsAssumption DEF PhaseInv
<1>2. CASE Decode \/ Lookups \/ ActionsHandled \/ RowsResolved \/ BlockCompleted
  BY <1>2, TranslationSteps DEF PhaseInv
<1>3. CASE WriteTmp \/ Rename
  <2>1. pc \in {"write", "rename"} /\ pc' \in {"rename", "send"}
        /\ UNCHANGED <<num, applied, pending>>
    BY <1>3 DEF WriteTmp, Rename, native, remote
  <2> QED
    BY <2>1 DEF PhaseInv
<1>4. CASE SendPayload
  <2>1. pc = "send" /\ pc' = "wait" /\ pending' = num /\ UNCHANGED <<num, applied>>
    BY <1>4 DEF SendPayload, native, remote
  <2> QED
    BY <2>1 DEF PhaseInv
<1>5. CASE Answered
  <2>1. pc = "wait" /\ pending = 0 /\ pc' = "native" /\ UNCHANGED <<num, applied, pending>>
    BY <1>5 DEF Answered, native, remote
  <2> QED
    BY <2>1 DEF PhaseInv
<1>6. CASE ExecutorApplies
  <2>1. pending # 0 /\ pending' = 0 /\ UNCHANGED <<num, pc>>
    BY <1>6 DEF ExecutorApplies, native
  <2>2. CASE pending <= applied
    <3>1. applied' = applied
      BY <1>6, <2>2 DEF ExecutorApplies, remote
    <3> QED
      BY <2>1, <2>2, <3>1 DEF PhaseInv
  <2>3. CASE ~(pending <= applied)
    <3>1. applied' = pending
      BY <1>6, <2>3 DEF ExecutorApplies
    <3>2. pending = num
      BY <2>1, <2>3 DEF PhaseInv
    <3> QED
      BY <2>1, <3>1, <3>2 DEF PhaseInv
  <2> QED
    BY <2>2, <2>3
<1>7. CASE Restart
  <2>1. /\ pc # "native" /\ pc' = IF applied = num THEN "native" ELSE "decode"
        /\ pending' \in {pending, 0} /\ UNCHANGED <<num, applied>>
    BY <1>7 DEF Restart, native, remote
  <2>2. CASE applied = num
    BY <2>1, <2>2 DEF PhaseInv
  <2>3. CASE applied # num
    <3>1. pc' = "decode" /\ num' = num /\ applied' = applied /\ (pending' = pending \/ pending' = 0)
      BY <2>1, <2>3
    <3>2. num = applied + 1 /\ (pending = 0 \/ pending = num \/ num = pending + 1)
      BY <2>3 DEF PhaseInv
    <3> QED
      BY <2>3, <3>1, <3>2 DEF PhaseInv
  <2> QED
    BY <2>2, <2>3
<1>8. CASE UNCHANGED vars
  BY <1>8 DEF vars, native, remote, PhaseInv
<1> QED
  BY <1>1, <1>2, <1>3, <1>4, <1>5, <1>6, <1>7, <1>8 DEF Next, Client

\* The executor is never more than the block in hand behind.
THEOREM PhasesInOrder == Spec => []PhaseInv
<1>1. Init => PhaseInv
  BY DiffsAssumption DEF Init, PhaseInv
<1> QED
  BY <1>1, PhasePreserved, PTL DEF Spec

-------------------------------------------------------------------------------
(***************************************************************************)
(* The chain.                                                              *)
(***************************************************************************)

\* What a row, or its end, makes of its slot.
ValueOf(present, value) == IF present THEN value ELSE 0

\* A delta says what its slot holds after the block.
Final(d) == contract[d.slot].value = ValueOf(d.present, d.row.value)

\* None of the deltas of its slot has a larger index.
IsYoungest(d, deltas) == \A e \in deltas : e.slot = d.slot => e.row.index <= d.row.index

\* Rows are numbered in the order of the blocks, and of the deltas of a slot the
\* one with the largest index says what the slot holds.
ChainInv ==
  /\ env \in Behaviours
  /\ block \in [deltas : SUBSET Deltas, transfers : Seq(Names), wallets : Seq(Names)]
  /\ contract \in [Slots -> Row]
  /\ \A s \in Slots : contract[s].index <= num
  /\ \A d \in block.deltas : IsYoungest(d, block.deltas) => Final(d)

\* The deltas of the next block, for what it does to each slot.
DeltasFor(effect) == UNION {DeltasOf(t, effect[t], num + 1) : t \in Slots}

\* What a block does to one slot.
LEMMA EffectOnSlot ==
  ASSUME ChainInv, num \in Nat, num < LastBlock, NEW s \in Slots,
         NEW effect \in [Slots -> {"none", "write", "clear", "recreate"}],
         effect[s] \in {"clear", "recreate"} => contract[s] # NoRow,
         NEW deltas, deltas = DeltasFor(effect)
  PROVE  /\ RowAfter(deltas, s) \in Row
         /\ RowAfter(deltas, s).index <= num + 1
         /\ \A d \in deltas : d.slot = s => d \in Deltas
         /\ \A d \in deltas : d.slot = s /\ IsYoungest(d, deltas) =>
              RowAfter(deltas, s).value = ValueOf(d.present, d.row.value)
         /\ (\A d \in deltas : d.slot # s) => RowAfter(deltas, s) = contract[s]
<1> DEFINE old == contract[s]
           new == [index |-> num + 1, value |-> num + 1]
           own == {d \in deltas : d.slot = s}
<1>0. LastBlock \in Nat /\ old \in Row /\ old.index <= num
  BY DiffsAssumption DEF ChainInv
<1>1. old.index \in 0..LastBlock /\ old.value \in 0..LastBlock /\ new \in Row /\ NoRow \in Row
      /\ NoRow.index = 0 /\ NoRow.value = 0
  BY <1>0 DEF Row, NoRow
<1>2. own = DeltasOf(s, effect[s], num + 1)
  <2>1. \A t \in Slots : \A d \in DeltasOf(t, effect[t], num + 1) : d.slot = t
    <3> SUFFICES ASSUME NEW t \in Slots, NEW d \in DeltasOf(t, effect[t], num + 1)
                 PROVE  d.slot = t
      OBVIOUS
    <3>1. effect[t] \in {"none", "write", "clear", "recreate"}
      OBVIOUS
    <3>2. CASE effect[t] = "none"
      BY <3>2 DEF DeltasOf, Delta
    <3>3. CASE effect[t] = "write"
      BY <3>3 DEF DeltasOf, Delta
    <3>4. CASE effect[t] = "clear"
      BY <3>4 DEF DeltasOf, Delta
    <3>5. CASE effect[t] = "recreate"
      BY <3>5 DEF DeltasOf, Delta
    <3> QED
      BY <3>1, <3>2, <3>3, <3>4, <3>5
  <2> QED
    BY <2>1 DEF DeltasFor
<1>3. \A d \in own : IsYoungest(d, deltas) => \A e \in own : e.row.index <= d.row.index
  BY DEF IsYoungest
<1>4. RowAfter(deltas, s) =
        IF own = {} THEN old
        ELSE IF {d \in own : d.present} = {} THEN NoRow
        ELSE (CHOOSE d \in {d \in own : d.present} : TRUE).row
  <2>1. {d \in deltas : d.slot = s /\ d.present} = {d \in own : d.present}
    OBVIOUS
  <2> QED
    BY <2>1 DEF RowAfter
<1> DEFINE result == RowAfter(deltas, s)
<1> SUFFICES /\ result \in Row /\ result.index <= num + 1 /\ own \subseteq Deltas
             /\ \A d \in own : (\A e \in own : e.row.index <= d.row.index) =>
                                 result.value = ValueOf(d.present, d.row.value)
             /\ own = {} => result = old
  BY <1>3
<1> HIDE DEF own, result, new
<1>5. CASE effect[s] = "none"
  <2>1. own = {}
    BY <1>2, <1>5 DEF DeltasOf
  <2>2. result = old
    BY <1>4, <2>1 DEF result
  <2> QED
    BY <1>0, <1>1, <2>1, <2>2
<1>6. CASE effect[s] = "write"
  <2> DEFINE row == IF old = NoRow THEN new ELSE [old EXCEPT !.value = num + 1]
             d == Delta(s, TRUE, row)
  <2>1. own = {d}
    BY <1>2, <1>6 DEF DeltasOf, new
  <2>2. d.slot = s /\ d.present = TRUE /\ d.row = row
    BY DEF Delta
  <2>3. row \in Row /\ row.index <= num + 1
    BY <1>0, <1>1 DEF Row, new
  <2>4. d \in Deltas
    BY <2>3 DEF Deltas, Delta
  <2> HIDE DEF d, row
  <2>5. {e \in own : e.present} = {d}
    BY <2>1, <2>2
  <2>6. (CHOOSE e \in {d} : TRUE) = d
    OBVIOUS
  <2>7. result = row
    BY <1>4, <2>1, <2>2, <2>5, <2>6 DEF result
  <2> QED
    BY <2>1, <2>2, <2>3, <2>4, <2>7 DEF ValueOf
<1>7. CASE effect[s] = "clear"
  <2> DEFINE d == Delta(s, FALSE, old)
  <2>1. own = {d}
    BY <1>2, <1>7 DEF DeltasOf
  <2>2. d.slot = s /\ d.present = FALSE /\ d.row = old
    BY DEF Delta
  <2>4. d \in Deltas
    BY <1>0 DEF Deltas, Delta
  <2> HIDE DEF d
  <2>5. {e \in own : e.present} = {}
    BY <2>1, <2>2
  <2>7. result = NoRow
    BY <1>4, <2>1, <2>5 DEF result
  <2> QED
    BY <1>1, <2>1, <2>2, <2>4, <2>7 DEF ValueOf
<1>8. CASE effect[s] = "recreate"
  <2> DEFINE d == Delta(s, FALSE, old)
             c == Delta(s, TRUE, new)
  <2>1. own = {d, c}
    BY <1>2, <1>8 DEF DeltasOf, new
  <2>2. d.slot = s /\ d.present = FALSE /\ d.row = old
        /\ c.slot = s /\ c.present = TRUE /\ c.row = new
    BY DEF Delta
  <2>3. new.index = num + 1 /\ new.value = num + 1
    BY DEF new
  <2>4. d \in Deltas /\ c \in Deltas
    BY <1>0, <1>1 DEF Deltas, Delta
  <2> HIDE DEF d, c
  <2>5. {e \in own : e.present} = {c}
    BY <2>1, <2>2
  <2>6. (CHOOSE e \in {c} : TRUE) = c
    OBVIOUS
  <2>7. result = new
    BY <1>4, <2>1, <2>2, <2>5, <2>6 DEF result
  <2>8. ~(c.row.index <= d.row.index)
    BY <1>0, <1>1, <2>2, <2>3
  <2> QED
    BY <1>1, <2>1, <2>2, <2>3, <2>4, <2>7, <2>8 DEF ValueOf
<1> QED
  BY <1>5, <1>6, <1>7, <1>8

\* A new block is one effect for each slot.
LEMMA NativeBlockEffects ==
  ASSUME NativeBlock
  PROVE  \E effect \in [Slots -> {"none", "write", "clear", "recreate"}] :
           /\ \A s \in Slots : effect[s] \in {"clear", "recreate"} => contract[s] # NoRow
           /\ block'.deltas = DeltasFor(effect)
           /\ block'.transfers \in Seq(Names) /\ block'.wallets \in Seq(Names)
           /\ block' = [deltas |-> block'.deltas, transfers |-> block'.transfers,
                        wallets |-> block'.wallets]
           /\ contract' = [s \in Slots |-> RowAfter(block'.deltas, s)]
<1>1. PICK effect \in [Slots -> {"none", "write", "clear", "recreate"}] :
        /\ \A s \in Slots : effect[s] \in {"clear", "recreate"} => contract[s] # NoRow
        /\ \E lists \in NameLists :
             block' = [deltas |-> UNION {DeltasOf(t, effect[t], num + 1) : t \in Slots},
                       transfers |-> lists[1], wallets |-> lists[2]]
        /\ contract' = [s \in Slots |->
                          RowAfter(UNION {DeltasOf(t, effect[t], num + 1) : t \in Slots}, s)]
  BY DEF NativeBlock
<1> DEFINE deltas == UNION {DeltasOf(t, effect[t], num + 1) : t \in Slots}
<1>2. PICK lists \in NameLists :
        block' = [deltas |-> deltas, transfers |-> lists[1], wallets |-> lists[2]]
  BY <1>1
<1>3. lists[1] \in Seq(Names) /\ lists[2] \in Seq(Names)
  BY NameListsAreSequences
<1>4. contract' = [s \in Slots |-> RowAfter(deltas, s)]
  BY <1>1
<1>5. deltas = DeltasFor(effect)
  BY DEF DeltasFor
<1> HIDE DEF deltas
<1>6. block'.deltas = deltas /\ block'.transfers = lists[1] /\ block'.wallets = lists[2]
  BY <1>2
<1> QED
  BY <1>1, <1>2, <1>3, <1>4, <1>5, <1>6

\* A slot that a block does not touch keeps its row; the others have the row its
\* deltas say.
LEMMA NativeBlockOnContract ==
  ASSUME ChainInv, PhaseInv, NativeBlock
  PROVE  /\ contract' \in [Slots -> Row]
         /\ block' \in [deltas : SUBSET Deltas, transfers : Seq(Names), wallets : Seq(Names)]
         /\ \A s \in Slots : contract'[s].index <= num'
         /\ \A d \in block'.deltas :
              d.slot \in Slots /\ (IsYoungest(d, block'.deltas) =>
                                     contract'[d.slot].value = ValueOf(d.present, d.row.value))
         /\ \A s \in Slots : s \notin Changed' => contract'[s] = contract[s]
<1>1. PICK effect \in [Slots -> {"none", "write", "clear", "recreate"}],
           deltas \in {block'.deltas} :
        /\ \A s \in Slots : effect[s] \in {"clear", "recreate"} => contract[s] # NoRow
        /\ deltas = DeltasFor(effect)
        /\ block'.transfers \in Seq(Names) /\ block'.wallets \in Seq(Names)
        /\ block' = [deltas |-> deltas, transfers |-> block'.transfers,
                     wallets |-> block'.wallets]
        /\ contract' = [s \in Slots |-> RowAfter(deltas, s)]
  BY NativeBlockEffects
<1>2. num \in Nat /\ num < LastBlock /\ num' = num + 1
  BY DEF NativeBlock, PhaseInv
<1>3. ASSUME NEW s \in Slots
      PROVE  /\ RowAfter(deltas, s) \in Row
             /\ RowAfter(deltas, s).index <= num + 1
             /\ \A d \in deltas : d.slot = s => d \in Deltas
             /\ \A d \in deltas : d.slot = s /\ IsYoungest(d, deltas) =>
                  RowAfter(deltas, s).value = ValueOf(d.present, d.row.value)
             /\ (\A d \in deltas : d.slot # s) => RowAfter(deltas, s) = contract[s]
  <2>1. effect[s] \in {"clear", "recreate"} => contract[s] # NoRow
    BY <1>1
  <2>2. deltas = DeltasFor(effect)
    BY <1>1
  <2> QED
    BY <1>2, <2>1, <2>2, EffectOnSlot
<1>4. \A d \in deltas : d.slot \in Slots
  BY <1>1, DeltasAreFinite DEF DeltasFor
<1>5. contract' \in [Slots -> Row] /\ \A s \in Slots : contract'[s] = RowAfter(deltas, s)
  BY <1>1, <1>3
<1>6. deltas \subseteq Deltas
  BY <1>3, <1>4
<1>7. block' \in [deltas : SUBSET Deltas, transfers : Seq(Names), wallets : Seq(Names)]
  BY <1>1, <1>6
<1>8. \A s \in Slots : contract'[s].index <= num'
  BY <1>2, <1>3, <1>5
<1>9. \A d \in block'.deltas :
        d.slot \in Slots /\ (IsYoungest(d, block'.deltas) =>
                               contract'[d.slot].value = ValueOf(d.present, d.row.value))
  BY <1>3, <1>4, <1>5
<1>10. \A s \in Slots : s \notin Changed' => contract'[s] = contract[s]
  BY <1>3, <1>5 DEF Changed
<1> QED
  BY <1>5, <1>7, <1>8, <1>9, <1>10

\* The chain changes with a new block only.
LEMMA ChainSteps ==
  ASSUME Client \/ ExecutorApplies \/ Restart \/ UNCHANGED vars
  PROVE  UNCHANGED <<env, num, block, contract>>
BY TranslationSteps DEF Client, WriteTmp, Rename, SendPayload, Answered, ExecutorApplies, Restart,
                        vars, native

\* What a new block says of its slots is so in every reachable state.
THEOREM ChainInvariant == Spec => []ChainInv
<1>1. Init => ChainInv
  <2> SUFFICES ASSUME Init PROVE ChainInv
    OBVIOUS
  <2>1. NoRow \in Row /\ NoRow.index = 0
    BY DiffsAssumption DEF Row, NoRow
  <2>2. block = [deltas |-> {}, transfers |-> << >>, wallets |-> << >>] /\ env \in Behaviours
        /\ contract = [s \in Slots |-> NoRow] /\ num = 0
    BY DEF Init
  <2>3. << >> \in Seq(Names)
    BY EmptySeq
  <2> QED
    BY <2>1, <2>2, <2>3 DEF ChainInv
<1>2. ASSUME ChainInv, PhaseInv, [Next]_vars
      PROVE  ChainInv'
  <2>1. CASE NativeBlock
    <3>1. env' = env
      BY <2>1 DEF NativeBlock
    <3>2. /\ contract' \in [Slots -> Row]
          /\ block' \in [deltas : SUBSET Deltas, transfers : Seq(Names), wallets : Seq(Names)]
          /\ \A s \in Slots : contract'[s].index <= num'
          /\ \A d \in block'.deltas :
               IsYoungest(d, block'.deltas) =>
                 contract'[d.slot].value = ValueOf(d.present, d.row.value)
      BY <1>2, <2>1, NativeBlockOnContract
    <3> QED
      BY <1>2, <3>1, <3>2 DEF ChainInv, Final, IsYoungest
  <2>2. CASE Client \/ ExecutorApplies \/ Restart \/ UNCHANGED vars
    BY <1>2, <2>2, ChainSteps DEF ChainInv, Final, IsYoungest
  <2> QED
    BY <1>2, <2>1, <2>2 DEF Next
<1> QED
  BY <1>1, <1>2, PhasesInOrder, PTL DEF Spec

-------------------------------------------------------------------------------
(***************************************************************************)
(* Decoding: one row for each slot.                                        *)
(***************************************************************************)

\* A listing of a finite set leaves nothing out.
LEMMA OrdersListAll ==
  ASSUME NEW S, IsFiniteSet(S), NEW order \in Orders(S)
  PROVE  /\ Cardinality(S) \in Nat
         /\ order \in [1..Cardinality(S) -> S]
         /\ \A x \in S : \E i \in 1..Cardinality(S) : order[i] = x
<1>1. Cardinality(S) \in Nat
  BY FS_CardinalityType
<1>2. order \in [1..Cardinality(S) -> S] /\ IsInjective(order)
  BY DEF Orders
<1>3. order \in Injection(1..Cardinality(S), S)
  BY <1>2 DEF Injection
<1>4. Cardinality(1..Cardinality(S)) = Cardinality(S)
  <2>1. 1 \in Int /\ Cardinality(S) \in Int /\ Cardinality(S) >= 0
    BY <1>1
  <2>2. Cardinality(1..Cardinality(S)) = IF 1 > Cardinality(S) THEN 0 ELSE Cardinality(S) - 1 + 1
    BY <2>1, FS_Interval
  <2> QED
    BY <2>1, <2>2
<1>5. order \in Surjection(1..Cardinality(S), S)
  BY <1>3, <1>4, FS_Injection
<1> QED
  BY <1>1, <1>2, <1>5 DEF Surjection

\* The deltas that are kept say what their slots hold.
LEMMA KeptAreFinal ==
  ASSUME ChainInv, IsFiniteSet(block.deltas), NEW order \in Orders(block.deltas),
         NEW d \in Deduplicated(order)
  PROVE  d \in block.deltas /\ Final(d)
<1> DEFINE n == Cardinality(block.deltas)
<1>1. n \in Nat /\ order \in [1..n -> block.deltas]
      /\ \A x \in block.deltas : \E i \in 1..n : order[i] = x
  BY OrdersListAll
<1> HIDE DEF n
<1>2. PICK i \in 1..n :
        /\ d = order[i]
        /\ \A j \in 1..n : order[j].slot = order[i].slot =>
             \/ order[j].row.index < order[i].row.index
             \/ order[j].row.index = order[i].row.index /\ i <= j
  BY <1>1 DEF Deduplicated
<1>3. d \in block.deltas
  BY <1>1, <1>2
<1>4. \A e \in block.deltas : e.row.index \in Int
  BY DiffsAssumption DEF ChainInv, Deltas, Row
<1>5. ASSUME NEW e \in block.deltas, e.slot = d.slot
      PROVE  e.row.index <= d.row.index
  <2>1. PICK j \in 1..n : order[j] = e
    BY <1>1
  <2> QED
    BY <1>2, <1>3, <1>4, <1>5, <2>1
<1> QED
  BY <1>3, <1>5 DEF ChainInv, IsYoungest

\* Of every slot a block changes one delta is kept, and one only.
LEMMA OneIsKept ==
  ASSUME ChainInv, IsFiniteSet(block.deltas), NEW order \in Orders(block.deltas)
  PROVE  /\ IsFiniteSet(Deduplicated(order))
         /\ Cardinality(Deduplicated(order)) = Cardinality(Changed)
<1> DEFINE n == Cardinality(block.deltas)
           kept == Deduplicated(order)
           slotOf == [d \in kept |-> d.slot]
           Wins(i) == \A j \in 1..n : order[j].slot = order[i].slot =>
                        \/ order[j].row.index < order[i].row.index
                        \/ order[j].row.index = order[i].row.index /\ i <= j
<1>1. n \in Nat /\ order \in [1..n -> block.deltas]
      /\ \A x \in block.deltas : \E i \in 1..n : order[i] = x
  BY OrdersListAll
<1> HIDE DEF n
<1>2. kept = {order[i] : i \in {i \in 1..n : Wins(i)}}
  BY <1>1 DEF Deduplicated
<1> HIDE DEF kept
<1>3. kept \subseteq block.deltas
  BY <1>1, <1>2
<1>4. \A i \in 1..n : order[i].row.index \in 0..LastBlock /\ order[i].row.index \in Int
  BY <1>1, DiffsAssumption DEF ChainInv, Deltas, Row
<1>5. ASSUME NEW d \in kept, NEW e \in kept, d.slot = e.slot
      PROVE  d = e
  <2>1. PICK i \in 1..n : d = order[i] /\ Wins(i)
    BY <1>2
  <2>2. PICK j \in 1..n : e = order[j] /\ Wins(j)
    BY <1>2
  <2>3. i <= j /\ j <= i
    BY <1>4, <1>5, <2>1, <2>2
  <2> QED
    BY <2>1, <2>2, <2>3
<1>6. ASSUME NEW s \in Changed
      PROVE  \E d \in kept : d.slot = s
  <2> DEFINE indexes == {order[i].row.index : i \in {i \in 1..n : order[i].slot = s}}
  <2>1. indexes # {}
    <3>1. PICK d \in block.deltas : d.slot = s
      BY DEF Changed
    <3>2. PICK i \in 1..n : order[i] = d
      BY <1>1
    <3> QED
      BY <3>1, <3>2
  <2>2. indexes \subseteq 0..LastBlock /\ indexes \subseteq Int
    BY <1>4
  <2>3. IsFiniteSet(0..LastBlock)
    <3>1. 0 \in Int /\ LastBlock \in Int
      BY DiffsAssumption
    <3> QED
      BY <3>1, FS_Interval
  <2>4. IsFiniteSet(indexes)
    BY <2>2, <2>3, FS_Subset
  <2> HIDE DEF indexes
  <2>5. PICK m \in indexes : \A k \in indexes : k <= m
    BY <2>1, <2>2, <2>4, LargestNumber
  <2> DEFINE places == {i \in 1..n : order[i].slot = s /\ order[i].row.index = m}
  <2>6. places # {} /\ places \in SUBSET Nat
    BY <2>5 DEF indexes
  <2> HIDE DEF places
  <2>7. PICK i \in places : \A j \in places : i <= j
    BY <2>6, LeastNumber
  <2>8. i \in 1..n /\ order[i].slot = s /\ order[i].row.index = m
    BY <2>7 DEF places
  <2>9. ASSUME NEW j \in 1..n, order[j].slot = s
        PROVE  order[j].row.index < m \/ (order[j].row.index = m /\ i <= j)
    <3>1. order[j].row.index \in indexes
      BY <2>9 DEF indexes
    <3>2. order[j].row.index <= m /\ m \in Int /\ order[j].row.index \in Int
      BY <1>4, <2>2, <2>5, <3>1
    <3>3. order[j].row.index = m => j \in places
      BY <2>9 DEF places
    <3> QED
      BY <2>7, <3>2, <3>3
  <2>10. Wins(i)
    BY <2>8, <2>9
  <2>11. order[i] \in kept
    BY <1>2, <2>8, <2>10
  <2> QED
    BY <2>8, <2>11
<1>7. slotOf \in [kept -> Changed]
  BY <1>3 DEF Changed
<1>8. slotOf \in Surjection(kept, Changed) /\ slotOf \in Injection(kept, Changed)
  <2>1. \A s \in Changed : \E d \in kept : slotOf[d] = s
    BY <1>6
  <2>2. \A d, e \in kept : slotOf[d] = slotOf[e] => d = e
    BY <1>5
  <2> QED
    BY <1>7, <2>1, <2>2 DEF Surjection, Injection, IsInjective
<1>9. IsFiniteSet(kept)
  BY <1>3, FS_Subset
<1>10. Cardinality(kept) = Cardinality(Changed)
  <2> HIDE DEF slotOf
  <2> QED
    BY <1>8, <1>9, FS_Surjection
<1> QED
  BY <1>9, <1>10 DEF kept

\* The rows that are decoded say what their slots hold, and are as many as the
\* slots the block changes.
LEMMA RowsAreFinal ==
  ASSUME ChainInv, IsFiniteSet(block.deltas), NEW order \in Orders(block.deltas),
         NEW sorted \in Orders(Deduplicated(order))
  PROVE  /\ Len(sorted) = Cardinality(Changed)
         /\ \A i \in 1..Len(sorted) : Final(sorted[i])
<1>1. IsFiniteSet(Deduplicated(order))
      /\ Cardinality(Deduplicated(order)) = Cardinality(Changed)
  BY OneIsKept
<1>2. Cardinality(Changed) \in Nat
      /\ sorted \in [1..Cardinality(Changed) -> Deduplicated(order)]
  BY <1>1, OrdersListAll
<1>3. sorted \in Seq(Deduplicated(order))
  BY <1>2, SeqDef
<1>4. Len(sorted) = Cardinality(Changed)
  BY <1>2, <1>3, LenProperties
<1> QED
  BY <1>2, <1>4, KeptAreFinal

-------------------------------------------------------------------------------
(***************************************************************************)
(* What a translation holds.                                               *)
(***************************************************************************)

\* A change of storage that says what its slot holds after the block.
IsChange(c) ==
  \E s \in Changed : /\ c.address = AddressOf(s[1]) /\ c.key = s[2]
                     /\ contract[s].value = ValueOf(~c.removed, c.value)

AreChanges(list) == list \in Seq(Diff) /\ \A i \in 1..Len(list) : IsChange(list[i])

IsFileOfBlock(f) ==
  /\ f \in File \cup {Nothing, Partial}
  /\ f.kind = "whole" => AreChanges(f.diffs)

RowsAreRight == \A i \in 1..Len(rows) : Final(rows[i])

\* Rows, changes and files are those of the block in hand, also files that an
\* earlier attempt has left.
WorkInv ==
  /\ RowsAreRight
  /\ AreChanges(diffs)
  /\ pc = "native" => diffs = << >>
  /\ misses \in Nat
  /\ IsFileOfBlock(tmp) /\ IsFileOfBlock(file)
  /\ answers \subseteq [key : CacheKeys, position : {"PRIMARY", "TERTIARY"}, address : Address]

\* No row is found under two addresses.
LEMMA AddressOfRow ==
  ASSUME NEW index, NEW address, IsAddressOf(address, index, "PRIMARY")
  PROVE  address = AddressOf(index)
<1>1. PICK a \in Accounts : a.index = index /\ a.address = address
  BY DEF IsAddressOf, KeyAt
<1>2. \A b \in Accounts : b.index = index => b = a
  BY <1>1, CacheAssumption
<1>3. (CHOOSE b \in Accounts : b.index = index) = a
  BY <1>1, <1>2
<1> QED
  BY <1>1, <1>3 DEF AddressOf

\* Every slot has an address of its own.
LEMMA AddressesDiffer ==
  ASSUME NEW i \in Indexes, NEW j \in Indexes
  PROVE  AddressOf(i) \in Address /\ (AddressOf(i) = AddressOf(j) => i = j)
<1>1. PICK a \in Accounts : a.index = i
  BY DEF Indexes
<1>2. PICK b \in Accounts : b.index = j
  BY DEF Indexes
<1>3. AddressOf(i) = a.address /\ AddressOf(j) = b.address
  BY <1>1, <1>2, AddressOfRow DEF IsAddressOf, KeyAt
<1> QED
  BY <1>1, <1>2, <1>3, CacheAssumption

\* The empty list and files without content.
LEMMA EmptyWork ==
  AreChanges(<< >>) /\ IsFileOfBlock(Nothing) /\ IsFileOfBlock(Partial)
<1>1. << >> \in Seq(Diff) /\ Len(<< >>) = 0
  BY EmptySeq
<1>2. Nothing.kind # "whole" /\ Partial.kind # "whole"
  BY DEF Nothing, Partial
<1> QED
  BY <1>1, <1>2 DEF AreChanges, IsFileOfBlock

\* A row whose account is resolved adds a change of the block.
LEMMA ChangeOfRow ==
  ASSUME LookupInv, ChainInv, WorkInv, rows # << >>, NEW address \in Address,
         IsAddressOf(address, Scope, "PRIMARY")
  PROVE  AreChanges(Append(diffs, [address |-> address, key |-> Head(rows).slot[2],
                                   removed |-> ~Head(rows).present,
                                   value |-> Head(rows).row.value]))
<1> DEFINE d == Head(rows)
           c == [address |-> address, key |-> d.slot[2], removed |-> ~d.present,
                 value |-> d.row.value]
<1>1. rows \in Seq(block.deltas) /\ Len(rows) \in Nat /\ Len(rows) # 0
  BY LenProperties, EmptySeq DEF LookupInv
<1>2. d = rows[1] /\ d \in block.deltas
  BY <1>1, HeadTailProperties, ElementOfSeq
<1>3. d \in Deltas /\ Final(d) /\ d.slot \in Changed
  BY <1>1, <1>2 DEF WorkInv, RowsAreRight, ChainInv, Changed
<1>4. d.slot \in Slots /\ d.slot[1] = Scope /\ d.slot[2] \in Keys /\ d.present \in BOOLEAN
      /\ d.row.value \in 0..LastBlock
  BY <1>3 DEF Deltas, Slots, Scope, Row
<1>5. address = AddressOf(d.slot[1])
  BY <1>4, AddressOfRow
<1> HIDE DEF d
<1>6. c \in Diff
  BY <1>4 DEF Diff
<1>7. c.address = address /\ c.key = d.slot[2] /\ c.removed = ~d.present /\ c.value = d.row.value
  OBVIOUS
<1> HIDE DEF c
<1>8. IsChange(c)
  BY <1>3, <1>4, <1>5, <1>7 DEF IsChange, Final, ValueOf
<1>9. diffs \in Seq(Diff) /\ \A i \in 1..Len(diffs) : IsChange(diffs[i])
  BY DEF WorkInv, AreChanges
<1> DEFINE more == Append(diffs, c)
<1>10. more \in Seq(Diff) /\ Len(more) = Len(diffs) + 1 /\ Len(diffs) \in Nat
       /\ more[Len(diffs) + 1] = c /\ \A i \in 1..Len(diffs) : more[i] = diffs[i]
  BY <1>6, <1>9, AppendProperties, LenProperties
<1> HIDE DEF more
<1>11. ASSUME NEW i \in 1..Len(more) PROVE IsChange(more[i])
  <2>1. CASE i = Len(diffs) + 1
    BY <1>8, <1>10, <2>1
  <2>2. CASE i \in 1..Len(diffs)
    BY <1>9, <1>10, <2>2
  <2> QED
    BY <1>10, <2>1, <2>2
<1> QED
  BY <1>10, <1>11 DEF AreChanges, more, c, d

\* The rows after the first.
LEMMA TailRows ==
  ASSUME LookupInv, rows # << >>
  PROVE  /\ Len(Tail(rows)) = Len(rows) - 1 /\ Len(rows) \in Nat
         /\ \A i \in 1..Len(Tail(rows)) : Tail(rows)[i] = rows[i + 1] /\ i + 1 \in 1..Len(rows)
<1>1. rows \in Seq(block.deltas) /\ Len(rows) \in Nat /\ Len(rows) # 0
  BY LenProperties, EmptySeq DEF LookupInv
<1>2. Len(Tail(rows)) = Len(rows) - 1 /\ \A i \in 1..Len(Tail(rows)) : Tail(rows)[i] = rows[i + 1]
  BY <1>1, HeadTailProperties
<1> QED
  BY <1>1, <1>2

\* What is of the block in hand stays so while it is in hand.
LEMMA StillOfBlock ==
  ASSUME WorkInv, UNCHANGED <<block, contract>>
  PROVE  /\ rows' \in {rows, << >>} => RowsAreRight'
         /\ diffs' \in {diffs, << >>} => AreChanges(diffs)'
         /\ tmp' \in {tmp, Nothing, Partial} => IsFileOfBlock(tmp)'
         /\ file' \in {file, tmp, Nothing, Partial} => IsFileOfBlock(file)'
<1> USE DEF WorkInv, RowsAreRight, IsFileOfBlock, AreChanges, IsChange, Changed, Final,
            AddressOf
<1>1. rows' = rows => RowsAreRight'
  OBVIOUS
<1>2. rows' = << >> => RowsAreRight'
  BY EmptySeq
<1>3. diffs' \in {diffs, << >>} => AreChanges(diffs)'
  <2>1. diffs' = diffs => AreChanges(diffs)'
    OBVIOUS
  <2>2. diffs' = << >> => AreChanges(diffs)'
    BY EmptyWork
  <2> QED
    BY <2>1, <2>2
<1>4. Nothing.kind # "whole" /\ Partial.kind # "whole"
  BY DEF Nothing, Partial
<1>5. tmp' \in {tmp, Nothing, Partial} => IsFileOfBlock(tmp)'
  <2>1. tmp' = tmp => IsFileOfBlock(tmp)'
    OBVIOUS
  <2> QED
    BY <1>4, <2>1 DEF Nothing, Partial
<1>6. file' \in {file, tmp, Nothing, Partial} => IsFileOfBlock(file)'
  <2>1. file' = file => IsFileOfBlock(file)'
    OBVIOUS
  <2>2. file' = tmp => IsFileOfBlock(file)'
    OBVIOUS
  <2> QED
    BY <1>4, <2>1, <2>2 DEF Nothing, Partial
<1> QED
  BY <1>1, <1>2, <1>3, <1>5, <1>6

\* An attempt that has just begun holds nothing.
LEMMA NothingOfBlock ==
  /\ rows' = << >> => RowsAreRight'
  /\ diffs' = << >> => AreChanges(diffs)'
  /\ tmp' \in {Nothing, Partial} => IsFileOfBlock(tmp)'
  /\ file' \in {Nothing, Partial} => IsFileOfBlock(file)'
<1>1. << >> \in Seq(Diff) /\ Len(<< >>) = 0
  BY EmptySeq
<1>2. Nothing.kind # "whole" /\ Partial.kind # "whole"
  BY DEF Nothing, Partial
<1>3. rows' = << >> => RowsAreRight'
  BY <1>1 DEF RowsAreRight
<1>4. diffs' = << >> => AreChanges(diffs)'
  BY <1>1 DEF AreChanges
<1>5. tmp' \in {Nothing, Partial} => IsFileOfBlock(tmp)'
  BY <1>2 DEF IsFileOfBlock
<1>6. file' \in {Nothing, Partial} => IsFileOfBlock(file)'
  BY <1>2 DEF IsFileOfBlock
<1> QED
  BY <1>3, <1>4, <1>5, <1>6

\* The lookups of a block keep what it holds.
LEMMA LookupsKeepWork ==
  ASSUME LookupInv, ChainInv, WorkInv, Lookups
  PROVE  WorkInv'
<1>0. /\ UNCHANGED <<block, contract, tmp, file>> /\ pc' # "native"
      /\ IsFileOfBlock(tmp)' /\ IsFileOfBlock(file)'
  BY TranslationSteps, StillOfBlock DEF Lookups
<1> DEFINE answerTypes == [key : CacheKeys, position : {"PRIMARY", "TERTIARY"}, address : Address]
<1>1. answers \subseteq answerTypes /\ misses \in Nat
  BY DEF WorkInv
<1>2. ASSUME NEW key, NEW position, IsLookup(key, position), NEW address \in Address,
             Answer(key, position, address)
      PROVE  answers' \subseteq answerTypes
  <2>1. [key |-> key, position |-> position, address |-> address] \in answerTypes
    BY <1>2 DEF IsLookup, CacheKeys
  <2> QED
    BY <1>1, <1>2, <2>1 DEF Answer
<1>3. ASSUME rows' = rows, diffs' = diffs, misses' \in {misses, misses + 1},
             answers' \subseteq answerTypes
      PROVE  WorkInv'
  BY <1>0, <1>1, <1>3, StillOfBlock DEF WorkInv
<1> HIDE DEF answerTypes
<1>4. CASE ResolveTransfer
  <2>1. rows' = rows /\ diffs' = diffs /\ misses' = misses /\ names # << >>
    BY <1>4 DEF ResolveTransfer
  <2>2. answers' \subseteq answerTypes
    BY <1>2, <1>4, <2>1, LookupsOfBlock DEF ResolveTransfer
  <2> QED
    BY <1>3, <2>1, <2>2
<1>5. CASE AbandonTransfers \/ TryAgain
  <2>1. /\ rows' = rows /\ diffs' = diffs /\ answers' = answers
        /\ misses' \in {misses, misses + 1}
    BY <1>5 DEF AbandonTransfers, TryAgain
  <2> QED
    BY <1>1, <1>3, <2>1
<1>6. CASE ResolveWallet
  <2>1. rows' = rows /\ diffs' = diffs /\ misses' = misses /\ names # << >>
    BY <1>6 DEF ResolveWallet
  <2>2. answers' \subseteq answerTypes
    BY <1>1, <1>2, <1>6, <2>1, LookupsOfBlock DEF ResolveWallet
  <2> QED
    BY <1>3, <2>1, <2>2
<1>7. CASE ResolveScope \/ DropRow
  <2>1. rows # << >> /\ rows' = Tail(rows) /\ UNCHANGED <<block, contract>>
    BY <1>0, <1>7 DEF ResolveScope, DropRow
  <2>2. RowsAreRight'
    <3>1. \A i \in 1..Len(rows) : Final(rows[i])
      BY DEF WorkInv, RowsAreRight
    <3>2. \A i \in 1..Len(Tail(rows)) : Final(Tail(rows)[i])
      BY <2>1, <3>1, TailRows
    <3> QED
      BY <2>1, <3>2 DEF RowsAreRight, Final
  <2>3. CASE ResolveScope
    <3>1. PICK address \in Address :
            /\ Resolves(Scope, "PRIMARY", address)
            /\ Answer(Scope, "PRIMARY", address)
            /\ diffs' = Append(diffs, [address |-> address, key |-> Head(rows).slot[2],
                                       removed |-> ~Head(rows).present,
                                       value |-> Head(rows).row.value])
      BY <2>3 DEF ResolveScope
    <3>2. IsLookup(Scope, "PRIMARY")
      BY <2>1, LookupsOfBlock
    <3>3. IsAddressOf(address, Scope, "PRIMARY")
      BY <3>1, <3>2, ResolvesRight DEF LookupInv
    <3>4. PICK more \in {diffs'} : AreChanges(more) /\ more = diffs'
      BY <2>1, <3>1, <3>3, ChangeOfRow
    <3>5. AreChanges(diffs)'
      BY <2>1, <3>4 DEF AreChanges, IsChange, Changed, AddressOf
    <3>6. answers' \subseteq answerTypes
      BY <1>2, <3>1, <3>2
    <3>7. misses' = misses
      BY <2>3 DEF ResolveScope
    <3> QED
      BY <1>0, <1>1, <2>2, <3>5, <3>6, <3>7 DEF WorkInv, answerTypes
  <2>4. CASE DropRow
    <3>1. diffs' = diffs /\ answers' = answers /\ misses' = misses + 1
      BY <2>4 DEF DropRow
    <3>2. AreChanges(diffs)'
      BY <2>1, <3>1, StillOfBlock
    <3> QED
      BY <1>0, <1>1, <2>2, <3>1, <3>2 DEF WorkInv, answerTypes
  <2> QED
    BY <1>7, <2>3, <2>4
<1> QED
  BY <1>4, <1>5, <1>6, <1>7 DEF Lookups

\* What a translation holds is of its block after every step.
LEMMA WorkPreserved ==
  ASSUME LookupInv, PhaseInv, ChainInv, WorkInv, [Next]_vars
  PROVE  WorkInv'
<1>0. answers \subseteq [key : CacheKeys, position : {"PRIMARY", "TERTIARY"}, address : Address]
      /\ misses \in Nat
  BY DEF WorkInv
<1>1. CASE NativeBlock
  <2>1. /\ pc = "native" /\ file' = Nothing /\ tmp' = Nothing
        /\ UNCHANGED <<rows, diffs, answers, misses>>
    BY <1>1 DEF NativeBlock, work
  <2>2. rows' = << >> /\ diffs' = << >>
    BY <2>1 DEF LookupInv, WorkInv
  <2> QED
    BY <1>0, <2>1, <2>2, NothingOfBlock DEF WorkInv
<1>2. CASE Decode
  <2>1. /\ diffs' = << >> /\ answers' = {} /\ misses' = 0 /\ pc' = "transfers"
        /\ UNCHANGED <<block, contract, tmp, file>>
    BY <1>2 DEF Decode, native, disk
  <2>2. PICK order \in Orders(block.deltas) : \E sorted \in Orders(Deduplicated(order)) :
          rows' = sorted
    BY <1>2 DEF Decode
  <2>3. PICK sorted \in Orders(Deduplicated(order)) : rows' = sorted
    BY <2>2
  <2>4. \A i \in 1..Len(sorted) : Final(sorted[i])
    BY RowsAreFinal DEF LookupInv
  <2>5. RowsAreRight'
    BY <2>1, <2>3, <2>4 DEF RowsAreRight, Final
  <2>6. AreChanges(diffs)' /\ IsFileOfBlock(tmp)' /\ IsFileOfBlock(file)'
    BY <2>1, StillOfBlock, NothingOfBlock
  <2> QED
    BY <2>1, <2>5, <2>6 DEF WorkInv
<1>3. CASE Lookups
  BY <1>3, LookupsKeepWork
<1>4. CASE \/ ActionsHandled \/ RowsResolved \/ BlockCompleted \/ SendPayload
           \/ ExecutorApplies \/ UNCHANGED vars
  <2>1. /\ UNCHANGED <<block, contract, rows, diffs, answers, misses, tmp, file>>
        /\ pc' = "native" => pc = "native"
    BY <1>4 DEF ActionsHandled, RowsResolved, BlockCompleted, SendPayload, ExecutorApplies, vars,
                native, work, disk
  <2> QED
    BY <1>0, <2>1, StillOfBlock DEF WorkInv
<1>5. CASE WriteTmp
  <2>1. /\ UNCHANGED <<block, contract, rows, diffs, answers, misses, file>> /\ pc' # "native"
        /\ tmp' \in {ExtraFields, Nothing}
    BY <1>5 DEF WriteTmp, native, work
  <2>2. RowsAreRight' /\ AreChanges(diffs)' /\ IsFileOfBlock(file)'
    BY <2>1, StillOfBlock
  <2>3. IsFileOfBlock(tmp)'
    <3>1. CASE tmp' = ExtraFields
      <4>1. tmp' = [kind |-> "whole", diffs |-> diffs', misses |-> misses']
        BY <2>1, <3>1 DEF ExtraFields
      <4>2. diffs' \in Seq(Diff) /\ misses' \in Nat
        BY <1>0, <2>1, <2>2 DEF AreChanges
      <4>3. tmp' \in File
        BY <4>1, <4>2 DEF File
      <4>4. AreChanges(tmp.diffs)'
        BY <2>2, <4>1 DEF AreChanges
      <4> QED
        BY <4>3, <4>4 DEF IsFileOfBlock
    <3>2. CASE tmp' = Nothing
      BY <3>2, NothingOfBlock
    <3> QED
      BY <2>1, <3>1, <3>2
  <2> QED
    BY <1>0, <2>1, <2>2, <2>3 DEF WorkInv
<1>6. CASE Rename
  <2>1. /\ UNCHANGED <<block, contract, rows, diffs, answers, misses>> /\ pc' # "native"
        /\ tmp' = Nothing /\ file' \in {tmp, file}
    BY <1>6 DEF Rename, native, work
  <2> QED
    BY <1>0, <2>1, StillOfBlock DEF WorkInv
<1>7. CASE Answered \/ Restart
  <2>1. /\ rows' = << >> /\ diffs' = << >> /\ answers' = {} /\ misses' = 0
        /\ UNCHANGED <<block, contract, file>> /\ tmp' \in {tmp, Partial}
    BY <1>7 DEF Answered, Restart, native, disk
  <2> QED
    BY <2>1, StillOfBlock DEF WorkInv
<1> QED
  BY <1>1, <1>2, <1>3, <1>4, <1>5, <1>6, <1>7 DEF Next, Client

\* generate_evm_data, final_processor and send_batch: whatever is resolved and
\* written for a block says what the contract holds after it.
THEOREM WorkInvariant == Spec => []WorkInv
<1>1. Init => WorkInv
  <2> SUFFICES ASSUME Init PROVE WorkInv
    OBVIOUS
  <2>1. rows = << >> /\ diffs = << >> /\ answers = {} /\ misses = 0 /\ tmp = Nothing
        /\ file = Nothing
    BY DEF Init
  <2>2. RowsAreRight
    BY <2>1, EmptySeq DEF RowsAreRight
  <2> QED
    BY <2>1, <2>2, EmptyWork DEF WorkInv
<1> QED
  BY <1>1, WorkPreserved, LookupsAreRight, PhasesInOrder, ChainInvariant, PTL DEF Spec

-------------------------------------------------------------------------------
(***************************************************************************)
(* The executor's storage.                                                 *)
(***************************************************************************)

\* The last place of a list at which something is.
LEMMA LastPlace ==
  ASSUME NEW n \in Nat, NEW places \in SUBSET (1..n), places # {}
  PROVE  Max(places) \in places
<1>1. IsFiniteSet(places)
  <2>1. IsFiniteSet(1..n)
    BY FS_Interval
  <2> QED
    BY <2>1, FS_Subset
<1>2. places \in SUBSET Int
  OBVIOUS
<1>3. \E m \in places : \A k \in places : k <= m
  BY <1>1, <1>2, LargestNumber
<1>4. \E m \in places : \A k \in places : m >= k
  BY <1>2, <1>3
<1> QED
  BY <1>4 DEF Max

\* Where a slot of the contract is in the executor's storage.
PlaceOf(s) == <<AddressOf(s[1]), s[2]>>

\* Every slot of the contract has a place of its own there.
LEMMA PlacesDiffer ==
  ASSUME NEW s \in Slots, NEW t \in Slots
  PROVE  PlaceOf(s) \in Address \X Keys /\ (PlaceOf(s) = PlaceOf(t) => s = t)
<1>1. /\ s[1] \in Indexes /\ t[1] \in Indexes /\ s[2] \in Keys
      /\ s = <<s[1], s[2]>> /\ t = <<t[1], t[2]>>
  BY DEF Slots
<1>2. AddressOf(s[1]) \in Address /\ (AddressOf(s[1]) = AddressOf(t[1]) => s[1] = t[1])
  BY <1>1, AddressesDiffer
<1>3. PlaceOf(s) = PlaceOf(t) => AddressOf(s[1]) = AddressOf(t[1]) /\ s[2] = t[2]
  BY DEF PlaceOf
<1> QED
  BY <1>1, <1>2, <1>3 DEF PlaceOf

\* What the changes of a block make of a storage: the contract's value in each
\* slot they are for, and nothing elsewhere.
LEMMA AppliedChanges ==
  ASSUME ChainInv, NEW storage \in [Address \X Keys -> 0..LastBlock],
         NEW changes, AreChanges(changes)
  PROVE  /\ Applied(storage, changes) \in [Address \X Keys -> 0..LastBlock]
         /\ \A s \in Slots :
              Applied(storage, changes)[PlaceOf(s)] =
                IF s \in Delivered(changes) THEN contract[s].value ELSE storage[PlaceOf(s)]
<1> DEFINE at(x) == {i \in 1..Len(changes) : <<changes[i].address, changes[i].key>> = x}
           last(x) == changes[Max(at(x))]
<1>0. LastBlock \in Nat
  BY DiffsAssumption
<1>1. /\ Len(changes) \in Nat
      /\ \A i \in 1..Len(changes) : changes[i] \in Diff /\ IsChange(changes[i])
  BY LenProperties, ElementOfSeq DEF AreChanges
<1>2. Changed \subseteq Slots
  BY DEF ChainInv, Changed, Deltas
<1>3. ASSUME NEW x, at(x) # {}
      PROVE  Max(at(x)) \in at(x)
  <2>1. at(x) \in SUBSET (1..Len(changes))
    OBVIOUS
  <2> HIDE DEF at
  <2> QED
    BY <1>1, <1>3, <2>1, LastPlace
<1>4. \A x \in Address \X Keys :
        Applied(storage, changes)[x] =
          IF at(x) = {} THEN storage[x] ELSE IF last(x).removed THEN 0 ELSE last(x).value
  BY DEF Applied
<1>5. ASSUME NEW x \in Address \X Keys
      PROVE  Applied(storage, changes)[x] \in 0..LastBlock
  <2>1. CASE at(x) = {}
    BY <1>4, <2>1
  <2>2. CASE at(x) # {}
    <3>1. last(x) \in Diff
      BY <1>1, <1>3, <2>2
    <3> HIDE DEF at, last
    <3>2. last(x).value \in 0..LastBlock
      BY <3>1 DEF Diff
    <3> QED
      BY <1>0, <1>4, <2>2, <3>2
  <2> QED
    BY <2>1, <2>2
<1>6. Applied(storage, changes) \in [Address \X Keys -> 0..LastBlock]
  <2>1. Applied(storage, changes) = [x \in Address \X Keys |-> Applied(storage, changes)[x]]
    BY DEF Applied
  <2> QED
    BY <1>5, <2>1
<1>7. ASSUME NEW s \in Slots, NEW i \in at(PlaceOf(s))
      PROVE  /\ s \in Delivered(changes)
             /\ contract[s].value = ValueOf(~changes[i].removed, changes[i].value)
  <2>1. i \in 1..Len(changes) /\ changes[i].address = AddressOf(s[1]) /\ changes[i].key = s[2]
    BY DEF PlaceOf
  <2>2. PICK t \in Changed : /\ changes[i].address = AddressOf(t[1]) /\ changes[i].key = t[2]
                             /\ contract[t].value = ValueOf(~changes[i].removed, changes[i].value)
    BY <1>1, <2>1 DEF IsChange
  <2>3. t \in Slots /\ PlaceOf(s) = PlaceOf(t)
    BY <1>2, <2>1, <2>2 DEF PlaceOf
  <2>4. s = t
    BY <2>3, PlacesDiffer
  <2> QED
    BY <2>1, <2>2, <2>4 DEF Delivered
<1>8. ASSUME NEW s \in Delivered(changes)
      PROVE  at(PlaceOf(s)) # {}
  BY DEF Delivered, PlaceOf
<1>9. ASSUME NEW s \in Slots
      PROVE  Applied(storage, changes)[PlaceOf(s)] =
               IF s \in Delivered(changes) THEN contract[s].value ELSE storage[PlaceOf(s)]
  <2>1. PlaceOf(s) \in Address \X Keys
    BY PlacesDiffer
  <2>2. CASE s \in Delivered(changes)
    <3>1. at(PlaceOf(s)) # {} /\ Max(at(PlaceOf(s))) \in at(PlaceOf(s))
      BY <1>3, <1>8, <2>2
    <3>2. contract[s].value = ValueOf(~last(PlaceOf(s)).removed, last(PlaceOf(s)).value)
      BY <1>7, <3>1
    <3> HIDE DEF at, last
    <3> QED
      BY <1>4, <2>1, <2>2, <3>1, <3>2 DEF ValueOf
  <2>3. CASE s \notin Delivered(changes)
    <3>1. at(PlaceOf(s)) = {}
      BY <1>7, <2>3
    <3> HIDE DEF at, last
    <3> QED
      BY <1>4, <2>1, <2>3, <3>1
  <2> QED
    BY <2>2, <2>3
<1> QED
  BY <1>6, <1>9

\* The executor's storage is the contract's, but for the slots of the block in
\* hand, unless it has the block, and for those whose last change is lost.
StorageInv ==
  /\ executor \in [Address \X Keys -> 0..LastBlock]
  /\ lost \subseteq Slots
  /\ \A s \in Slots \ lost :
       applied = num \/ s \notin Changed => executor[PlaceOf(s)] = contract[s].value

\* A payload is applied to the storage of the block before.
LEMMA ExecutorKeepsStorage ==
  ASSUME PhaseInv, ChainInv, WorkInv, StorageInv, ExecutorApplies
  PROVE  StorageInv'
<1>0. pending # 0 /\ UNCHANGED <<num, block, contract>>
  BY DEF ExecutorApplies, native
<1>1. Changed' = Changed /\ \A s \in Slots : PlaceOf(s)' = PlaceOf(s)
  BY <1>0 DEF Changed, PlaceOf, AddressOf
<1>2. CASE pending <= applied
  <2>1. UNCHANGED <<applied, executor, lost>>
    BY <1>2 DEF ExecutorApplies, remote
  <2> QED
    BY <1>0, <1>1, <2>1 DEF StorageInv, PlaceOf, AddressOf
<1>3. CASE ~(pending <= applied)
  <2> DEFINE list == IF file.kind = "whole" THEN file.diffs ELSE << >>
  <2>1. PICK changes \in {list} :
          /\ applied' = pending
          /\ executor' = Applied(executor, changes)
          /\ lost' = (lost \cup Changed) \ Delivered(changes)
    BY <1>3 DEF ExecutorApplies
  <2>2. AreChanges(changes)
    BY <2>1, EmptyWork DEF WorkInv, IsFileOfBlock
  <2>3. applied' = num'
    BY <1>0, <1>3, <2>1 DEF PhaseInv
  <2>4. /\ executor' \in [Address \X Keys -> 0..LastBlock]
        /\ \A s \in Slots :
             executor'[PlaceOf(s)] = IF s \in Delivered(changes) THEN contract[s].value
                                     ELSE executor[PlaceOf(s)]
    BY <2>1, <2>2, AppliedChanges DEF StorageInv
  <2>5. lost' \subseteq Slots
    BY <2>1 DEF StorageInv, ChainInv, Changed, Deltas
  <2>6. ASSUME NEW s \in Slots \ lost'
        PROVE  executor'[PlaceOf(s)] = contract'[s].value
    <3>1. CASE s \in Delivered(changes)
      BY <1>0, <2>4, <3>1
    <3>2. CASE s \notin Delivered(changes)
      <4>1. s \notin lost /\ s \notin Changed
        BY <2>1, <2>6, <3>2
      <4> QED
        BY <1>0, <2>4, <3>2, <4>1 DEF StorageInv
    <3> QED
      BY <3>1, <3>2
  <2> QED
    BY <1>1, <2>4, <2>5, <2>6 DEF StorageInv, PlaceOf, AddressOf
<1> QED
  BY <1>2, <1>3

\* The storage is tracked through every step.
LEMMA StoragePreserved ==
  ASSUME PhaseInv, ChainInv, WorkInv, StorageInv, [Next]_vars
  PROVE  StorageInv'
<1>1. CASE NativeBlock
  <2>1. /\ pc = "native" /\ num' = num + 1 /\ UNCHANGED <<applied, executor, lost>>
        /\ \A s \in Slots : s \notin Changed' => contract'[s] = contract[s]
    BY <1>1, NativeBlockOnContract DEF NativeBlock, remote
  <2>2. applied = num /\ applied' # num'
    BY <2>1 DEF PhaseInv
  <2>3. \A s \in Slots \ lost : executor[PlaceOf(s)] = contract[s].value
    BY <2>2 DEF StorageInv
  <2> QED
    BY <2>1, <2>2, <2>3 DEF StorageInv, PlaceOf, AddressOf
<1>2. CASE ExecutorApplies
  BY <1>2, ExecutorKeepsStorage
<1>3. CASE Client \/ Restart \/ UNCHANGED vars
  <2>1. UNCHANGED <<num, block, contract, applied, executor, lost>>
    BY <1>3, TranslationSteps DEF Client, WriteTmp, Rename, SendPayload, Answered, Restart, vars,
                                  native, remote
  <2> QED
    BY <2>1 DEF StorageInv, Changed, PlaceOf, AddressOf
<1> QED
  BY <1>1, <1>2, <1>3 DEF Next

\* The invariant holds in every reachable state.
THEOREM StorageInvariant == Spec => []StorageInv
<1>1. Init => StorageInv
  <2> SUFFICES ASSUME Init PROVE StorageInv
    OBVIOUS
  <2>1. /\ contract = [s \in Slots |-> NoRow] /\ lost = {}
        /\ executor = [s \in Address \X Keys |-> 0]
    BY DEF Init
  <2>2. \A s \in Slots : PlaceOf(s) \in Address \X Keys
    BY PlacesDiffer
  <2>3. \A s \in Slots : executor[PlaceOf(s)] = contract[s].value
    BY <2>1, <2>2 DEF NoRow
  <2> QED
    BY <2>1, <2>3, DiffsAssumption DEF StorageInv
<1> QED
  BY <1>1, StoragePreserved, PhasesInOrder, ChainInvariant, WorkInvariant, PTL DEF Spec

\* generate_evm_data to the executor: once a block is applied, the executor's
\* storage is the contract's in every slot whose last change has not been lost.
THEOREM StorageFollowsContract == Spec => []StorageTracksContract
<1>1. PhaseInv /\ StorageInv => StorageTracksContract
  BY DEF PhaseInv, StorageInv, StorageTracksContract, PlaceOf
<1> QED
  BY <1>1, PhasesInOrder, StorageInvariant, PTL

\* The variables of the model have their types.
THEOREM DiffsTypesHold == Spec => []TypeOK
<1> DEFINE WarnedOK == warned \in BOOLEAN
<1>1. LookupInv /\ PhaseInv /\ WarnedOK /\ ChainInv /\ WorkInv /\ StorageInv => TypeOK
  <2> SUFFICES ASSUME LookupInv, PhaseInv, WarnedOK, ChainInv, WorkInv, StorageInv
               PROVE  TypeOK
    OBVIOUS
  <2>1. num \in 0..LastBlock /\ applied \in {num - 1, num} /\ pending \in {0, num - 1, num}
    BY DiffsAssumption DEF PhaseInv
  <2>2. rows \in Seq(Deltas)
    <3>1. block.deltas \subseteq Deltas
      BY DEF ChainInv
    <3> QED
      BY <3>1, LenProperties, ElementOfSeq, SeqDef DEF LookupInv
  <2> QED
    BY <2>1, <2>2 DEF TypeOK, LookupInv, PhaseInv, ChainInv, WorkInv, AreChanges, IsFileOfBlock,
                            StorageInv
<1>2. Init => WarnedOK
  BY DEF Init
<1>3. ASSUME WarnedOK, [Next]_vars
      PROVE  WarnedOK'
  <2>1. warned' \in {warned, TRUE, FALSE}
    BY <1>3, TranslationSteps DEF Next, Client, NativeBlock, WriteTmp, Rename, SendPayload, Answered,
                                  ExecutorApplies, Restart, vars, disk
  <2> QED
    BY <1>3, <2>1, Zenon
<1> HIDE DEF WarnedOK
<1> QED
  BY <1>1, <1>2, <1>3, LookupsAreRight, PhasesInOrder, ChainInvariant, WorkInvariant,
     StorageInvariant, PTL DEF Spec

-------------------------------------------------------------------------------
(***************************************************************************)
(* Changes that are dropped.                                               *)
(***************************************************************************)

\* The tries of n lookups that have failed.
TriesOf(n) == (MaxRetry + 1) * n

\* One more, one fewer, none.
LEMMA TriesAdd ==
  ASSUME NEW n \in Int
  PROVE  TriesOf(n) \in Int /\ TriesOf(n + 1) = TriesOf(n) + MaxRetry + 1 /\ TriesOf(0) = 0
<1>1. MaxRetry \in Int
  BY CacheAssumption
<1> QED
  BY <1>1 DEF TriesOf

\* The slots a block changes are finitely many.
LEMMA ChangedIsFinite ==
  ASSUME LookupInv
  PROVE  Cardinality(Changed) \in Nat
<1> DEFINE slotOf == [d \in block.deltas |-> d.slot]
<1>1. slotOf \in Surjection(block.deltas, Changed)
  BY DEF Surjection, Changed
<1>2. IsFiniteSet(Changed)
  BY <1>1, FS_Surjection DEF LookupInv
<1> QED
  BY <1>2, FS_CardinalityType

\* As many tries have failed as the changes that a list of them lacks have cost.
IsPaid(list, failed) == TriesOf(Cardinality(Changed) - Len(list)) <= failed

IsPaidFile(f) == f.kind = "whole" => IsPaid(f.diffs, f.misses)

\* Every row has been resolved, has failed MAX_RETRY + 1 times, or is still to be
\* resolved, the first of them after some failures.
EarnedInv ==
  /\ pc \notin {"transfers", "rows"} => rows = << >>
  /\ tries # 0 => \/ pc \in {"transfers", "wallets"} /\ names # << >>
                  \/ pc = "rows" /\ rows # << >>
  /\ pc \notin {"native", "decode"} =>
       TriesOf(Cardinality(Changed) - Len(diffs) - Len(rows))
         + (IF pc = "rows" THEN tries ELSE 0) <= misses
  /\ IsPaidFile(tmp) /\ IsPaidFile(file)

\* A lookup of the rows costs what it has failed.
LEMMA RowsArePaid ==
  ASSUME LookupInv, ChainInv, WorkInv, EarnedInv, ResolveScope \/ DropRow
  PROVE  EarnedInv'
<1> DEFINE open == Cardinality(Changed) - Len(diffs) - Len(rows)
<1>1. /\ pc = "rows" /\ pc' = "rows" /\ rows # << >> /\ rows' = Tail(rows)
      /\ UNCHANGED <<block, tmp, file>>
  BY DEF ResolveScope, DropRow, native, disk
<1>2. Len(rows') = Len(rows) - 1 /\ Len(rows) \in Nat
  BY <1>1, TailRows
<1>3. Cardinality(Changed) \in Nat /\ Changed' = Changed
  BY <1>1, ChangedIsFinite DEF Changed
<1>4. diffs \in Seq(Diff) /\ Len(diffs) \in Nat /\ tries \in 0..MaxRetry /\ misses \in Nat
      /\ MaxRetry \in Nat
  BY LenProperties, CacheAssumption DEF WorkInv, AreChanges, LookupInv, CacheTypeOK
<1>5. TriesOf(open) + tries <= misses
  BY <1>1 DEF EarnedInv
<1>6. open \in Int /\ TriesOf(open) \in Int /\ TriesOf(open + 1) = TriesOf(open) + MaxRetry + 1
  <2>1. open \in Int
    BY <1>2, <1>3, <1>4
  <2> HIDE DEF open
  <2> QED
    BY <2>1, TriesAdd
<1>7. tries' = 0
  BY DEF ResolveScope, DropRow, Resolves, IsHit, Keep, GivesUp, cacheVars
<1>8. TriesOf(Cardinality(Changed) - Len(diffs') - Len(rows')) + 0 <= misses'
  <2>1. CASE ResolveScope
    <3>1. PICK c : diffs' = Append(diffs, c)
      BY <2>1 DEF ResolveScope
    <3>2. Len(diffs') = Len(diffs) + 1
      BY <1>4, <3>1
    <3>3. misses' = misses
      BY <2>1 DEF ResolveScope
    <3>4. Cardinality(Changed) - Len(diffs') - Len(rows') = open
      BY <1>2, <1>3, <1>4, <3>2
    <3> HIDE DEF open
    <3> QED
      BY <1>4, <1>5, <1>6, <3>3, <3>4
  <2>2. CASE DropRow
    <3>1. diffs' = diffs /\ misses' = misses + 1 /\ tries = MaxRetry
      BY <2>2 DEF DropRow, GivesUp
    <3>2. Cardinality(Changed) - Len(diffs') - Len(rows') = open + 1
      BY <1>2, <1>3, <1>4, <3>1
    <3> HIDE DEF open
    <3> QED
      BY <1>4, <1>5, <1>6, <3>1, <3>2
  <2> QED
    BY <2>1, <2>2
<1>9. IsPaidFile(tmp)' /\ IsPaidFile(file)'
  BY <1>1, <1>3 DEF EarnedInv, IsPaidFile, IsPaid
<1> QED
  BY <1>1, <1>3, <1>7, <1>8, <1>9 DEF EarnedInv

\* The other lookups.
LEMMA OtherLookupsArePaid ==
  ASSUME LookupInv, ChainInv, WorkInv, EarnedInv,
         ResolveTransfer \/ AbandonTransfers \/ ResolveWallet \/ TryAgain
  PROVE  EarnedInv'
<1> DEFINE open == Cardinality(Changed) - Len(diffs) - Len(rows)
<1>1. /\ pc \in {"transfers", "rows", "wallets"} /\ pc' = pc
      /\ UNCHANGED <<block, rows, diffs, tmp, file>>
  BY DEF ResolveTransfer, AbandonTransfers, ResolveWallet, TryAgain, native, disk
<1>2. Changed' = Changed
  BY <1>1 DEF Changed
<1>3. Cardinality(Changed) \in Nat /\ Len(diffs) \in Nat /\ Len(rows) \in Nat
      /\ tries \in Nat /\ misses \in Nat
  BY ChangedIsFinite, LenProperties, CacheAssumption
     DEF WorkInv, AreChanges, LookupInv, CacheTypeOK
<1>4. open \in Int /\ TriesOf(open) \in Int
  <2>1. open \in Int
    BY <1>3
  <2> HIDE DEF open
  <2> QED
    BY <2>1, TriesAdd
<1>5. TriesOf(open) + (IF pc = "rows" THEN tries ELSE 0) <= misses
  BY <1>1 DEF EarnedInv
<1>6. IsPaidFile(tmp)' /\ IsPaidFile(file)'
  BY <1>1, <1>2 DEF EarnedInv, IsPaidFile, IsPaid
<1>7. \/ /\ tries' = 0 /\ misses' = misses /\ pc # "rows"
      \/ /\ tries' = tries + 1 /\ misses' = misses /\ names' = names /\ names # << >>
         /\ pc \in {"transfers", "wallets"}
      \/ /\ tries' = tries + 1 /\ misses' = misses + 1 /\ rows # << >> /\ pc = "rows"
  BY DEF ResolveTransfer, AbandonTransfers, ResolveWallet, TryAgain, Resolves, IsHit, Keep, Fails,
         GivesUp, cacheVars
<1>8. TriesOf(Cardinality(Changed)' - Len(diffs') - Len(rows')) = TriesOf(open)
  BY <1>1, <1>2
<1> HIDE DEF open
<1>9. TriesOf(open) + (IF pc' = "rows" THEN tries' ELSE 0) <= misses'
  BY <1>1, <1>3, <1>4, <1>5, <1>7
<1> QED
  BY <1>1, <1>6, <1>7, <1>8, <1>9 DEF EarnedInv

\* The steps between the lookups change neither the failures nor what they paid
\* for.
LEMMA WaitingIsPaid ==
  ASSUME LookupInv, WorkInv, EarnedInv,
         ActionsHandled \/ RowsResolved \/ BlockCompleted \/ SendPayload
  PROVE  EarnedInv'
<1>1. /\ UNCHANGED <<block, rows, diffs, misses, tries, tmp, file>>
      /\ pc' \notin {"native", "decode"}
      /\ \/ pc = "transfers" /\ pc' = "rows" /\ names = << >>
         \/ pc = "rows" /\ rows = << >> /\ pc' = "wallets"
         \/ pc = "wallets" /\ names = << >> /\ pc' = "write"
         \/ pc = "send" /\ pc' = "wait"
  BY DEF ActionsHandled, RowsResolved, BlockCompleted, SendPayload, native, cacheVars, work, disk
<1>2. Changed' = Changed
  BY <1>1 DEF Changed
<1>3. IsPaidFile(tmp)' /\ IsPaidFile(file)'
  BY <1>1, <1>2 DEF EarnedInv, IsPaidFile, IsPaid
<1>4. tries = 0
  BY <1>1 DEF EarnedInv
<1> QED
  BY <1>1, <1>2, <1>3, <1>4 DEF EarnedInv

\* The cost of what is missing is paid after every step.
LEMMA EarnedPreserved ==
  ASSUME LookupInv, PhaseInv, ChainInv, WorkInv, FileInv, EarnedInv, [Next]_vars
  PROVE  EarnedInv'
<1>1. CASE NativeBlock
  <2>1. pc = "native" /\ pc' = "decode" /\ UNCHANGED <<rows, tries>>
        /\ tmp' = Nothing /\ file' = Nothing
    BY <1>1 DEF NativeBlock, work, cacheVars
  <2>2. Nothing.kind # "whole"
    BY DEF Nothing
  <2> QED
    BY <2>1, <2>2 DEF EarnedInv, IsPaidFile
<1>2. CASE Decode
  <2>1. /\ pc = "decode" /\ pc' = "transfers" /\ diffs' = << >> /\ misses' = 0
        /\ UNCHANGED <<block, tmp, file, tries>>
    BY <1>2 DEF Decode, native, disk, cacheVars
  <2>2. PICK order \in Orders(block.deltas) : \E sorted \in Orders(Deduplicated(order)) :
          rows' = sorted
    BY <1>2 DEF Decode
  <2>3. PICK sorted \in Orders(Deduplicated(order)) : rows' = sorted
    BY <2>2
  <2>4. Len(rows') = Cardinality(Changed)
    BY <2>3, RowsAreFinal DEF LookupInv
  <2>5. Changed' = Changed /\ Cardinality(Changed) \in Nat /\ Len(diffs') = 0
    BY <2>1, ChangedIsFinite, EmptySeq DEF Changed
  <2>6. Cardinality(Changed)' - Len(diffs') - Len(rows') = 0
    BY <2>4, <2>5
  <2>7. TriesOf(0) = 0
    BY TriesAdd
  <2>8. IsPaidFile(tmp)' /\ IsPaidFile(file)' /\ tries' = 0
    BY <2>1, <2>5 DEF EarnedInv, IsPaidFile, IsPaid
  <2> QED
    BY <2>1, <2>6, <2>7, <2>8 DEF EarnedInv
<1>3. CASE Lookups
  BY <1>3, RowsArePaid, OtherLookupsArePaid DEF Lookups
<1>4. CASE ActionsHandled \/ RowsResolved \/ BlockCompleted \/ SendPayload
  BY <1>4, WaitingIsPaid
<1>5. CASE WriteTmp \/ Rename
  <2>1. /\ UNCHANGED <<block, rows, diffs, misses, tries>>
        /\ pc \in {"write", "rename"} /\ pc' \in {"rename", "send"}
        /\ tmp' \in {ExtraFields, Nothing} /\ file' \in {tmp, file}
    BY <1>5 DEF WriteTmp, Rename, native, cacheVars, work
  <2>2. Changed' = Changed
    BY <2>1 DEF Changed
  <2>3. rows = << >> /\ tries = 0
    BY <2>1 DEF EarnedInv
  <2>4. IsPaid(diffs, misses)
    <3>1. Cardinality(Changed) \in Nat /\ Len(diffs) \in Nat /\ Len(rows) = 0
      BY <2>3, ChangedIsFinite, LenProperties, EmptySeq DEF WorkInv, AreChanges
    <3>2. Cardinality(Changed) - Len(diffs) - Len(rows) = Cardinality(Changed) - Len(diffs)
      BY <3>1
    <3>3. TriesOf(Cardinality(Changed) - Len(diffs)) + 0 <= misses
      BY <2>1, <3>2 DEF EarnedInv
    <3>4. TriesOf(Cardinality(Changed) - Len(diffs)) \in Int
      BY <3>1, TriesAdd
    <3> QED
      BY <3>3, <3>4 DEF IsPaid
  <2>5. IsPaidFile(tmp)' /\ IsPaidFile(file)'
    <3>1. tmp' = ExtraFields => tmp'.kind = "whole" /\ tmp'.diffs = diffs /\ tmp'.misses = misses
      BY DEF ExtraFields
    <3>2. Nothing.kind # "whole"
      BY DEF Nothing
    <3> QED
      BY <2>1, <2>2, <2>4, <3>1, <3>2 DEF EarnedInv, IsPaidFile, IsPaid
  <2> QED
    BY <2>1, <2>2, <2>3, <2>5 DEF EarnedInv
<1>6. CASE Answered \/ Restart
  <2>1. /\ pc' \in {"native", "decode"} /\ rows' = << >>
        /\ (tries' = 0 \/ (tries' = tries /\ pc = "wait"))
        /\ UNCHANGED <<block, file>> /\ tmp' \in {tmp, Partial}
    BY <1>6 DEF Answered, Restart, native, disk, cacheVars
  <2>2. tries' = 0 /\ Partial.kind # "whole"
    BY <2>1 DEF EarnedInv, Partial
  <2> QED
    BY <2>1, <2>2 DEF EarnedInv, IsPaidFile, IsPaid, Changed
<1>7. CASE ExecutorApplies \/ UNCHANGED vars
  <2>1. UNCHANGED <<block, pc, names, rows, diffs, misses, tries, tmp, file>>
    BY <1>7 DEF ExecutorApplies, vars, native, cacheVars, work, disk
  <2> QED
    BY <2>1 DEF EarnedInv, IsPaidFile, IsPaid, Changed
<1> QED
  BY <1>1, <1>2, <1>3, <1>4, <1>5, <1>6, <1>7 DEF Next, Client

\* NameToAddressCache::get_index and final_processor: also across restarts, and in
\* a file of an earlier attempt, a storage change is missing only after
\* MAX_RETRY + 1 answers have failed for it.
THEOREM ChangesAreDroppedForCause == Spec => []DropsAreEarned
<1>1. Init => EarnedInv
  <2> SUFFICES ASSUME Init PROVE EarnedInv
    OBVIOUS
  <2>1. rows = << >> /\ tries = 0 /\ pc = "native" /\ tmp = Nothing /\ file = Nothing
    BY DEF Init, CacheInit
  <2>2. Nothing.kind # "whole"
    BY DEF Nothing
  <2> QED
    BY <2>1, <2>2 DEF EarnedInv, IsPaidFile
<1>2. EarnedInv => DropsAreEarned
  BY DEF EarnedInv, DropsAreEarned, IsPaidFile, IsPaid, TriesOf
<1> QED
  BY <1>1, <1>2, EarnedPreserved, LookupsAreRight, PhasesInOrder, ChainInvariant, WorkInvariant,
     FilesInvariant, PTL DEF Spec
===============================================================================

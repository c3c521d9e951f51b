------------------------- MODULE ConsensusClientProofs -------------------------
(***************************************************************************)
(* Theorems about ConsensusClient, for every value of its constants: its   *)
(* types, and that what the client holds of a run is one chain of blocks,  *)
(* whatever fails and whenever it restarts.                                *)
(***************************************************************************)
EXTENDS ConsensusClientInv, SequenceTheorems, TLAPS

-------------------------------------------------------------------------------
(***************************************************************************)
(* Hashes.                                                                 *)
(***************************************************************************)

\* The ancestor at a height of the chain is a hash of that height.
LEMMA AncestorAtType ==
  ASSUME NEW hash \in Hash, NEW n \in 0..Number(hash)
  PROVE  AncestorAt(hash, n) \in Hash /\ Number(AncestorAt(hash, n)) = n
BY SubSeqProperties DEF Hash, AncestorAt, Number

\* The canonical hash of a height is a hash of that height.
LEMMA CanonHashType ==
  ASSUME NEW n \in Nat
  PROVE  CanonHash(n) \in Hash /\ Number(CanonHash(n)) = n
<1>1. CanonHash(n) \in [1..n -> Content]
  BY ChainAssumption DEF CanonHash
<1>2. CanonHash(n) \in Seq(Content) /\ Len(CanonHash(n)) = n
  BY <1>1, SeqDef, LenProperties
<1> QED
  BY <1>2 DEF Hash, Number

\* The canonical child of the canonical block is the next canonical block.
LEMMA CanonChild ==
  ASSUME NEW n \in Nat
  PROVE  Child(CanonHash(n), Canonical) = CanonHash(n + 1)
<1>1. CanonHash(n) \in Seq(Content) /\ CanonHash(n + 1) \in Seq(Content)
      /\ Len(CanonHash(n)) = n /\ Len(CanonHash(n + 1)) = n + 1
  BY CanonHashType DEF Hash, Number
<1> DEFINE a == Child(CanonHash(n), Canonical)
<1>2. a \in Seq(Content) /\ Len(a) = n + 1 /\ a[n + 1] = Canonical
  BY <1>1, AppendProperties, ChainAssumption DEF Child
<1>2a. \A i \in 1..n : a[i] = CanonHash(n)[i]
  BY <1>1, AppendProperties, ChainAssumption DEF Child
<1>3. ASSUME NEW i \in 1..(n + 1)
      PROVE  a[i] = CanonHash(n + 1)[i]
  <2>1. CanonHash(n + 1)[i] = Canonical
    BY DEF CanonHash
  <2>2. CASE i \in 1..n
    <3>1. CanonHash(n)[i] = Canonical
      BY <2>2 DEF CanonHash
    <3> QED
      BY <1>2a, <2>1, <2>2, <3>1
  <2>3. CASE i = n + 1
    <3> HIDE DEF a
    <3> QED
      BY <1>2, <2>1, <2>3
  <2> QED
    BY <2>2, <2>3
<1> QED
  BY <1>1, <1>2, <1>3, SeqEqual

\* A lower canonical hash is an ancestor of a higher one.
LEMMA CanonAncestor ==
  ASSUME NEW n \in Nat, NEW k \in 0..n
  PROVE  AncestorAt(CanonHash(n), k) = CanonHash(k) /\ IsAncestor(CanonHash(k), CanonHash(n))
<1>1. CanonHash(n) \in Seq(Content) /\ CanonHash(k) \in Seq(Content)
      /\ Len(CanonHash(n)) = n /\ Len(CanonHash(k)) = k
  BY CanonHashType DEF Hash, Number
<1> DEFINE a == SubSeq(CanonHash(n), 1, k)
<1>2. a \in Seq(Content) /\ Len(a) = k /\ \A i \in 1..k : a[i] = CanonHash(n)[i]
  BY <1>1, SubSeqProperties
<1>3. \A i \in 1..k : a[i] = CanonHash(k)[i]
  BY <1>2 DEF CanonHash
<1>4. a = CanonHash(k)
  BY <1>1, <1>2, <1>3, SeqEqual
<1> QED
  BY <1>1, <1>4 DEF IsAncestor, AncestorAt, Number

\* A child is one higher than its parent, which is its ancestor.
LEMMA ChildType ==
  ASSUME NEW parent \in Hash, NEW content \in Content
  PROVE  /\ Child(parent, content) \in Hash
         /\ Number(Child(parent, content)) = Number(parent) + 1
         /\ AncestorAt(Child(parent, content), Number(parent)) = parent
<1> DEFINE child == Child(parent, content)
<1>1. parent \in Seq(Content) /\ Len(parent) \in Nat
  BY LenProperties DEF Hash
<1>2. child \in Seq(Content) /\ Len(child) = Len(parent) + 1
  BY <1>1, AppendProperties DEF Child
<1>3. \A i \in 1..Len(parent) : child[i] = parent[i]
  BY <1>1, AppendProperties DEF Child
<1> HIDE DEF child
<1> DEFINE a == SubSeq(child, 1, Len(parent))
<1>4. a \in Seq(Content) /\ Len(a) = Len(parent)
      /\ \A i \in 1..Len(parent) : a[i] = child[i]
  BY <1>1, <1>2, SubSeqProperties
<1>5. a = parent
  <2> HIDE DEF a
  <2> QED
    BY <1>1, <1>3, <1>4, SeqEqual
<1> QED
  BY <1>2, <1>5 DEF Hash, Number, AncestorAt, child

\* The prefixes of a hash are hashes.
LEMMA PrefixesType ==
  ASSUME NEW hash \in Hash
  PROVE  Prefixes(hash) \subseteq Hash
BY AncestorAtType DEF Prefixes

\* The genesis hash is a hash.
LEMMA GenesisType == Genesis \in Hash /\ Number(Genesis) = 0
BY EmptySeq DEF Genesis, Hash, Number

\* The number of a hash is a natural number.
LEMMA NumberType ==
  ASSUME NEW hash \in Hash
  PROVE  Number(hash) \in Nat
BY LenProperties DEF Hash, Number

-------------------------------------------------------------------------------
(***************************************************************************)
(* Ancestors.                                                              *)
(***************************************************************************)

\* The ancestor of an ancestor.
LEMMA AncestorOfAncestor ==
  ASSUME NEW h \in Hash, NEW n \in 0..Number(h), NEW m \in 0..n
  PROVE  AncestorAt(AncestorAt(h, n), m) = AncestorAt(h, m)
<1> DEFINE a == SubSeq(h, 1, n)
           b == SubSeq(a, 1, m)
           c == SubSeq(h, 1, m)
<1>1. h \in Seq(Content) /\ Len(h) \in Nat /\ n \in 0..Len(h) /\ m \in 0..n /\ m \in 0..Len(h)
  BY LenProperties DEF Hash, Number
<1>2. a \in Seq(Content) /\ Len(a) = n /\ \A i \in 1..n : a[i] = h[i]
  BY <1>1, SubSeqProperties
<1> HIDE DEF a
<1>3. b \in Seq(Content) /\ Len(b) = m /\ \A i \in 1..m : b[i] = a[i]
  BY <1>1, <1>2, SubSeqProperties
<1>4. c \in Seq(Content) /\ Len(c) = m /\ \A i \in 1..m : c[i] = h[i]
  BY <1>1, SubSeqProperties
<1>5. b = c
  <2> HIDE DEF b, c
  <2> QED
    BY <1>1, <1>2, <1>3, <1>4, SeqEqual
<1> QED
  BY <1>5 DEF AncestorAt, a

\* A hash is its own ancestor.
LEMMA AncestorSelf ==
  ASSUME NEW h \in Hash
  PROVE  IsAncestor(h, h)
<1> DEFINE a == SubSeq(h, 1, Len(h))
<1>1. h \in Seq(Content) /\ Len(h) \in Nat
  BY LenProperties DEF Hash
<1>2. a \in Seq(Content) /\ Len(a) = Len(h) /\ \A i \in 1..Len(h) : a[i] = h[i]
  BY <1>1, SubSeqProperties
<1>3. a = h
  <2> HIDE DEF a
  <2> QED
    BY <1>1, <1>2, SeqEqual
<1> QED
  BY <1>1, <1>3 DEF IsAncestor, AncestorAt, Number

\* The hash at a height of a chain is an ancestor.
LEMMA AncestorAtIs ==
  ASSUME NEW h \in Hash, NEW n \in 0..Number(h)
  PROVE  IsAncestor(AncestorAt(h, n), h)
BY AncestorAtType, NumberType DEF IsAncestor

\* Ancestors of ancestors are ancestors.
LEMMA AncestorTrans ==
  ASSUME NEW a \in Hash, NEW b \in Hash, NEW h \in Hash, IsAncestor(a, b), IsAncestor(b, h)
  PROVE  IsAncestor(a, h)
<1>1. /\ Number(a) \in Nat /\ Number(b) \in Nat /\ Number(h) \in Nat
      /\ Number(a) <= Number(b) /\ Number(b) <= Number(h)
      /\ a = AncestorAt(b, Number(a)) /\ b = AncestorAt(h, Number(b))
  BY NumberType DEF IsAncestor
<1>2. AncestorAt(AncestorAt(h, Number(b)), Number(a)) = AncestorAt(h, Number(a))
  BY <1>1, AncestorOfAncestor
<1> QED
  BY <1>1, <1>2 DEF IsAncestor

\* Two ancestors of one hash are on one chain.
LEMMA AncestorsOrdered ==
  ASSUME NEW a \in Hash, NEW b \in Hash, NEW h \in Hash, IsAncestor(a, h), IsAncestor(b, h),
         Number(a) <= Number(b)
  PROVE  IsAncestor(a, b)
<1>1. /\ Number(a) \in Nat /\ Number(b) \in Nat /\ Number(h) \in Nat
      /\ Number(b) <= Number(h)
      /\ a = AncestorAt(h, Number(a)) /\ b = AncestorAt(h, Number(b))
  BY NumberType DEF IsAncestor
<1>2. AncestorAt(AncestorAt(h, Number(b)), Number(a)) = AncestorAt(h, Number(a))
  BY <1>1, AncestorOfAncestor
<1> QED
  BY <1>1, <1>2 DEF IsAncestor

-------------------------------------------------------------------------------
(***************************************************************************)
(* The database.                                                           *)
(***************************************************************************)

\* A lookup gives the hash of a row, or the default.
LEMMA HashOrType ==
  ASSUME NEW st \in Store, NEW found \in SUBSET Keys(st), NEW default
  PROVE  HashOr(st, found, default) \in Hash \cup {default}
<1>1. CASE found = {}
  BY <1>1 DEF HashOr
<1>2. CASE found # {}
  <2> DEFINE k == CHOOSE x \in found : TRUE
  <2>1. k \in found
    BY <1>2
  <2>2. st.blocks[k] \in Hash
    BY <2>1 DEF Keys, Store
  <2> QED
    BY <1>2, <2>2 DEF HashOr
<1> QED
  BY <1>1, <1>2

\* The writes of the database keep its type.
LEMMA StoreWritesType ==
  ASSUME NEW st \in Store, NEW b \in Block, NEW n
  PROVE  /\ PutBlock(st, b) \in Store
         /\ DeleteBlock(st, n) \in Store
         /\ PutLib(st, b) \in Store
BY DEF Store, Block, PutBlock, DeleteBlock, PutLib

\* The database a run opens is a database.
LEMMA OpenedStoreType ==
  ASSUME store \in Store
  PROVE  OpenedStore \in Store
BY DEF OpenedStore, EmptyStore, Store

\* What a run starts from: a block number, and the hash of its parent.
LEMMA ResumePointType ==
  ASSUME NEW opened \in Store, NEW finalized
  PROVE  NextBlock(opened, finalized) \in Nat /\ PrevHash(opened, finalized) \in Hash
<1>1. ResumeKeys(opened, finalized) \subseteq Keys(opened)
  BY DEF ResumeKeys, LastChecked, GetBlockOrPrev
<1>2. NextBlock(opened, finalized) \in Nat
  <2>1. CASE ResumeKeys(opened, finalized) = {}
    BY <2>1, ClientAssumption, StoreAssumption DEF NextBlock
  <2>2. CASE ResumeKeys(opened, finalized) # {}
    <3>1. (CHOOSE k \in ResumeKeys(opened, finalized) : TRUE) \in Keys(opened)
      BY <1>1, <2>2
    <3>2. Keys(opened) \subseteq Nat
      BY StoreAssumption DEF Keys, Numbers
    <3> QED
      BY <2>2, <3>1, <3>2 DEF NextBlock
  <2> QED
    BY <2>1, <2>2
<1>3. PrevHash(opened, finalized) \in Hash
  <2>1. CanonHash(StartBlock - 1) \in Hash
    <3>1. StartBlock - 1 \in Nat
      BY ClientAssumption, StoreAssumption
    <3> QED
      BY <3>1, CanonHashType
  <2> QED
    BY <1>1, <2>1, HashOrType DEF PrevHash
<1> QED
  BY <1>2, <1>3

-------------------------------------------------------------------------------
(***************************************************************************)
(* The executor.                                                           *)
(***************************************************************************)

\* The executor's operations keep its type.
LEMMA EngineAtType ==
  ASSUME NEW head \in Hash, NEW finalized \in Hash
  PROVE  EngineAt(head, finalized) \in Engine
BY PrefixesType DEF EngineAt, Engine

\* Newly sent payloads leave a well typed executor.
LEMMA NewPayloadsType ==
  ASSUME NEW e \in Engine, NEW hashes \in SUBSET Hash
  PROVE  NewPayloads(e, hashes) \in Engine
BY DEF NewPayloads, Engine

\* So does a forkchoice update, executed or not.
LEMMA ForkChoiceUpdatedType ==
  ASSUME NEW e \in Engine, NEW head \in Hash, NEW safe \in Hash, NEW finalized \in Hash
  PROVE  ForkChoiceUpdated(e, head, safe, finalized) \in Engine
BY DEF ForkChoiceUpdated, Engine

\* And so does a restart of the executor.
LEMMA RestartedType ==
  ASSUME NEW e \in Engine
  PROVE  Restarted(e) \subseteq Engine
<1> SUFFICES ASSUME NEW r \in Restarted(e)
             PROVE  r \in Engine
  OBVIOUS
<1>1. PICK head \in Prefixes(e.head), mark \in {Genesis, e.finalized} : r = EngineAt(head, mark)
  BY DEF Restarted
<1>2. head \in Hash /\ mark \in Hash
  BY PrefixesType, GenesisType DEF Engine
<1> QED
  BY <1>1, <1>2, EngineAtType

-------------------------------------------------------------------------------
(***************************************************************************)
(* Steps that share a form: the two that start a run, with what they read  *)
(* of the executor, and the two that queue a block.                        *)
(***************************************************************************)

\* A run that starts, and what is remembered of a wrong answer.
Starts(latest, finalized) ==
  /\ Launch(latest, finalized)
  /\ latest \in ReadAs(engine.head)
  /\ finalized \in ReadAs(engine.finalized)
  /\ ~misread' => latest = engine.head /\ finalized = engine.finalized
  /\ ~misplaced' => ~misplaced /\ finalized = engine.finalized

Queues ==
  /\ pc = "check" /\ block.num > LatestEvmNum
  /\ Queue(Append(batch, block))
  /\ ~misread' => ~misread /\ ~Stored

\* Both starts launch a run.
LEMMA StartsLaunch ==
  ASSUME StartAttempt \/ StartMisread
  PROVE  \E latest, finalized : Starts(latest, finalized)
<1>1. CASE StartAttempt
  <2>1. Starts(engine.head, engine.finalized)
    BY <1>1 DEF StartAttempt, Starts, ReadAs
  <2> QED
    BY <2>1
<1>2. CASE StartMisread
  <2>1. PICK latest \in ReadAs(engine.head) : \E finalized \in ReadAs(engine.finalized) :
          /\ Launch(latest, finalized)
          /\ misplaced' = (misplaced \/ finalized # engine.finalized)
    BY <1>2 DEF StartMisread
  <2>2. PICK finalized \in ReadAs(engine.finalized) :
          /\ Launch(latest, finalized)
          /\ misplaced' = (misplaced \/ finalized # engine.finalized)
    BY <2>1
  <2>3. misread'
    BY <1>2 DEF StartMisread
  <2>4. Starts(latest, finalized)
    BY <2>2, <2>3 DEF Starts
  <2> QED
    BY <2>4
<1> QED
  BY <1>1, <1>2

\* Both queue the block in hand.
LEMMA QueuesBlock ==
  ASSUME QueueBlock \/ QueueMisread
  PROVE  Queues
BY DEF QueueBlock, QueueMisread, Queues

-------------------------------------------------------------------------------
(***************************************************************************)
(* Type correctness.                                                       *)
(***************************************************************************)

\* A run that ended leaves well typed locals.
LEMMA NoRunType ==
  ASSUME NoRun
  PROVE  /\ stream' \in Streams /\ channel' \in Seq(Block)
         /\ executor' = [latest |-> Genesis, finalized |-> Genesis]
         /\ executor' \in [latest : Hash \cup {NoHash}, finalized : Hash \cup {NoHash}]
         /\ misread' = FALSE /\ block' = NoBlock /\ lib' = 0 /\ isNewLib' = FALSE
         /\ batch' = << >> /\ batch' \in Seq(Block)
         /\ lastLibHash' = NoHash /\ safeHash' \in Hash
<1>1. StartBlock \in Nat
  BY ClientAssumption, StoreAssumption
<1>2. NoStream \in Streams
  BY <1>1, GenesisType DEF NoStream, Streams
<1> QED
  BY <1>2, GenesisType, EmptySeq DEF NoRun

\* So does every attempt that failed, and every process that died.
LEMMA NoRunKeepsType ==
  ASSUME TypeOK, NoRun, store' = store, shipLib' = shipLib, engine' \in Engine,
         misplaced' = misplaced, pc' \in {"idle", "failed"}, attempt' \in Nat, faults' \in Nat
  PROVE  TypeOK'
BY NoRunType DEF TypeOK, ProcessStates

\* An attempt that fails leaves a well typed process.
LEMMA AttemptFailsType ==
  ASSUME TypeOK, AttemptFails, store' = store, shipLib' = shipLib, engine' \in Engine,
         misplaced' = misplaced, faults' \in Nat
  PROVE  TypeOK'
<1>1. pc' \in {"idle", "failed"} /\ attempt' \in Nat /\ NoRun
  BY DEF AttemptFails, TypeOK
<1> QED
  BY <1>1, NoRunKeepsType

\* The initial states are well typed.
LEMMA InitType == Init => TypeOK
<1> SUFFICES ASSUME Init PROVE TypeOK
  OBVIOUS
<1>1. store \in Store
  BY DEF Init, EmptyStore, Store
<1>2. engine \in Engine
  <2>1. PICK head \in InitialHeads :
          \E n \in 0..Number(head) : engine = EngineAt(head, AncestorAt(head, n))
    BY DEF Init
  <2>2. PICK n \in 0..Number(head) : engine = EngineAt(head, AncestorAt(head, n))
    BY <2>1
  <2>3. head \in Hash /\ AncestorAt(head, n) \in Hash
    BY AncestorAtType, ClientAssumption
  <2> QED
    BY <2>2, <2>3, EngineAtType
<1>3. shipLib \in Nat
  BY StoreAssumption DEF Init
<1>4. stream \in Streams
  <2>1. StartBlock \in Nat
    BY ClientAssumption, StoreAssumption
  <2> QED
    BY <2>1, GenesisType DEF Init, NoStream, Streams
<1>5. channel \in Seq(Block) /\ batch \in Seq(Block)
  BY EmptySeq DEF Init
<1> QED
  BY <1>1, <1>2, <1>3, <1>4, <1>5, GenesisType DEF Init, TypeOK, ProcessStates

\* What a batch holds are hashes.
LEMMA BatchHashesType ==
  ASSUME batch \in Seq(Block)
  PROVE  BatchHashes \subseteq Hash
<1>1. ASSUME NEW i \in 1..Len(batch)
      PROVE  batch[i].hash \in Hash
  <2>1. batch[i] \in Block
    BY ElementOfSeq
  <2> QED
    BY <2>1 DEF Block
<1> QED
  BY <1>1 DEF BatchHashes

\* Every step keeps the types.
LEMMA NextType == TypeOK /\ [Next]_vars => TypeOK'
<1> SUFFICES ASSUME TypeOK, [Next]_vars PROVE TypeOK'
  OBVIOUS
<1>1. CASE StartAttempt \/ StartMisread
  <2>0. PICK latest, finalized : Starts(latest, finalized)
    BY <1>1, StartsLaunch
  <2>1. OpenedStore \in Store
    BY OpenedStoreType DEF TypeOK
  <2>2. NextBlock(OpenedStore, finalized) \in Nat /\ PrevHash(OpenedStore, finalized) \in Hash
    BY <2>1, ResumePointType
  <2>3. /\ executor' \in [latest : Hash \cup {NoHash}, finalized : Hash \cup {NoHash}]
        /\ lib' \in Nat
    BY <2>0, <2>1, GenesisType DEF Starts, Launch, ClearedLoop, ReadAs, TypeOK, Engine, Store
  <2>4. stream' \in Streams
    BY <2>0, <2>2 DEF Starts, Launch, Streams
  <2>5. store' \in Store /\ pc' = "recv" /\ UNCHANGED <<engine, shipLib>>
    BY <2>0, <2>1 DEF Starts, Launch
  <2>6. attempt' \in Nat
    BY <2>0 DEF Starts, Launch, TypeOK
  <2>7. channel' \in Seq(Block) /\ batch' \in Seq(Block)
    BY <2>0, EmptySeq DEF Starts, Launch, ClearedLoop
  <2>8. block' = NoBlock /\ isNewLib' = FALSE /\ lastLibHash' = NoHash /\ safeHash' = Genesis
    BY <2>0 DEF Starts, Launch, ClearedLoop
  <2>9. misread' \in BOOLEAN /\ misplaced' \in BOOLEAN /\ faults' \in Nat
    <3>1. faults' \in Nat
      BY <1>1 DEF StartAttempt, StartMisread, Fault, TypeOK
    <3>2. misread' \in BOOLEAN
      BY <1>1, Zenon DEF StartAttempt, StartMisread
    <3>3. misplaced \in BOOLEAN
      BY DEF TypeOK
    <3>4. misplaced' \in BOOLEAN
      BY <1>1, <3>3, Zenon DEF StartAttempt, StartMisread
    <3> QED
      BY <3>1, <3>2, <3>4
  <2> QED
    BY <2>3, <2>4, <2>5, <2>6, <2>7, <2>8, <2>9, GenesisType DEF TypeOK, ProcessStates
<1>2. CASE StartAboveMaximumRange \/ StartUnreachable
  <2>1. store' \in Store
    BY <1>2, OpenedStoreType DEF StartAboveMaximumRange, StartUnreachable, TypeOK
  <2>2. pc' \in {"idle", "failed"} /\ attempt' \in Nat /\ faults' \in Nat
    BY <1>2 DEF StartAboveMaximumRange, StartUnreachable, Fault, TypeOK
  <2>3. /\ UNCHANGED <<engine, shipLib, stream, channel, executor>>
        /\ UNCHANGED <<block, lib, isNewLib, batch, lastLibHash, safeHash, misread, misplaced>>
    BY <1>2 DEF StartAboveMaximumRange, StartUnreachable, ship, loop
  <2> QED
    BY <2>1, <2>2, <2>3 DEF TypeOK, ProcessStates
<1>3. CASE TranslatorSends
  <2>1. PICK content \in Translations :
          LET hash == Child(stream.parent, content)
          IN  /\ channel' = Append(channel, [num |-> stream.next, hash |-> hash, lib |-> shipLib])
              /\ stream' = [stream EXCEPT !.next = @ + 1, !.parent = hash, !.validated = TRUE]
    BY <1>3 DEF TranslatorSends
  <2>a. stream.next \in Nat /\ stream.parent \in Hash /\ shipLib \in Nat /\ channel \in Seq(Block)
    BY DEF TypeOK, Streams
  <2>b. content \in Content
    BY ClientAssumption
  <2>2. Child(stream.parent, content) \in Hash
    BY <2>a, <2>b, ChildType
  <2>3. channel' \in Seq(Block)
    <3>1. [num |-> stream.next, hash |-> Child(stream.parent, content), lib |-> shipLib] \in Block
      BY <2>a, <2>2 DEF Block
    <3> QED
      BY <2>1, <2>a, <3>1, AppendProperties
  <2>4. stream' \in Streams
    <3>1. stream \in Streams /\ stream.next + 1 \in Nat
      BY <2>a DEF TypeOK
    <3> QED
      BY <2>1, <2>2, <3>1 DEF Streams
  <2> QED
    BY <1>3, <2>3, <2>4 DEF TranslatorSends, TypeOK, loop
<1>4. CASE TranslatorRejects \/ TranslatorStops \/ StreamEnds \/ StreamFails
  <2>1. stream' \in Streams
    BY <1>4 DEF TranslatorRejects, TranslatorStops, StreamEnds, StreamFails, TypeOK, Streams
  <2> QED
    BY <1>4, <2>1 DEF TranslatorRejects, TranslatorStops, StreamEnds, StreamFails, Fault,
                      TypeOK, loop
<1>4a. CASE LibAdvances
  BY <1>4a DEF LibAdvances, TypeOK, loop
<1>5. CASE ReceiveBlock
  <2>1. block' \in Block /\ channel' \in Seq(Block)
    BY <1>5, HeadTailProperties DEF ReceiveBlock, TypeOK
  <2>2. store' \in Store
    BY <1>5, <2>1, StoreWritesType DEF ReceiveBlock, TypeOK
  <2> QED
    BY <1>5, <2>1, <2>2, ClientAssumption DEF ReceiveBlock, TypeOK, ProcessStates
<1>6. CASE EndOfStream
  <2>1. CASE AttemptFails
    BY <1>6, <2>1, AttemptFailsType DEF EndOfStream, TypeOK
  <2>2. CASE pc' = "finished" /\ UNCHANGED <<stream, channel, attempt, loop>>
    BY <1>6, <2>2 DEF EndOfStream, TypeOK, ProcessStates, loop
  <2> QED
    BY <1>6, <2>1, <2>2 DEF EndOfStream
<1>7. CASE PruneBlock
  <2>1. block \in Block
    BY <1>7 DEF PruneBlock, TypeOK
  <2>2. store' \in Store
    BY <1>7, <2>1, StoreWritesType DEF PruneBlock, TypeOK
  <2> QED
    BY <1>7, <2>2 DEF PruneBlock, TypeOK, ProcessStates, ship, loop
<1>8. CASE StoreLib
  <2>1. block \in Block
    BY <1>8 DEF StoreLib, TypeOK
  <2>2. store' \in Store /\ lib' \in Nat /\ isNewLib' \in BOOLEAN
    BY <1>8, <2>1, StoreWritesType DEF StoreLib, TypeOK, Block
  <2> QED
    BY <1>8, <2>2 DEF StoreLib, TypeOK, ProcessStates, ship
<1>9. CASE CheckPanics \/ HashMismatch
  BY <1>9, AttemptFailsType DEF CheckPanics, HashMismatch, TypeOK
<1>10. CASE SkipBlock
  BY <1>10 DEF SkipBlock, TypeOK, ProcessStates, ship, loop
<1>11. CASE QueueBlock \/ QueueMisread
  <2>0. Queues
    BY <1>11, QueuesBlock
  <2>1. block \in Block /\ block.hash \in Hash
    BY <2>0 DEF Queues, TypeOK, Block
  <2>2. batch' \in Seq(Block) /\ batch' # << >>
    BY <2>0, <2>1, AppendProperties DEF Queues, Queue, TypeOK
  <2>3. SafeHash \in Hash
    <3>1. \A n : GetBlockOrPrev(store, n) \subseteq Keys(store)
      BY DEF GetBlockOrPrev
    <3> QED
      BY <2>1, <3>1, HashOrType DEF SafeHash, TypeOK
  <2>4. FinalizedHash \in Hash \cup {NoHash}
    <3>1. \A n : GetBlockOrPrev(store, n) \subseteq Keys(store)
      BY DEF GetBlockOrPrev
    <3> QED
      BY <2>1, <3>1, HashOrType DEF FinalizedHash, TypeOK
  <2>5. misread' \in BOOLEAN /\ faults' \in Nat
    <3>1. faults' \in Nat
      BY <1>11 DEF QueueBlock, QueueMisread, Fault, TypeOK
    <3>2. misread \in BOOLEAN
      BY DEF TypeOK
    <3>3. misread' \in BOOLEAN
      BY <1>11, <3>2, Zenon DEF QueueBlock, QueueMisread
    <3> QED
      BY <3>1, <3>3
  <2>6. UNCHANGED <<store, engine, shipLib, stream, channel, attempt, executor, block, lib,
                    isNewLib, misplaced>>
    BY <2>0 DEF Queues, Queue, ship
  <2>7. /\ safeHash' \in Hash /\ lastLibHash' \in Hash \cup {NoHash}
        /\ pc' \in {"newPayload", "recv"}
    BY <2>0, <2>3, <2>4 DEF Queues, Queue, TypeOK
  <2> QED
    BY <2>1, <2>2, <2>5, <2>6, <2>7, ClientAssumption DEF TypeOK, ProcessStates
<1>12. CASE SendPayloads
  <2>1. BatchHashes \subseteq Hash
    BY BatchHashesType DEF TypeOK
  <2>2. engine' \in Engine
    BY <1>12, <2>1, NewPayloadsType DEF SendPayloads, TypeOK
  <2> QED
    BY <1>12, <2>2, EmptySeq DEF SendPayloads, TypeOK, ProcessStates, ship
<1>13. CASE SendForkChoice
  <2>1. batch[Len(batch)] \in Block
    BY <1>13, LenProperties, EmptySeq DEF SendForkChoice, TypeOK
  <2>2. engine' \in Engine
    BY <1>13, <2>1, ForkChoiceUpdatedType DEF SendForkChoice, TypeOK, Block
  <2> QED
    BY <1>13, <2>2, EmptySeq DEF SendForkChoice, TypeOK, ProcessStates, ship
<1>14. CASE CallFails \/ DatabaseFails
  BY <1>14, AttemptFailsType DEF CallFails, DatabaseFails, Fault, TypeOK
<1>15. CASE ResponseLost
  <2>1. BatchHashes \subseteq Hash
    BY BatchHashesType DEF TypeOK
  <2>2. CASE \E executed \in SUBSET BatchHashes : engine' = NewPayloads(engine, executed)
    <3>1. engine' \in Engine
      BY <2>1, <2>2, NewPayloadsType DEF TypeOK
    <3> QED
      BY <1>15, <3>1, AttemptFailsType DEF ResponseLost, Fault, TypeOK
  <2>3. CASE /\ pc = "forkChoice"
             /\ engine' = ForkChoiceUpdated(engine, batch[Len(batch)].hash, safeHash, lastLibHash)
    <3>1. batch[Len(batch)] \in Block
      BY <2>3, LenProperties, EmptySeq DEF TypeOK
    <3>2. engine' \in Engine
      BY <2>3, <3>1, ForkChoiceUpdatedType DEF TypeOK, Block
    <3> QED
      BY <1>15, <3>2, AttemptFailsType DEF ResponseLost, Fault, TypeOK
  <2> QED
    BY <1>15, <2>2, <2>3 DEF ResponseLost
<1>16. CASE Restart
  BY <1>16, NoRunKeepsType DEF Restart, Fault, TypeOK
<1>17. CASE ExecutorRestarts
  <2>1. engine' \in Engine
    BY <1>17, RestartedType DEF ExecutorRestarts, TypeOK
  <2> QED
    BY <1>17, <2>1 DEF ExecutorRestarts, Fault, TypeOK, ship, loop
<1>18. CASE UNCHANGED vars
  BY <1>18 DEF vars, ship, loop, TypeOK
<1> QED
  BY <1>1, <1>2, <1>3, <1>4, <1>4a, <1>5, <1>6, <1>7, <1>8, <1>9, <1>10, <1>11, <1>12, <1>13, <1>14,
     <1>15, <1>16, <1>17, <1>18
     DEF Next, Start, Translator, Loop, Environment

\* Type correctness: every variable keeps its type, and each step of the loop of
\* run() finds the block, the batch and the finalized hash it uses.
THEOREM TypeCorrect == Spec => []TypeOK
<1> QED
  BY InitType, NextType, PTL DEF Spec

-------------------------------------------------------------------------------
(***************************************************************************)
(* Linked sequences of blocks.                                             *)
(***************************************************************************)
LEMMA EmptyLinked == LinkedSeq(<< >>)
BY DEF LinkedSeq

\* A chain stays one when the child of its last block is appended.
LEMMA AppendLinked ==
  ASSUME NEW s \in Seq(Block), NEW b \in Block, LinkedSeq(s), Numbered(b),
         s # << >> => Linked(s[Len(s)], b)
  PROVE  LinkedSeq(Append(s, b))
<1> DEFINE t == Append(s, b)
<1>1. Len(s) \in Nat /\ Len(t) = Len(s) + 1 /\ t[Len(s) + 1] = b
  BY AppendProperties, LenProperties
<1>2. \A i \in 1..Len(s) : t[i] = s[i]
  BY AppendProperties, LenProperties
<1>3. s # << >> => Len(s) # 0
  BY EmptySeq
<1>4. s = << >> => Len(s) = 0
  OBVIOUS
<1> HIDE DEF t
<1>5. ASSUME NEW i \in 1..Len(t) PROVE Numbered(t[i])
  BY <1>1, <1>2 DEF LinkedSeq
<1>6. ASSUME NEW i \in 1..(Len(t) - 1) PROVE Linked(t[i], t[i + 1])
  <2>1. i \in 1..Len(s) /\ t[i] = s[i]
    BY <1>1, <1>2
  <2>2. CASE i = Len(s)
    BY <1>1, <1>4, <2>1, <2>2
  <2>3. CASE i # Len(s)
    <3>1. i \in 1..(Len(s) - 1) /\ i + 1 \in 1..Len(s)
      BY <1>1, <2>1, <2>3
    <3>2. t[i + 1] = s[i + 1]
      BY <1>2, <3>1
    <3> QED
      BY <2>1, <3>1, <3>2 DEF LinkedSeq
  <2> QED
    BY <2>2, <2>3
<1> QED
  BY <1>5, <1>6 DEF LinkedSeq, t

\* A chain stays one when its first block is taken.
LEMMA TailLinked ==
  ASSUME NEW s \in Seq(Block), s # << >>, LinkedSeq(s)
  PROVE  /\ LinkedSeq(Tail(s))
         /\ Tail(s) # << >> => Linked(s[1], Tail(s)[1]) /\ Tail(s)[Len(Tail(s))] = s[Len(s)]
<1> DEFINE t == Tail(s)
<1>1. /\ Len(s) \in Nat \ {0} /\ t \in Seq(Block) /\ Len(t) = Len(s) - 1
      /\ \A i \in 1..Len(t) : t[i] = s[i + 1]
  BY EmptySeq, HeadTailProperties
<1>2. t # << >> => Len(t) > 0
  BY <1>1, EmptySeq
<1> HIDE DEF t
<1>3. ASSUME NEW i \in 1..Len(t) PROVE Numbered(t[i])
  <2>1. i + 1 \in 1..Len(s) /\ t[i] = s[i + 1]
    BY <1>1
  <2> QED
    BY <2>1 DEF LinkedSeq
<1>4. ASSUME NEW i \in 1..(Len(t) - 1) PROVE Linked(t[i], t[i + 1])
  <2>1. i + 1 \in 1..(Len(s) - 1) /\ t[i] = s[i + 1] /\ t[i + 1] = s[(i + 1) + 1]
    BY <1>1
  <2> QED
    BY <2>1 DEF LinkedSeq
<1>5. ASSUME t # << >> PROVE Linked(s[1], t[1]) /\ t[Len(t)] = s[Len(s)]
  <2>1. 1 \in 1..(Len(s) - 1) /\ t[1] = s[1 + 1] /\ t[Len(t)] = s[Len(s)]
    BY <1>1, <1>2, <1>5
  <2> QED
    BY <2>1 DEF LinkedSeq
<1> QED
  BY <1>3, <1>4, <1>5 DEF LinkedSeq, t

-------------------------------------------------------------------------------
(***************************************************************************)
(* The invariant.                                                          *)
(***************************************************************************)

\* An empty batch is a chain of new blocks.
LEMMA EmptyBatch ==
  batch = << >> =>
    /\ BatchLinked /\ BatchIsNew
    /\ pc \notin {"newPayload", "forkChoice"} => BatchOrdered
BY EmptyLinked DEF BatchLinked, BatchIsNew, BatchOrdered

\* What is left of a run that is over, or has not begun.
NoRunLeft ==
  /\ channel = << >> /\ batch = << >> /\ block = NoBlock /\ stream.status = "off" /\ ~Running
  /\ executor = [latest |-> Genesis, finalized |-> Genesis]

\* It is a chain.
LEMMA EmptyRun ==
  NoRunLeft => StreamNumbered /\ ChannelLinked /\ BlockLinked /\ BatchOrdered /\ RunIsExact
<1> SUFFICES ASSUME NoRunLeft
             PROVE  StreamNumbered /\ ChannelLinked /\ BlockLinked /\ BatchOrdered /\ RunIsExact
  OBVIOUS
<1> USE DEF NoRunLeft
<1>1. ChannelLinked /\ BlockLinked /\ StreamNumbered /\ HeadBelow
  BY EmptyLinked DEF ChannelLinked, BlockLinked, StreamNumbered, HeadBelow
<1>2. BatchLinked /\ BatchIsNew /\ BatchOrdered
  BY EmptyBatch DEF Running
<1>3. ExecutorRead
  BY GenesisType, StoreAssumption DEF ExecutorRead
<1> QED
  BY <1>1, <1>2, <1>3 DEF RunIsExact

\* Nothing of a run is left when it has failed.
LEMMA NoRunIsChain ==
  ASSUME RunIsChain, NoRun, store' = store, pc' \in {"idle", "failed"}
  PROVE  RunIsChain'
<1>1. NoRunLeft'
  BY DEF NoRunLeft, NoRun, NoStream, Running
<1>2. (StreamNumbered /\ ChannelLinked /\ BlockLinked /\ BatchOrdered /\ RunIsExact)'
  <2>1. (NoRunLeft => StreamNumbered /\ ChannelLinked /\ BlockLinked /\ BatchOrdered /\ RunIsExact)'
    BY EmptyRun, PTL
  <2> QED
    BY <1>1, <2>1
<1>3. RowsNumbered'
  BY DEF RunIsChain, RowsNumbered, Keys
<1> QED
  BY <1>2, <1>3 DEF RunIsChain

\* An attempt that fails holds no block of its run any more.
LEMMA AttemptFailsIsChain ==
  ASSUME RunIsChain, AttemptFails, store' = store
  PROVE  RunIsChain'
BY NoRunIsChain DEF AttemptFails

\* The initial states hold no block at all.
LEMMA InitIsChain == Init => RunIsChain
<1> SUFFICES ASSUME Init PROVE RunIsChain
  OBVIOUS
<1>1. NoRunLeft
  BY DEF NoRunLeft, Init, NoStream, Running
<1>2. RowsNumbered
  BY DEF Init, EmptyStore, RowsNumbered, Keys
<1> QED
  BY <1>1, <1>2, EmptyRun DEF RunIsChain

\* A run starts at the block after the one it resumes from.
LEMMA ResumePointNumbered ==
  ASSUME NEW opened \in Store, NEW finalized, \A n \in Keys(opened) : Number(opened.blocks[n]) = n
  PROVE  Number(PrevHash(opened, finalized)) + 1 = NextBlock(opened, finalized)
<1>1. CASE ResumeKeys(opened, finalized) = {}
  <2>1. StartBlock - 1 \in Nat /\ PrevHash(opened, finalized) = CanonHash(StartBlock - 1)
    BY <1>1, ClientAssumption, StoreAssumption DEF PrevHash, HashOr
  <2> QED
    BY <1>1, <2>1, CanonHashType, ClientAssumption DEF NextBlock
<1>2. CASE ResumeKeys(opened, finalized) # {}
  <2> DEFINE k == CHOOSE x \in ResumeKeys(opened, finalized) : TRUE
  <2>1. k \in Keys(opened)
    BY <1>2 DEF ResumeKeys, LastChecked, GetBlockOrPrev
  <2>2. PrevHash(opened, finalized) = opened.blocks[k] /\ NextBlock(opened, finalized) = 1 + k
    BY <1>2 DEF PrevHash, HashOr, NextBlock
  <2>3. k \in Nat
    BY <2>1, StoreAssumption DEF Keys, Numbers
  <2> HIDE DEF k
  <2> QED
    BY <2>1, <2>2, <2>3
<1> QED
  BY <1>1, <1>2

\* The database a run opens keeps each hash under its number.
LEMMA OpenedStoreNumbered ==
  ASSUME RowsNumbered
  PROVE  \A n \in Keys(OpenedStore) : Number(OpenedStore.blocks[n]) = n
BY DEF RowsNumbered, OpenedStore, EmptyStore, Keys

\* What the steps of the loop need of the types.
LEMMA LoopTypes ==
  ASSUME TypeOK
  PROVE  /\ channel \in Seq(Block) /\ batch \in Seq(Block) /\ Len(batch) \in Nat
         /\ \A i \in 1..Len(batch) :
              batch[i] \in Block /\ batch[i].num \in Nat /\ batch[i].hash \in Hash
         /\ block # NoBlock => block \in Block /\ block.num \in Nat /\ block.hash \in Hash
         /\ Number(engine.head) \in Nat /\ engine.head \in Hash
         /\ executor.latest # NoHash => Number(executor.latest) \in Nat
         /\ LatestEvmNum \in Int
         /\ stream.parent \in Hash /\ stream.next \in Nat /\ shipLib \in Nat
<1>1. channel \in Seq(Block) /\ batch \in Seq(Block) /\ Len(batch) \in Nat
  BY LenProperties DEF TypeOK
<1>2. ASSUME NEW i \in 1..Len(batch)
      PROVE  batch[i] \in Block /\ batch[i].num \in Nat /\ batch[i].hash \in Hash
  <2>1. batch[i] \in Block
    BY <1>1, ElementOfSeq
  <2> QED
    BY <2>1 DEF Block
<1>3. block # NoBlock => block \in Block /\ block.num \in Nat /\ block.hash \in Hash
  BY DEF TypeOK, Block
<1>4. /\ engine.head \in Hash
      /\ executor.latest \in Hash \cup {NoHash} /\ executor.finalized \in Hash \cup {NoHash}
  BY DEF TypeOK, Engine
<1>5. stream.parent \in Hash /\ stream.next \in Nat /\ shipLib \in Nat
  BY DEF TypeOK, Streams
<1>6. LatestEvmNum \in Int
  <2>1. CASE executor.finalized = NoHash
    BY <2>1 DEF LatestEvmNum
  <2>2. CASE executor.finalized # NoHash
    <3>1. Number(executor.finalized) \in Nat
      BY <1>4, <2>2, NumberType
    <3> QED
      BY <2>2, <3>1 DEF LatestEvmNum
  <2> QED
    BY <2>1, <2>2
<1> QED
  BY <1>1, <1>2, <1>3, <1>4, <1>5, <1>6, NumberType

\* A run starts with the parent of its first block.
LEMMA StartIsChain ==
  ASSUME TypeOK, RunIsChain, StartAttempt \/ StartMisread
  PROVE  RunIsChain'
<1>0. PICK latest, finalized : Starts(latest, finalized)
  BY StartsLaunch
<1>1. /\ channel' = << >> /\ batch' = << >> /\ block' = NoBlock /\ pc' = "recv"
      /\ executor' = [latest |-> latest, finalized |-> finalized]
      /\ engine' = engine /\ store' = OpenedStore
      /\ stream'.parent = PrevHash(OpenedStore, finalized)
      /\ stream'.next = NextBlock(OpenedStore, finalized)
  BY <1>0 DEF Starts, Launch, ClearedLoop
<1>2. StreamNumbered' /\ RowsNumbered'
  BY <1>1, OpenedStoreType, OpenedStoreNumbered, ResumePointNumbered
     DEF TypeOK, RunIsChain, StreamNumbered, RowsNumbered
<1>3. ASSUME ~misread'
      PROVE  ExecutorRead' /\ HeadBelow'
  <2>1. latest = engine.head /\ finalized = engine.finalized
    BY <1>0, <1>3 DEF Starts
  <2>2. latest \in Hash /\ finalized \in Hash
    BY <2>1 DEF TypeOK, Engine
  <2> QED
    BY <1>1, <2>1, <2>2, LoopTypes, StoreAssumption DEF ExecutorRead, HeadBelow
<1>4. ChannelLinked' /\ BlockLinked'
  BY <1>1, EmptyLinked DEF ChannelLinked, BlockLinked
<1>5. (BatchLinked /\ BatchIsNew /\ BatchOrdered)'
  <2>1. (batch = << >> =>
          /\ BatchLinked /\ BatchIsNew
          /\ pc \notin {"newPayload", "forkChoice"} => BatchOrdered)'
    BY EmptyBatch, PTL
  <2> QED
    BY <1>1, <2>1
<1> QED
  BY <1>2, <1>3, <1>4, <1>5 DEF RunIsChain, RunIsExact

\* The translator appends the child of the block it sent before.
LEMMA TranslatorSendsIsChain ==
  ASSUME TypeOK, RunIsChain, TranslatorSends
  PROVE  RunIsChain'
<1>1. PICK content \in Translations :
        /\ channel' = Append(channel, [num |-> stream.next,
                                       hash |-> Child(stream.parent, content),
                                       lib |-> shipLib])
        /\ stream' = [stream EXCEPT !.next = @ + 1,
                                     !.parent = Child(stream.parent, content),
                                     !.validated = TRUE]
  BY DEF TranslatorSends
<1> DEFINE hash == Child(stream.parent, content)
           b == [num |-> stream.next, hash |-> hash, lib |-> shipLib]
<1>2. /\ hash \in Hash /\ Number(hash) = Number(stream.parent) + 1
      /\ AncestorAt(hash, Number(stream.parent)) = stream.parent
  BY ChildType, ClientAssumption, LoopTypes
<1>3. Number(stream.parent) + 1 = stream.next /\ Number(stream.parent) \in Nat
  BY NumberType, LoopTypes DEF RunIsChain, StreamNumbered, TranslatorSends, CanTranslate
<1>4. stream'.parent = hash /\ stream'.next = stream.next + 1
  BY <1>1 DEF TypeOK, Streams
<1> HIDE DEF hash
<1>5. b \in Block /\ Numbered(b)
  BY <1>2, <1>3, LoopTypes DEF Block, Numbered
<1>6. ASSUME NEW a, Numbered(a), a.hash = stream.parent
      PROVE  Linked(a, b)
  BY <1>2, <1>3, <1>6 DEF Linked, Numbered
<1>7. /\ channel \in Seq(Block) /\ LinkedSeq(channel)
      /\ channel # << >> => Numbered(channel[Len(channel)])
                           /\ channel[Len(channel)].hash = stream.parent
  <2>1. channel # << >> => Len(channel) \in Nat \ {0}
    BY LoopTypes, EmptySeq
  <2> QED
    BY <2>1, LoopTypes DEF RunIsChain, ChannelLinked, LinkedSeq
<1>8. channel' = Append(channel, b)
  BY <1>1 DEF hash
<1>9. /\ channel' # << >> /\ channel'[Len(channel')] = b
      /\ channel # << >> => channel'[1] = channel[1]
      /\ channel = << >> => channel'[1] = b
  <2>1. /\ Len(channel) \in Nat /\ channel' \in Seq(Block) /\ Len(channel') = Len(channel) + 1
        /\ channel'[Len(channel) + 1] = b
        /\ \A i \in 1..Len(channel) : channel'[i] = channel[i]
    BY <1>5, <1>7, <1>8, AppendProperties, LenProperties
  <2>2. channel # << >> => Len(channel) > 0
    BY <1>7, EmptySeq
  <2>3. channel = << >> => Len(channel) = 0
    OBVIOUS
  <2> QED
    BY <2>1, <2>2, <2>3, EmptySeq
<1> HIDE DEF b
<1>10. ChannelLinked'
  <2>1. LinkedSeq(Append(channel, b))
    BY <1>5, <1>6, <1>7, AppendLinked
  <2> QED
    BY <1>2, <1>4, <1>8, <1>9, <2>1 DEF ChannelLinked, b
<1>11. BlockLinked'
  <2>1. block' = block
    BY DEF TranslatorSends, loop
  <2> QED
    BY <1>6, <1>9, <2>1 DEF RunIsChain, BlockLinked
<1>12. StreamNumbered'
  BY <1>2, <1>3, <1>4 DEF StreamNumbered
<1>13. UNCHANGED <<store, engine, pc, executor, block, batch, misread>>
  BY DEF TranslatorSends, loop
<1>14. RowsNumbered' /\ BatchOrdered'
  BY <1>13 DEF RunIsChain, RowsNumbered, Keys, BatchOrdered, Handling
<1>15. RunIsExact => RunIsExact'
  BY <1>13 DEF RunIsExact, ExecutorRead, BatchLinked, Handling, BatchIsNew, LatestEvmNum,
               HeadBelow, Running
<1> QED
  BY <1>10, <1>11, <1>12, <1>13, <1>14, <1>15 DEF RunIsChain

\* The block taken is the child of the one handled before.
LEMMA ReceiveBlockIsChain ==
  ASSUME TypeOK, RunIsChain, ReceiveBlock
  PROVE  RunIsChain'
<1>1. /\ channel \in Seq(Block) /\ channel # << >> /\ Len(channel) \in Nat \ {0}
      /\ channel' = Tail(channel) /\ block' = channel[1] /\ block' \in Block
      /\ block' # NoBlock /\ pc = "recv" /\ pc' = "prune" /\ store' = PutBlock(store, block')
      /\ UNCHANGED <<batch, executor, engine, stream, misread>>
  BY LoopTypes, EmptySeq, HeadTailProperties, ElementOfSeq, ClientAssumption DEF ReceiveBlock
<1>2. Numbered(block') /\ block'.num \in Nat
  BY <1>1 DEF RunIsChain, ChannelLinked, LinkedSeq, Block
<1>3. ChannelLinked' /\ BlockLinked'
  <2>1. /\ LinkedSeq(channel')
        /\ channel' # << >> => Linked(block', channel'[1])
                              /\ channel'[Len(channel')] = channel[Len(channel)]
    BY <1>1, TailLinked DEF RunIsChain, ChannelLinked
  <2>2. channel' = << >> => block' = channel[Len(channel)]
    <3>1. channel' = << >> => Len(channel') = 0
      OBVIOUS
    <3>2. Len(channel') = Len(channel) - 1
      BY <1>1, HeadTailProperties
    <3> QED
      BY <1>1, <3>1, <3>2
  <2> QED
    BY <1>1, <1>2, <2>1, <2>2 DEF RunIsChain, ChannelLinked, BlockLinked
<1>4. block # NoBlock => Linked(block, block')
  BY <1>1 DEF RunIsChain, BlockLinked
<1>5. ASSUME RunIsExact PROVE RunIsExact'
  <2>1. BatchLinked'
    BY <1>1, <1>4, <1>5 DEF RunIsExact, BatchLinked, Handling
  <2>2. HeadBelow'
    <3>1. CASE Number(engine.head) <= Number(executor.latest)
      BY <1>1, <3>1 DEF HeadBelow
    <3>2. CASE ~(Number(engine.head) <= Number(executor.latest))
      <4>1. /\ block # NoBlock /\ Number(engine.head) <= block.num
            /\ \A i \in 1..Len(batch) : Number(engine.head) < batch[i].num
        BY <1>1, <1>5, <3>2 DEF RunIsExact, HeadBelow, Running
      <4>2. Number(engine.head) < block'.num
        BY <1>2, <1>4, <4>1, LoopTypes DEF Linked
      <4> QED
        BY <1>1, <1>2, <4>1, <4>2, LoopTypes DEF HeadBelow
    <3> QED
      BY <3>1, <3>2
  <2>3. BatchIsNew' /\ ExecutorRead'
    BY <1>1, <1>5 DEF RunIsExact, BatchIsNew, LatestEvmNum, ExecutorRead
  <2> QED
    BY <2>1, <2>2, <2>3 DEF RunIsExact
<1>6. BatchOrdered'
  <2> SUFFICES ASSUME NEW i \in 1..Len(batch)
               PROVE  IsAncestor(batch[i].hash, block'.hash) /\ batch[i].num < block'.num
    BY <1>1 DEF RunIsChain, BatchOrdered
  <2>1. /\ block # NoBlock /\ Numbered(batch[i]) /\ IsAncestor(batch[i].hash, block.hash)
        /\ batch[i].num \in Nat /\ batch[i].hash \in Hash /\ block.num \in Nat
        /\ block.hash \in Hash /\ block'.hash \in Hash
    <3>1. batch # << >>
      BY EmptySeq
    <3> QED
      BY <1>1, <3>1, LoopTypes DEF RunIsChain, BatchOrdered, Block
  <2>2. Linked(block, block') /\ Numbered(block)
    BY <1>4, <2>1 DEF RunIsChain, BlockLinked
  <2>3. IsAncestor(block.hash, block'.hash)
    <3>1. block.num \in 0..Number(block'.hash)
      BY <1>2, <2>1, <2>2 DEF Numbered, Linked
    <3> QED
      BY <2>1, <2>2, <3>1, AncestorAtIs DEF Linked
  <2>4. batch[i].num <= block.num
    BY <2>1, <2>2 DEF IsAncestor, Numbered
  <2> QED
    BY <1>2, <2>1, <2>2, <2>3, <2>4, AncestorTrans DEF Linked
<1>7. RowsNumbered'
  <2> SUFFICES ASSUME NEW n \in Keys(store')
               PROVE  Number(store'.blocks[n]) = n
    BY DEF RowsNumbered
  <2>1. n \in Numbers /\ store'.blocks[n] # NoHash
    BY DEF Keys
  <2>2. store'.blocks[n] = IF n = block'.num THEN block'.hash ELSE store.blocks[n]
    BY <1>1, <2>1 DEF PutBlock, TypeOK, Store
  <2>3. CASE n = block'.num
    BY <1>2, <2>2, <2>3 DEF Numbered
  <2>4. CASE n # block'.num
    BY <2>1, <2>2, <2>4 DEF RunIsChain, RowsNumbered, Keys
  <2> QED
    BY <2>3, <2>4
<1>8. StreamNumbered'
  BY <1>1 DEF RunIsChain, StreamNumbered
<1> QED
  BY <1>1, <1>3, <1>5, <1>6, <1>7, <1>8 DEF RunIsChain

\* Steps that touch neither the chain nor the executor.
LEMMA SameRunIsChain ==
  ASSUME RunIsChain,
         UNCHANGED <<engine, channel, executor, block, batch, misread>>,
         UNCHANGED <<stream.next, stream.parent>>,
         stream.status = "off" => stream'.status = "off",
         Handling' = Handling, Running' => Running,
         pc' \in {"newPayload", "forkChoice"} => pc \in {"newPayload", "forkChoice"},
         RowsNumbered'
  PROVE  RunIsChain'
<1>1. StreamNumbered' /\ ChannelLinked' /\ BlockLinked'
  BY DEF RunIsChain, StreamNumbered, ChannelLinked, BlockLinked
<1>2. RunIsExact => BatchLinked' /\ BatchIsNew' /\ ExecutorRead'
  BY DEF RunIsExact, BatchLinked, BatchIsNew, LatestEvmNum, ExecutorRead
<1>3. RunIsExact => HeadBelow'
  BY DEF RunIsExact, HeadBelow
<1>4. BatchOrdered'
  BY DEF RunIsChain, BatchOrdered
<1> QED
  BY <1>1, <1>2, <1>3, <1>4 DEF RunIsChain, RunIsExact

\* Pruning and storing the LIB touch no block of the run.
LEMMA StoreStepsAreChain ==
  ASSUME TypeOK, RunIsChain, PruneBlock \/ StoreLib
  PROVE  RunIsChain'
<1>1. /\ UNCHANGED <<engine, channel, executor, block, batch, stream, misread>>
      /\ Handling' = Handling /\ (Running' => Running) /\ pc' \in {"putLib", "check"}
  BY DEF PruneBlock, StoreLib, ship, loop, Handling, Running
<1>2. RowsNumbered'
  <2>1. \A n \in Keys(store') : n \in Keys(store) /\ store'.blocks[n] = store.blocks[n]
    BY DEF PruneBlock, StoreLib, DeleteBlock, PutLib, TypeOK, Store, Keys
  <2> QED
    BY <2>1 DEF RunIsChain, RowsNumbered
<1> QED
  BY <1>1, <1>2, SameRunIsChain

\* A block is skipped only while nothing waits in the batch, unless the executor
\* has given a wrong answer.
LEMMA SkipsBeforeQueueing ==
  ASSUME TypeOK, RunIsChain, SkipBlock, ~misread
  PROVE  batch = << >>
<1> SUFFICES ASSUME batch # << >> PROVE FALSE
  OBVIOUS
<1>0. RunIsExact
  BY DEF RunIsChain
<1>1. Len(batch) \in 1..Len(batch)
  BY EmptySeq, LoopTypes
<1>2. Linked(batch[Len(batch)], block) /\ block \in Block /\ block.num \in Nat
  BY <1>0, LoopTypes DEF RunIsExact, BatchLinked, Handling, SkipBlock
<1>3. batch[Len(batch)].num < block.num /\ batch[Len(batch)].num \in Nat
  BY <1>1, <1>2, LoopTypes DEF Linked
<1>4. block.num <= LatestEvmNum
      \/ (block.num <= Number(executor.latest) /\ block.num <= Number(engine.head))
  BY DEF SkipBlock, Stored, InCheckRange, HasBlockNumber
<1>5. /\ batch[Len(batch)].num > LatestEvmNum
      /\ \/ batch[Len(batch)].num > Number(executor.latest)
         \/ batch[Len(batch)].num > Number(engine.head)
  BY <1>0, <1>1 DEF RunIsExact, BatchIsNew
<1> QED
  BY <1>0, <1>2, <1>3, <1>4, <1>5, LoopTypes DEF RunIsExact, ExecutorRead

\* A block is skipped: the batch stays as it is.
LEMMA SkipBlockIsChain ==
  ASSUME TypeOK, RunIsChain, SkipBlock
  PROVE  RunIsChain'
<1>1. /\ UNCHANGED <<store, engine, stream, channel, executor, block, batch, misread>>
      /\ pc = "check" /\ pc' = "recv"
  BY DEF SkipBlock, ship, loop
<1>2. RowsNumbered' /\ StreamNumbered' /\ ChannelLinked' /\ BlockLinked'
  BY <1>1 DEF RunIsChain, RowsNumbered, Keys, StreamNumbered, ChannelLinked, BlockLinked
<1>3. BatchOrdered'
  BY <1>1 DEF RunIsChain, BatchOrdered, Handling
<1>4. ASSUME ~misread PROVE RunIsExact'
  <2>1. RunIsExact /\ batch = << >> /\ batch' = << >>
    BY <1>1, <1>4, SkipsBeforeQueueing DEF RunIsChain
  <2>2. (BatchLinked /\ BatchIsNew)'
    <3>1. (batch = << >> =>
            /\ BatchLinked /\ BatchIsNew
            /\ pc \notin {"newPayload", "forkChoice"} => BatchOrdered)'
      BY EmptyBatch, PTL
    <3> QED
      BY <2>1, <3>1
  <2>3. HeadBelow' /\ ExecutorRead'
    BY <1>1, <2>1 DEF RunIsExact, HeadBelow, Running, Handling, ExecutorRead
  <2> QED
    BY <2>2, <2>3 DEF RunIsExact
<1> QED
  BY <1>1, <1>2, <1>3, <1>4 DEF RunIsChain

\* The block queued follows the blocks of the batch.
LEMMA QueueIsChain ==
  ASSUME TypeOK, RunIsChain, QueueBlock \/ QueueMisread
  PROVE  RunIsChain'
<1>0. Queues
  BY QueuesBlock
<1>1. /\ UNCHANGED <<store, engine, stream, channel, executor, block>>
      /\ batch' = Append(batch, block) /\ pc = "check" /\ pc' \in {"recv", "newPayload"}
  BY <1>0 DEF Queues, Queue, ship
<1>2. /\ batch \in Seq(Block) /\ block # NoBlock /\ block \in Block /\ block.num \in Nat
      /\ block.hash \in Hash /\ \A i \in 1..Len(batch) : batch[i].num \in Nat
  BY <1>1, LoopTypes DEF TypeOK
<1>3. /\ Len(batch) \in Nat /\ Len(batch') = Len(batch) + 1 /\ batch' \in Seq(Block)
      /\ batch'[Len(batch) + 1] = block
      /\ \A i \in 1..Len(batch) : batch'[i] = batch[i]
  BY <1>1, <1>2, AppendProperties, LenProperties
<1>4. BatchOrdered'
  <2>1. ASSUME NEW i \in 1..Len(batch')
        PROVE  /\ Numbered(batch'[i])
               /\ IsAncestor(batch'[i].hash, block.hash)
               /\ \A j \in 1..(i - 1) : batch'[j].num < batch'[i].num
    <3>1. CASE i = Len(batch) + 1
      <4>1. Numbered(block) /\ IsAncestor(block.hash, block.hash)
        BY <1>2, AncestorSelf DEF RunIsChain, BlockLinked
      <4>2. \A j \in 1..Len(batch) : batch[j].num < block.num
        BY <1>1 DEF RunIsChain, BatchOrdered, Handling
      <4> QED
        BY <1>3, <3>1, <4>1, <4>2
    <3>2. CASE i # Len(batch) + 1
      <4>1. i \in 1..Len(batch) /\ \A j \in 1..(i - 1) : j \in 1..Len(batch)
        BY <1>3, <3>2
      <4> QED
        BY <1>3, <4>1 DEF RunIsChain, BatchOrdered
    <3> QED
      BY <3>1, <3>2
  <2> QED
    BY <1>1, <1>2, <1>3, <2>1 DEF BatchOrdered, Handling
<1>5. ASSUME ~misread' PROVE RunIsExact'
  <2>0. RunIsExact /\ ~Stored /\ block.num > LatestEvmNum
    BY <1>0, <1>5 DEF Queues, RunIsChain
  <2>1. BatchLinked'
    <3>1. LinkedSeq(Append(batch, block))
      BY <1>1, <1>2, <2>0, AppendLinked DEF RunIsChain, BlockLinked, RunIsExact, BatchLinked, Handling
    <3> QED
      BY <1>1, <1>2, <1>3, <3>1 DEF BatchLinked, Handling
  <2>2. BatchIsNew'
    <3>1. block.num > Number(executor.latest) \/ block.num > Number(engine.head)
      BY <1>2, <2>0, LoopTypes
         DEF Stored, InCheckRange, HasBlockNumber, RunIsExact, ExecutorRead
    <3> QED
      BY <1>1, <1>3, <2>0, <3>1 DEF RunIsExact, BatchIsNew, LatestEvmNum
  <2>3. HeadBelow'
    <3>1. CASE Number(engine.head) <= Number(executor.latest)
      BY <1>1, <3>1 DEF HeadBelow
    <3>2. CASE ~(Number(engine.head) <= Number(executor.latest))
      <4>1. /\ Number(engine.head) < block.num
            /\ \A i \in 1..Len(batch) : Number(engine.head) < batch[i].num
        BY <1>1, <2>0, <3>2 DEF RunIsExact, HeadBelow, Running, Handling
      <4>2. ASSUME NEW i \in 1..Len(batch') PROVE Number(engine.head) < batch'[i].num
        BY <1>3, <4>1
      <4> QED
        BY <1>1, <1>2, <4>1, <4>2, LoopTypes DEF HeadBelow, Handling
    <3> QED
      BY <3>1, <3>2
  <2> QED
    BY <1>1, <2>0, <2>1, <2>2, <2>3 DEF RunIsExact, ExecutorRead
<1>6. RowsNumbered' /\ StreamNumbered' /\ ChannelLinked' /\ BlockLinked'
  BY <1>1 DEF RunIsChain, RowsNumbered, Keys, StreamNumbered, ChannelLinked, BlockLinked
<1> QED
  BY <1>4, <1>5, <1>6 DEF RunIsChain

\* Sending payloads does not move the executor's head.
LEMMA SendPayloadsIsChain ==
  ASSUME TypeOK, RunIsChain, SendPayloads
  PROVE  RunIsChain'
<1>1. /\ UNCHANGED <<store, stream, channel, executor, block, misread>>
      /\ pc = "newPayload" /\ pc' \in {"recv", "forkChoice"}
      /\ batch' = batch \/ (batch' = << >> /\ pc' = "recv")
  BY DEF SendPayloads, ship
<1>2. engine'.head = engine.head
  BY DEF SendPayloads, NewPayloads, TypeOK, Engine
<1>3. RowsNumbered' /\ StreamNumbered' /\ ChannelLinked' /\ BlockLinked'
  BY <1>1 DEF RunIsChain, RowsNumbered, Keys, StreamNumbered, ChannelLinked, BlockLinked
<1>4. BatchOrdered' /\ (RunIsExact => RunIsExact')
  <2>1. CASE batch' = << >> /\ pc' = "recv"
    <3>1. (BatchLinked /\ BatchIsNew /\ BatchOrdered)'
      <4>1. (batch = << >> =>
              /\ BatchLinked /\ BatchIsNew
              /\ pc \notin {"newPayload", "forkChoice"} => BatchOrdered)'
        BY EmptyBatch, PTL
      <4> QED
        BY <2>1, <4>1
    <3> QED
      BY <1>1, <1>2, <2>1, <3>1 DEF RunIsExact, ExecutorRead, HeadBelow, Running, Handling
  <2>2. CASE batch' = batch
    BY <1>1, <1>2, <2>2
       DEF RunIsChain, BatchOrdered, RunIsExact, ExecutorRead, BatchLinked, BatchIsNew,
           LatestEvmNum, HeadBelow, Running, Handling
  <2> QED
    BY <1>1, <2>1, <2>2
<1> QED
  BY <1>1, <1>3, <1>4 DEF RunIsChain

\* A forkchoice update moves the head up to the block in hand, and clears the batch.
LEMMA SendForkChoiceIsChain ==
  ASSUME TypeOK, RunIsChain, SendForkChoice
  PROVE  RunIsChain'
<1>1. /\ UNCHANGED <<store, stream, channel, executor, block, misread>>
      /\ pc = "forkChoice" /\ pc' = "recv" /\ batch' = << >>
  BY DEF SendForkChoice, ship
<1>2. block # NoBlock /\ block = batch[Len(batch)] /\ block.num \in Nat /\ Numbered(block)
  BY <1>1, LoopTypes DEF TypeOK, RunIsChain, BatchOrdered, BlockLinked
<1>3. engine'.head = engine.head \/ engine'.head = block.hash
  BY <1>2 DEF SendForkChoice, ForkChoiceUpdated, TypeOK, Engine
<1>4. RunIsExact => HeadBelow'
  <2>1. CASE engine'.head = engine.head
    BY <1>1, <2>1 DEF RunIsExact, HeadBelow, Running, Handling
  <2>2. CASE engine'.head = block.hash
    BY <1>1, <1>2, <2>2 DEF HeadBelow, Handling, Numbered
  <2> QED
    BY <1>3, <2>1, <2>2
<1>5. (BatchLinked /\ BatchIsNew /\ BatchOrdered)'
  <2>1. (batch = << >> =>
          /\ BatchLinked /\ BatchIsNew
          /\ pc \notin {"newPayload", "forkChoice"} => BatchOrdered)'
    BY EmptyBatch, PTL
  <2> QED
    BY <1>1, <2>1
<1>6. RowsNumbered' /\ StreamNumbered' /\ ChannelLinked' /\ BlockLinked'
  BY <1>1 DEF RunIsChain, RowsNumbered, Keys, StreamNumbered, ChannelLinked, BlockLinked
<1> QED
  BY <1>1, <1>4, <1>5, <1>6 DEF RunIsChain, RunIsExact, ExecutorRead

\* A restarted executor keeps a prefix of its chain.
LEMMA RestartedHead ==
  ASSUME NEW e \in Engine, NEW r \in Restarted(e)
  PROVE  /\ r.head \in Prefixes(e.head) /\ Number(r.head) <= Number(e.head)
         /\ r.finalized \in {Genesis, e.finalized} /\ IsAncestor(r.finalized, r.head)
<1>1. PICK head \in Prefixes(e.head) :
        \E mark \in {f \in {Genesis, e.finalized} : IsAncestor(f, head)} :
          r = EngineAt(head, mark)
  BY DEF Restarted
<1>2. r.head = head /\ r.finalized \in {Genesis, e.finalized} /\ IsAncestor(r.finalized, head)
  BY <1>1 DEF EngineAt
<1>3. PICK n \in 0..Number(e.head) : head = AncestorAt(e.head, n)
  BY DEF Prefixes
<1>4. e.head \in Hash /\ Number(e.head) \in Nat
  BY NumberType DEF Engine
<1>5. Number(head) = n
  BY <1>3, <1>4, AncestorAtType
<1> QED
  BY <1>2, <1>4, <1>5

\* A restart of the executor only lowers its head.
LEMMA ExecutorRestartsIsChain ==
  ASSUME TypeOK, TypeOK', RunIsChain, ExecutorRestarts
  PROVE  RunIsChain'
<1>1. UNCHANGED <<store, stream, channel, executor, block, batch, pc, misread>>
  BY DEF ExecutorRestarts, ship, loop
<1>2. /\ Number(engine'.head) <= Number(engine.head)
      /\ Number(engine.head) \in Nat /\ Number(engine'.head) \in Nat
  BY RestartedHead, NumberType DEF ExecutorRestarts, TypeOK, Engine
<1>3. RowsNumbered' /\ StreamNumbered' /\ ChannelLinked' /\ BlockLinked' /\ BatchOrdered'
  BY <1>1 DEF RunIsChain, RowsNumbered, Keys, StreamNumbered, ChannelLinked, BlockLinked,
              BatchOrdered, Handling
<1>4. ASSUME RunIsExact PROVE RunIsExact'
  <2>1. ExecutorRead /\ ExecutorRead' /\ BatchLinked'
    BY <1>1, <1>4 DEF RunIsExact, ExecutorRead, BatchLinked, Handling
  <2>2. BatchIsNew'
    BY <1>1, <1>2, <1>4, <2>1, LoopTypes DEF RunIsExact, ExecutorRead, BatchIsNew, LatestEvmNum
  <2>3. HeadBelow'
    BY <1>1, <1>2, <1>4, <2>1, LoopTypes DEF RunIsExact, ExecutorRead, HeadBelow, Running, Handling
  <2> QED
    BY <2>1, <2>2, <2>3 DEF RunIsExact
<1> QED
  BY <1>1, <1>3, <1>4 DEF RunIsChain

\* A start that fails changes the database at most.
LEMMA StartFailsIsChain ==
  ASSUME TypeOK, RunIsChain, StartAboveMaximumRange \/ StartUnreachable
  PROVE  RunIsChain'
<1>1. /\ UNCHANGED <<engine, channel, executor, block, batch, stream, misread>>
      /\ store' = OpenedStore /\ pc = "idle" /\ pc' \in {"idle", "failed"}
  BY DEF StartAboveMaximumRange, StartUnreachable, ship, loop
<1>2. Handling' = Handling /\ (Running' => Running)
  BY <1>1 DEF Handling, Running
<1>3. RowsNumbered'
  BY <1>1, OpenedStoreNumbered DEF RunIsChain, RowsNumbered
<1> QED
  BY <1>1, <1>2, <1>3, SameRunIsChain

\* How the stream ends does not matter to the blocks in it.
LEMMA StreamStopsIsChain ==
  ASSUME TypeOK, RunIsChain,
         TranslatorRejects \/ TranslatorStops \/ StreamEnds \/ StreamFails
  PROVE  RunIsChain'
<1>1. /\ UNCHANGED <<store, engine, channel, executor, block, batch, pc, misread>>
      /\ stream.status = "running"
      /\ \E end \in {"error", "ended"} : stream' = [stream EXCEPT !.status = end]
  BY DEF TranslatorRejects, CanTranslate, TranslatorStops, StreamEnds, StreamFails, loop
<1>2. stream'.next = stream.next /\ stream'.parent = stream.parent
  BY <1>1 DEF TypeOK, Streams
<1>3. Handling' = Handling /\ (Running' => Running)
  BY <1>1 DEF Handling, Running
<1>4. RowsNumbered'
  BY <1>1 DEF RunIsChain, RowsNumbered, Keys
<1> QED
  BY <1>1, <1>2, <1>3, <1>4, SameRunIsChain

\* The end of the run, the LIB and stuttering change nothing of the chain.
LEMMA QuietStepsAreChain ==
  ASSUME RunIsChain, pc' = pc \/ (pc = "recv" /\ pc' = "finished"),
         UNCHANGED <<store, engine, stream, channel, executor, block, batch, misread>>
  PROVE  RunIsChain'
<1>1. Handling' = Handling /\ (Running' => Running)
  BY DEF Handling, Running
<1>2. RowsNumbered'
  BY DEF RunIsChain, RowsNumbered, Keys
<1> QED
  BY <1>1, <1>2, SameRunIsChain

\* Every step keeps the run on one chain.
LEMMA NextIsChain == TypeOK /\ TypeOK' /\ RunIsChain /\ [Next]_vars => RunIsChain'
<1> SUFFICES ASSUME TypeOK, TypeOK', RunIsChain, [Next]_vars PROVE RunIsChain'
  OBVIOUS
<1>1. CASE StartAttempt \/ StartMisread
  BY <1>1, StartIsChain
<1>2. CASE TranslatorSends
  BY <1>2, TranslatorSendsIsChain
<1>3. CASE ReceiveBlock
  BY <1>3, ReceiveBlockIsChain
<1>4. CASE PruneBlock \/ StoreLib
  BY <1>4, StoreStepsAreChain
<1>5. CASE SkipBlock
  BY <1>5, SkipBlockIsChain
<1>6. CASE QueueBlock \/ QueueMisread
  BY <1>6, QueueIsChain
<1>7. CASE SendPayloads
  BY <1>7, SendPayloadsIsChain
<1>8. CASE SendForkChoice
  BY <1>8, SendForkChoiceIsChain
<1>9. CASE CheckPanics \/ HashMismatch \/ CallFails \/ ResponseLost \/ DatabaseFails
  <2>1. AttemptFails /\ store' = store
    BY <1>9 DEF CheckPanics, HashMismatch, CallFails, ResponseLost, DatabaseFails
  <2> QED
    BY <2>1, AttemptFailsIsChain
<1>10. CASE Restart
  BY <1>10, NoRunIsChain DEF Restart
<1>11. CASE ExecutorRestarts
  BY <1>11, ExecutorRestartsIsChain
<1>12. CASE StartAboveMaximumRange \/ StartUnreachable
  BY <1>12, StartFailsIsChain
<1>13. CASE TranslatorRejects \/ TranslatorStops \/ StreamEnds \/ StreamFails
  BY <1>13, StreamStopsIsChain
<1>14. CASE EndOfStream
  <2>1. CASE AttemptFails
    BY <1>14, <2>1, AttemptFailsIsChain DEF EndOfStream
  <2>2. CASE pc' = "finished" /\ UNCHANGED <<stream, channel, attempt, loop>>
    BY <1>14, <2>2, QuietStepsAreChain DEF EndOfStream, loop
  <2> QED
    BY <1>14, <2>1, <2>2 DEF EndOfStream
<1>15. CASE LibAdvances
  BY <1>15, QuietStepsAreChain DEF LibAdvances, loop
<1>16. CASE UNCHANGED vars
  BY <1>16, QuietStepsAreChain DEF vars, ship, loop
<1> QED
  BY <1>1, <1>2, <1>3, <1>4, <1>5, <1>6, <1>7, <1>8, <1>9, <1>10, <1>11, <1>12, <1>13,
     <1>14, <1>15, <1>16
     DEF Next, Start, Translator, Loop, Environment

\* The blocks a run holds are always those of one chain: the channel and the block to
\* come follow the block in hand, and the batch holds ancestors of it, in order.  They
\* are all the blocks above those of the executor, as long as no error answer was read
\* as "no such block".
THEOREM RunStaysChain == Spec => []RunIsChain
<1>1. Spec => []TypeOK
  BY TypeCorrect
<1>2. Init => RunIsChain
  BY InitIsChain
<1>3. TypeOK /\ TypeOK' /\ RunIsChain /\ [Next]_vars => RunIsChain'
  BY NextIsChain
<1> QED
  BY <1>1, <1>2, <1>3, PTL DEF Spec

\* A batch is an ordered part of one chain that ends in the block taken last; and of
\* consecutive blocks, as long as no error answer was read as "no such block": no
\* skipped block and no block of an earlier run is inside it.
THEOREM BatchesAreChains == Spec => []BatchIsChain
<1>1. TypeOK /\ RunIsChain => BatchIsChain
  <2> SUFFICES ASSUME TypeOK, RunIsChain, batch # << >> PROVE BatchIsChain
    BY DEF BatchIsChain
  <2>1. ASSUME NEW i \in 1..(Len(batch) - 1)
        PROVE  /\ batch[i].num < batch[i + 1].num
               /\ batch[i].hash = AncestorAt(batch[i + 1].hash, batch[i].num)
               /\ misread \/ batch[i + 1].num = batch[i].num + 1
    <3>0. i \in 1..Len(batch) /\ i + 1 \in 1..Len(batch) /\ i \in 1..((i + 1) - 1)
      BY LoopTypes
    <3>1. /\ Numbered(batch[i]) /\ Numbered(batch[i + 1])
          /\ IsAncestor(batch[i].hash, block.hash) /\ IsAncestor(batch[i + 1].hash, block.hash)
          /\ batch[i].num < batch[i + 1].num
      BY <3>0 DEF RunIsChain, BatchOrdered
    <3>2. /\ batch[i].hash \in Hash /\ batch[i + 1].hash \in Hash /\ block.hash \in Hash
          /\ batch[i].num \in Nat /\ batch[i + 1].num \in Nat
      BY <3>0, LoopTypes DEF RunIsChain, BatchOrdered
    <3>3. IsAncestor(batch[i].hash, batch[i + 1].hash)
      BY <3>1, <3>2, AncestorsOrdered DEF Numbered
    <3>4. ~misread => batch[i + 1].num = batch[i].num + 1
      BY DEF RunIsChain, RunIsExact, BatchLinked, LinkedSeq, Linked
    <3> QED
      BY <3>1, <3>3, <3>4 DEF IsAncestor, Numbered
  <2>2. pc \in {"newPayload", "forkChoice"} => batch[Len(batch)] = block
    BY DEF RunIsChain, BatchOrdered
  <2>3. pc = "recv" => misread \/ batch[Len(batch)] = block
    BY DEF RunIsChain, RunIsExact, BatchLinked, Handling
  <2> QED
    BY <2>1, <2>2, <2>3 DEF BatchIsChain
<1> QED
  BY <1>1, TypeCorrect, RunStaysChain, PTL

\* The client offers the executor no alternative to one of its blocks, through
\* restarts of both: a batch starts above the executor's head, unless an error
\* answer has hidden the executor's block from the run.
THEOREM NothingIsReplaced == Spec => []NeverReplacesExecutorBlock
<1>1. TypeOK /\ RunIsChain => NeverReplacesExecutorBlock
  <2> SUFFICES ASSUME TypeOK, RunIsChain, pc = "newPayload", ~misread
               PROVE  batch[1].num > Number(engine.head)
    BY DEF NeverReplacesExecutorBlock
  <2>0. RunIsExact
    BY DEF RunIsChain
  <2>1. 1 \in 1..Len(batch)
    BY EmptySeq DEF TypeOK
  <2>2. /\ batch[1].num \in Nat /\ Number(executor.latest) \in Nat
        /\ batch[1].num > Number(executor.latest) \/ batch[1].num > Number(engine.head)
    BY <2>0, <2>1, LoopTypes DEF RunIsExact, BatchIsNew, ExecutorRead
  <2>3. Number(engine.head) <= Number(executor.latest) \/ Number(engine.head) < batch[1].num
    BY <2>0, <2>1 DEF RunIsExact, HeadBelow, Running
  <2> QED
    BY <2>2, <2>3, LoopTypes
<1> QED
  BY <1>1, TypeCorrect, RunStaysChain, PTL
===============================================================================

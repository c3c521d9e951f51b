----------------------------- MODULE FollowerProofs -----------------------------
(***************************************************************************)
(* When the translator gives every block its canonical content, the client *)
(* keeps the safe and finalized hashes on the chain of the head, and       *)
(* implements ChainFollower: a restart, a retry or a lost answer never     *)
(* makes it reorganize the executor or move its finalized block back.      *)
(***************************************************************************)
EXTENDS ConsensusClientProofs

-------------------------------------------------------------------------------
(***************************************************************************)
(* Lookups in a database of canonical blocks.                              *)
(***************************************************************************)
LEMMA LookupCanonical ==
  ASSUME NEW st \in Store, \A k \in Keys(st) : st.blocks[k] = CanonHash(k),
         NEW n \in Nat, NEW m \in Nat, n <= m, NEW default
  PROVE  \/ HashOr(st, GetBlockOrPrev(st, n), default) = default
         \/ \E k \in 0..m : HashOr(st, GetBlockOrPrev(st, n), default) = CanonHash(k)
<1> DEFINE found == GetBlockOrPrev(st, n)
<1>1. CASE found = {}
  BY <1>1 DEF HashOr
<1>2. CASE found # {}
  <2> DEFINE k == CHOOSE x \in found : TRUE
  <2>1. k \in Keys(st) /\ k <= n
    BY <1>2 DEF GetBlockOrPrev
  <2>2. k \in 0..m
    BY <2>1, StoreAssumption DEF Keys, Numbers
  <2>3. HashOr(st, found, default) = st.blocks[k]
    BY <1>2 DEF HashOr
  <2> HIDE DEF k
  <2> QED
    BY <2>1, <2>2, <2>3
<1> QED
  BY <1>1, <1>2

\* A run resumes at a canonical block when all rows are canonical.
LEMMA ResumeCanonical ==
  ASSUME NEW opened \in Store, NEW finalized, \A k \in Keys(opened) : opened.blocks[k] = CanonHash(k)
  PROVE  NextBlock(opened, finalized) > 0 /\ PrevHash(opened, finalized) = CanonHash(NextBlock(opened, finalized) - 1)
<1>1. CASE ResumeKeys(opened, finalized) = {}
  BY <1>1, ClientAssumption, StoreAssumption DEF PrevHash, HashOr, NextBlock
<1>2. CASE ResumeKeys(opened, finalized) # {}
  <2> DEFINE k == CHOOSE x \in ResumeKeys(opened, finalized) : TRUE
  <2>1. k \in Keys(opened)
    BY <1>2 DEF ResumeKeys, LastChecked, GetBlockOrPrev
  <2>2. PrevHash(opened, finalized) = opened.blocks[k] /\ NextBlock(opened, finalized) = 1 + k
    BY <1>2 DEF PrevHash, HashOr, NextBlock
  <2>3. k \in Nat
    BY <2>1, StoreAssumption DEF Keys, Numbers
  <2> HIDE DEF k
  <2>4. NextBlock(opened, finalized) > 0 /\ NextBlock(opened, finalized) - 1 = k
    BY <2>2, <2>3
  <2> QED
    BY <2>1, <2>2, <2>4
<1> QED
  BY <1>1, <1>2

-------------------------------------------------------------------------------
(***************************************************************************)
(* RunIsCanonical is an invariant.                                         *)
(***************************************************************************)
LEMMA NoRunIsCanonical ==
  ASSUME RunIsCanonical, NoRun, store' = store, pc' \in {"idle", "failed"}
  PROVE  RunIsCanonical'
<1>1. /\ channel' = << >> /\ batch' = << >> /\ block' = NoBlock /\ lastLibHash' = NoHash
      /\ stream'.status = "off"
  BY DEF NoRun, NoStream
<1> QED
  BY <1>1 DEF RunIsCanonical, Keys

\* The initial states hold no block at all.
LEMMA InitIsCanonical == Init => RunIsCanonical
<1> SUFFICES ASSUME Init PROVE RunIsCanonical
  OBVIOUS
<1>1. /\ channel = << >> /\ batch = << >> /\ block = NoBlock /\ lastLibHash = NoHash
      /\ stream.status = "off" /\ pc = "idle"
  BY DEF Init, NoStream
<1>2. Keys(store) = {}
  BY DEF Init, EmptyStore, Keys
<1> QED
  BY <1>1, <1>2 DEF RunIsCanonical

\* Steps that touch none of the blocks.
LEMMA QuietStepsAreCanonical ==
  ASSUME RunIsCanonical,
         UNCHANGED <<channel, batch, block, lastLibHash, safeHash>>,
         UNCHANGED <<stream.next, stream.parent>>,
         stream.status = "off" => stream'.status = "off",
         pc' \in {"newPayload", "forkChoice"} => pc \in {"newPayload", "forkChoice"},
         \A n \in Keys(store') : n \in Keys(store) /\ store'.blocks[n] = store.blocks[n]
  PROVE  RunIsCanonical'
BY DEF RunIsCanonical, CanonicalUpToBlock

\* A run that starts holds canonical rows and a canonical parent.
LEMMA StartIsCanonical ==
  ASSUME TypeOK, RunIsCanonical, StartAttempt \/ StartMisread
  PROVE  RunIsCanonical'
<1>0. PICK latest, finalized : Starts(latest, finalized)
  BY StartsLaunch
<1>1. /\ channel' = << >> /\ batch' = << >> /\ block' = NoBlock /\ lastLibHash' = NoHash
      /\ store' = OpenedStore /\ pc' = "recv"
      /\ stream'.parent = PrevHash(OpenedStore, finalized)
      /\ stream'.next = NextBlock(OpenedStore, finalized)
  BY <1>0 DEF Starts, Launch, ClearedLoop
<1>2. \A n \in Keys(OpenedStore) : OpenedStore.blocks[n] = CanonHash(n)
  BY DEF RunIsCanonical, OpenedStore, EmptyStore, Keys
<1>3. stream'.next > 0 /\ stream'.parent = CanonHash(stream'.next - 1)
  BY <1>1, <1>2, OpenedStoreType, ResumeCanonical DEF TypeOK
<1> QED
  BY <1>1, <1>2, <1>3 DEF RunIsCanonical

\* The translator sends the canonical child of a canonical block.
LEMMA TranslatorSendsIsCanonical ==
  ASSUME Translations = {Canonical}, TypeOK, RunIsCanonical, TranslatorSends
  PROVE  RunIsCanonical'
<1> DEFINE hash == Child(stream.parent, Canonical)
           b == [num |-> stream.next, hash |-> hash, lib |-> shipLib]
<1>1. /\ channel' = Append(channel, b)
      /\ stream' = [stream EXCEPT !.next = @ + 1, !.parent = hash, !.validated = TRUE]
  BY DEF TranslatorSends
<1>2. /\ stream.next \in Nat /\ stream.next > 0
      /\ stream.parent = CanonHash(stream.next - 1)
  BY LoopTypes DEF RunIsCanonical, TranslatorSends, CanTranslate
<1>3. hash = CanonHash(stream.next)
  <2>1. stream.next - 1 \in Nat /\ (stream.next - 1) + 1 = stream.next
    BY <1>2
  <2> QED
    BY <1>2, <2>1, CanonChild
<1>4. stream'.next = stream.next + 1 /\ stream'.parent = hash
  BY <1>1 DEF TypeOK, Streams
<1>5. b \in Block /\ CanonicalBlock(b)
  <2>1. hash \in Hash
    BY <1>2, <1>3, CanonHashType
  <2> HIDE DEF hash
  <2> QED
    BY <1>3, <2>1, LoopTypes DEF Block, CanonicalBlock
<1> HIDE DEF hash, b
<1>6. ASSUME NEW i \in 1..Len(channel') PROVE CanonicalBlock(channel'[i])
  <2>1. /\ Len(channel) \in Nat /\ Len(channel') = Len(channel) + 1
        /\ channel'[Len(channel) + 1] = b
        /\ \A j \in 1..Len(channel) : channel'[j] = channel[j]
    BY <1>1, <1>5, LoopTypes, AppendProperties, LenProperties
  <2> QED
    BY <1>5, <2>1 DEF RunIsCanonical
<1>7. stream'.next > 0 /\ stream'.parent = CanonHash(stream'.next - 1)
  BY <1>2, <1>3, <1>4
<1>8. UNCHANGED <<store, pc, batch, block, lastLibHash, safeHash>>
  BY DEF TranslatorSends, loop
<1> QED
  BY <1>6, <1>7, <1>8 DEF RunIsCanonical, CanonicalUpToBlock, Keys

\* The block taken from the channel is stored under its own number.
LEMMA ReceiveBlockIsCanonical ==
  ASSUME TypeOK, RunIsChain, RunIsCanonical, ReceiveBlock
  PROVE  RunIsCanonical'
<1>1. /\ channel \in Seq(Block) /\ channel # << >> /\ Len(channel) \in Nat \ {0}
      /\ channel' = Tail(channel) /\ block' = channel[1] /\ block' \in Block
      /\ block' # NoBlock /\ pc' = "prune" /\ store' = PutBlock(store, block')
      /\ UNCHANGED <<batch, stream, lastLibHash, safeHash>>
  BY LoopTypes, EmptySeq, HeadTailProperties, ElementOfSeq, ClientAssumption DEF ReceiveBlock
<1>2. CanonicalBlock(block')
  BY <1>1 DEF RunIsCanonical
<1>3. ASSUME NEW i \in 1..Len(channel') PROVE CanonicalBlock(channel'[i])
  <2>1. i + 1 \in 1..Len(channel) /\ channel'[i] = channel[i + 1]
    BY <1>1, HeadTailProperties
  <2> QED
    BY <2>1 DEF RunIsCanonical
<1>4. ASSUME NEW n \in Keys(store') PROVE store'.blocks[n] = CanonHash(n)
  <2>1. n \in Numbers /\ store'.blocks[n] # NoHash
    BY DEF Keys
  <2>2. store'.blocks[n] = IF n = block'.num THEN block'.hash ELSE store.blocks[n]
    BY <1>1, <2>1 DEF PutBlock, TypeOK, Store
  <2>3. CASE n = block'.num
    BY <1>2, <2>2, <2>3 DEF CanonicalBlock
  <2>4. CASE n # block'.num
    BY <2>1, <2>2, <2>4 DEF RunIsCanonical, Keys
  <2> QED
    BY <2>3, <2>4
<1>5. lastLibHash' # NoHash => CanonicalUpToBlock(lastLibHash)'
  <2> SUFFICES ASSUME lastLibHash # NoHash PROVE CanonicalUpToBlock(lastLibHash)'
    BY <1>1
  <2>1. block # NoBlock /\ block.num \in Nat /\ block'.num = block.num + 1
    BY <1>1, LoopTypes
       DEF RunIsCanonical, CanonicalUpToBlock, RunIsChain, BlockLinked, Linked
  <2>2. PICK n \in 0..block.num : lastLibHash = CanonHash(n)
    BY DEF RunIsCanonical, CanonicalUpToBlock
  <2>3. n \in 0..block'.num
    BY <2>1, <2>2
  <2> QED
    BY <1>1, <2>2, <2>3 DEF CanonicalUpToBlock
<1> QED
  BY <1>1, <1>2, <1>3, <1>4, <1>5 DEF RunIsCanonical

\* The safe and the finalized hash a batch is sent with.
LEMMA QueueBlockHashes ==
  ASSUME TypeOK, RunIsCanonical, Queues
  PROVE  /\ CanonicalUpToBlock(SafeHash)
         /\ FinalizedHash # NoHash => CanonicalUpToBlock(FinalizedHash)
<1>1. /\ store \in Store /\ block # NoBlock /\ block \in Block
      /\ block.num \in Nat /\ block.lib \in Nat
      /\ \A k \in Keys(store) : store.blocks[k] = CanonHash(k)
      /\ block.hash = CanonHash(block.num)
  BY DEF TypeOK, Queues, Block, RunIsCanonical, CanonicalBlock
<1>2. CanonicalUpToBlock(block.hash)
  BY <1>1 DEF CanonicalUpToBlock
<1>3. CanonicalUpToBlock(SafeHash)
  <2> DEFINE n == IF block.num < SafeHashLookup THEN 0 ELSE block.num - SafeHashLookup
  <2>1. n \in Nat /\ n <= block.num
    BY <1>1, ClientAssumption
  <2>2. SafeHash = HashOr(store, GetBlockOrPrev(store, n), block.hash)
    BY DEF SafeHash
  <2> HIDE DEF n
  <2>3. SafeHash = block.hash \/ \E k \in 0..block.num : SafeHash = CanonHash(k)
    BY <1>1, <2>1, <2>2, LookupCanonical
  <2> QED
    BY <1>1, <1>2, <2>3 DEF CanonicalUpToBlock
<1>4. FinalizedHash # NoHash => CanonicalUpToBlock(FinalizedHash)
  <2>1. CASE IsFinal(block)
    BY <1>2, <2>1 DEF FinalizedHash
  <2>2. CASE ~IsFinal(block) /\ isNewLib
    <3>1. FinalizedHash = HashOr(store, GetBlockOrPrev(store, LibEvmNum(block)), NoHash)
      BY <2>2 DEF FinalizedHash
    <3>2. LibEvmNum(block) \in Nat /\ LibEvmNum(block) <= block.num
      BY <1>1, <2>2, ChainAssumption DEF IsFinal, BlockNumWithDelta, LibEvmNum
    <3>3. FinalizedHash = NoHash \/ \E k \in 0..block.num : FinalizedHash = CanonHash(k)
      BY <1>1, <3>1, <3>2, LookupCanonical
    <3> QED
      BY <1>1, <3>3 DEF CanonicalUpToBlock
  <2>3. CASE ~IsFinal(block) /\ ~isNewLib
    BY <2>3 DEF FinalizedHash, RunIsCanonical
  <2> QED
    BY <2>1, <2>2, <2>3
<1> QED
  BY <1>3, <1>4

\* Queueing adds a canonical block, and hashes found in canonical rows.
LEMMA QueueBlockIsCanonical ==
  ASSUME TypeOK, RunIsCanonical, Queues
  PROVE  RunIsCanonical'
<1>1. /\ UNCHANGED <<store, stream, channel, block>>
      /\ batch' = Append(batch, block)
      /\ \/ /\ safeHash' = SafeHash /\ lastLibHash' = FinalizedHash /\ pc' = "newPayload"
         \/ UNCHANGED <<safeHash, lastLibHash>> /\ pc' = "recv"
  BY DEF Queues, Queue, ship
<1>2. /\ batch \in Seq(Block) /\ block \in Block /\ block # NoBlock /\ CanonicalBlock(block)
  BY DEF TypeOK, Queues, RunIsCanonical
<1>3. ASSUME NEW i \in 1..Len(batch') PROVE CanonicalBlock(batch'[i])
  <2>1. /\ Len(batch) \in Nat /\ Len(batch') = Len(batch) + 1
        /\ batch'[Len(batch) + 1] = block
        /\ \A j \in 1..Len(batch) : batch'[j] = batch[j]
    BY <1>1, <1>2, AppendProperties, LenProperties
  <2> QED
    BY <1>2, <2>1 DEF RunIsCanonical
<1>4. lastLibHash' # NoHash => CanonicalUpToBlock(lastLibHash')
  BY <1>1, QueueBlockHashes DEF RunIsCanonical
<1>5. pc' \in {"newPayload", "forkChoice"} => CanonicalUpToBlock(safeHash')
  BY <1>1, QueueBlockHashes DEF RunIsCanonical
<1>6. \A h : CanonicalUpToBlock(h) => block' # NoBlock /\ \E n \in 0..block'.num : h = CanonHash(n)
  BY <1>1 DEF CanonicalUpToBlock
<1>7. /\ lastLibHash' # NoHash => CanonicalUpToBlock(lastLibHash)'
      /\ pc' \in {"newPayload", "forkChoice"} => CanonicalUpToBlock(safeHash)'
  BY <1>4, <1>5, <1>6 DEF CanonicalUpToBlock
<1> QED
  BY <1>1, <1>2, <1>3, <1>7 DEF RunIsCanonical, Keys

\* Sending a batch leaves what the client holds, or empties the batch.
LEMMA SendIsCanonical ==
  ASSUME TypeOK, RunIsCanonical, SendPayloads \/ SendForkChoice
  PROVE  RunIsCanonical'
<1>1. /\ UNCHANGED <<store, stream, channel, block, lastLibHash, safeHash>>
      /\ batch' = << >> \/ batch' = batch
      /\ pc \in {"newPayload", "forkChoice"}
  BY DEF SendPayloads, SendForkChoice, ship
<1>2. ASSUME NEW i \in 1..Len(batch') PROVE CanonicalBlock(batch'[i])
  <2>1. CASE batch' = << >>
    BY <2>1
  <2>2. CASE batch' = batch
    BY <2>2 DEF RunIsCanonical
  <2> QED
    BY <1>1, <2>1, <2>2
<1> QED
  BY <1>1, <1>2 DEF RunIsCanonical, CanonicalUpToBlock, Keys

\* Every step keeps all held blocks canonical.
LEMMA NextIsCanonical ==
  ASSUME Translations = {Canonical}
  PROVE  TypeOK /\ RunIsChain /\ RunIsCanonical /\ [Next]_vars => RunIsCanonical'
<1> SUFFICES ASSUME TypeOK, RunIsChain, RunIsCanonical, [Next]_vars PROVE RunIsCanonical'
  OBVIOUS
<1>1. CASE StartAttempt \/ StartMisread
  BY <1>1, StartIsCanonical
<1>2. CASE TranslatorSends
  BY <1>2, TranslatorSendsIsCanonical
<1>3. CASE ReceiveBlock
  BY <1>3, ReceiveBlockIsCanonical
<1>4. CASE PruneBlock \/ StoreLib
  <2>1. /\ UNCHANGED <<stream, channel, batch, block, lastLibHash, safeHash>>
        /\ pc' \in {"putLib", "check"}
    BY <1>4 DEF PruneBlock, StoreLib, ship, loop
  <2>2. \A n \in Keys(store') : n \in Keys(store) /\ store'.blocks[n] = store.blocks[n]
    BY <1>4 DEF PruneBlock, StoreLib, DeleteBlock, PutLib, TypeOK, Store, Keys
  <2> QED
    BY <2>1, <2>2, QuietStepsAreCanonical
<1>5. CASE SkipBlock
  BY <1>5, QuietStepsAreCanonical DEF SkipBlock, ship, loop
<1>6. CASE QueueBlock \/ QueueMisread
  BY <1>6, QueuesBlock, QueueBlockIsCanonical
<1>7. CASE SendPayloads \/ SendForkChoice
  BY <1>7, SendIsCanonical
<1>8. CASE CheckPanics \/ HashMismatch \/ CallFails \/ ResponseLost \/ DatabaseFails
  <2>1. AttemptFails /\ store' = store
    BY <1>8 DEF CheckPanics, HashMismatch, CallFails, ResponseLost, DatabaseFails
  <2> QED
    BY <2>1, NoRunIsCanonical DEF AttemptFails
<1>9. CASE Restart
  BY <1>9, NoRunIsCanonical DEF Restart
<1>10. CASE ExecutorRestarts
  BY <1>10, QuietStepsAreCanonical DEF ExecutorRestarts, ship, loop
<1>11. CASE StartAboveMaximumRange \/ StartUnreachable
  <2>1. /\ UNCHANGED <<stream, channel, batch, block, lastLibHash, safeHash>>
        /\ pc' \in {"idle", "failed"} /\ store' = OpenedStore
    BY <1>11 DEF StartAboveMaximumRange, StartUnreachable, ship, loop
  <2>2. \A n \in Keys(store') : n \in Keys(store) /\ store'.blocks[n] = store.blocks[n]
    BY <2>1 DEF OpenedStore, EmptyStore, Keys
  <2> QED
    BY <2>1, <2>2, QuietStepsAreCanonical
<1>12. CASE TranslatorRejects \/ TranslatorStops \/ StreamEnds \/ StreamFails
  <2>1. /\ UNCHANGED <<store, channel, block, batch, pc, lastLibHash, safeHash>>
        /\ stream.status = "running"
        /\ \E end \in {"error", "ended"} : stream' = [stream EXCEPT !.status = end]
    BY <1>12 DEF TranslatorRejects, CanTranslate, TranslatorStops, StreamEnds, StreamFails, loop
  <2>2. stream'.next = stream.next /\ stream'.parent = stream.parent
    BY <2>1 DEF TypeOK, Streams
  <2> QED
    BY <2>1, <2>2, QuietStepsAreCanonical
<1>13. CASE EndOfStream
  <2>1. CASE AttemptFails
    BY <1>13, <2>1, NoRunIsCanonical DEF EndOfStream, AttemptFails
  <2>2. CASE pc' = "finished" /\ UNCHANGED <<stream, channel, attempt, loop>>
    BY <1>13, <2>2, QuietStepsAreCanonical DEF EndOfStream, loop
  <2> QED
    BY <1>13, <2>1, <2>2 DEF EndOfStream
<1>14. CASE LibAdvances
  BY <1>14, QuietStepsAreCanonical DEF LibAdvances, loop
<1>15. CASE UNCHANGED vars
  BY <1>15, QuietStepsAreCanonical DEF vars, ship, loop
<1> QED
  BY <1>1, <1>2, <1>3, <1>4, <1>5, <1>6, <1>7, <1>8, <1>9, <1>10, <1>11, <1>12, <1>13,
     <1>14, <1>15
     DEF Next, Start, Translator, Loop, Environment

\* All the client holds is canonical when the translation is.
THEOREM RunStaysCanonical ==
  ASSUME Translations = {Canonical}
  PROVE  Spec => []RunIsCanonical
<1>1. Init => RunIsCanonical
  BY InitIsCanonical
<1>2. TypeOK /\ RunIsChain /\ RunIsCanonical /\ [Next]_vars => RunIsCanonical'
  BY NextIsCanonical
<1> QED
  BY <1>1, <1>2, TypeCorrect, RunStaysChain, PTL DEF Spec

\* The safe and the finalized hash of a forkchoice update are ancestors of its
\* head, although rows of earlier runs are among those they are looked up in.
THEOREM ForkChoiceIsOneChain ==
  ASSUME Translations = {Canonical}
  PROVE  Spec => []ForkChoiceOnOneChain
<1>1. TypeOK /\ RunIsChain /\ RunIsCanonical => ForkChoiceOnOneChain
  <2> SUFFICES ASSUME TypeOK, RunIsChain, RunIsCanonical, pc = "forkChoice"
               PROVE  /\ IsAncestor(safeHash, batch[Len(batch)].hash)
                      /\ IsAncestor(lastLibHash, batch[Len(batch)].hash)
    BY DEF ForkChoiceOnOneChain
  <2>1. /\ batch[Len(batch)] = block /\ block.num \in Nat
        /\ block.hash = CanonHash(block.num) /\ lastLibHash # NoHash
    BY LoopTypes DEF TypeOK, RunIsChain, BatchOrdered, RunIsCanonical, CanonicalBlock
  <2>2. PICK s \in 0..block.num : safeHash = CanonHash(s)
    BY DEF RunIsCanonical, CanonicalUpToBlock
  <2>3. PICK f \in 0..block.num : lastLibHash = CanonHash(f)
    BY <2>1 DEF RunIsCanonical, CanonicalUpToBlock
  <2> QED
    BY <2>1, <2>2, <2>3, CanonAncestor
<1> QED
  BY <1>1, TypeCorrect, RunStaysChain, RunStaysCanonical, PTL

-------------------------------------------------------------------------------
(***************************************************************************)
(* RunIsFinal is an invariant: of irreversible blocks, the finalized hash  *)
(* is that of the head.                                                    *)
(***************************************************************************)
LEMMA NextIsFinal ==
  ASSUME IrreversibleOnly
  PROVE  TypeOK /\ RunIsFinal /\ [Next]_vars => RunIsFinal'
<1> SUFFICES ASSUME TypeOK, RunIsFinal, [Next]_vars PROVE RunIsFinal'
  OBVIOUS
<1>1. CASE StartAttempt \/ StartMisread
  <2>1. PICK latest, finalized : Starts(latest, finalized)
    BY <1>1, StartsLaunch
  <2> QED
    BY <2>1 DEF Starts, Launch, ClearedLoop, RunIsFinal
<1>2. CASE TranslatorSends
  <2>1. PICK content \in Translations :
          channel' = Append(channel, [num |-> stream.next,
                                      hash |-> Child(stream.parent, content),
                                      lib |-> shipLib])
    BY <1>2 DEF TranslatorSends
  <2> DEFINE b == [num |-> stream.next, hash |-> Child(stream.parent, content), lib |-> shipLib]
  <2>2. IsFinal(b)
    BY <1>2 DEF TranslatorSends, CanTranslate, IsFinal, BlockNumWithDelta
  <2>3. b \in Block
    <3>1. Child(stream.parent, content) \in Hash
      BY LoopTypes, ChildType, ClientAssumption
    <3> QED
      BY <3>1, LoopTypes DEF Block
  <2> HIDE DEF b
  <2>4. /\ Len(channel) \in Nat /\ Len(channel') = Len(channel) + 1
        /\ channel'[Len(channel) + 1] = b
        /\ \A j \in 1..Len(channel) : channel'[j] = channel[j]
    BY <2>1, <2>3, LoopTypes, AppendProperties, LenProperties DEF b
  <2>5. ASSUME NEW i \in 1..Len(channel') PROVE IsFinal(channel'[i])
    BY <2>2, <2>4 DEF RunIsFinal
  <2>6. UNCHANGED <<pc, block, lastLibHash>>
    BY <1>2 DEF TranslatorSends, loop
  <2> QED
    BY <2>5, <2>6 DEF RunIsFinal
<1>3. CASE ReceiveBlock
  <2>1. /\ channel \in Seq(Block) /\ channel # << >> /\ Len(channel) \in Nat \ {0}
        /\ channel' = Tail(channel) /\ block' = channel[1] /\ pc' = "prune"
    BY <1>3, LoopTypes, EmptySeq, HeadTailProperties DEF ReceiveBlock
  <2>2. ASSUME NEW i \in 1..Len(channel') PROVE IsFinal(channel'[i])
    <3>1. i + 1 \in 1..Len(channel) /\ channel'[i] = channel[i + 1]
      BY <2>1, HeadTailProperties
    <3> QED
      BY <3>1 DEF RunIsFinal
  <2> QED
    BY <2>1, <2>2 DEF RunIsFinal
<1>4. CASE QueueBlock \/ QueueMisread
  <2>0. Queues
    BY <1>4, QueuesBlock
  <2>1. UNCHANGED <<channel, block>> /\ block # NoBlock
    BY <2>0 DEF Queues, Queue, ship, TypeOK
  <2>2. FinalizedHash = block.hash
    BY <2>1 DEF RunIsFinal, FinalizedHash
  <2>3. pc' = "recv" \/ lastLibHash' = block'.hash
    BY <2>0, <2>1, <2>2 DEF Queues, Queue
  <2> QED
    BY <2>1, <2>3 DEF RunIsFinal
<1>5. CASE NoRun /\ pc' \in {"idle", "failed"}
  BY <1>5 DEF NoRun, RunIsFinal
<1>6. CASE /\ UNCHANGED <<channel, block, lastLibHash>>
           /\ pc' \in {"newPayload", "forkChoice"} => pc \in {"newPayload", "forkChoice"}
  BY <1>6 DEF RunIsFinal
<1>7. CASE PruneBlock \/ StoreLib \/ SkipBlock
  BY <1>6, <1>7 DEF PruneBlock, StoreLib, SkipBlock, ship, loop
<1>8. CASE SendPayloads \/ SendForkChoice
  BY <1>6, <1>8 DEF SendPayloads, SendForkChoice, ship
<1>9. CASE CheckPanics \/ HashMismatch \/ CallFails \/ ResponseLost \/ DatabaseFails \/ Restart
  <2>1. NoRun /\ pc' \in {"idle", "failed"}
    BY <1>9 DEF CheckPanics, HashMismatch, CallFails, ResponseLost, DatabaseFails, Restart, AttemptFails
  <2> QED
    BY <1>5, <2>1
<1>10. CASE ExecutorRestarts \/ LibAdvances
  BY <1>6, <1>10 DEF ExecutorRestarts, LibAdvances, ship, loop
<1>11. CASE StartAboveMaximumRange \/ StartUnreachable
  BY <1>6, <1>11 DEF StartAboveMaximumRange, StartUnreachable, ship, loop
<1>12. CASE TranslatorRejects \/ TranslatorStops \/ StreamEnds \/ StreamFails
  BY <1>6, <1>12 DEF TranslatorRejects, TranslatorStops, StreamEnds, StreamFails, loop
<1>13. CASE EndOfStream
  <2>1. CASE NoRun /\ pc' \in {"idle", "failed"}
    BY <1>5, <2>1
  <2>2. CASE pc' = "finished" /\ UNCHANGED <<channel, block, lastLibHash>>
    BY <1>6, <2>2
  <2> QED
    BY <1>13, <2>1, <2>2 DEF EndOfStream, AttemptFails, loop
<1>14. CASE UNCHANGED vars
  BY <1>6, <1>14 DEF vars, ship, loop
<1> QED
  BY <1>1, <1>2, <1>3, <1>4, <1>7, <1>8, <1>9, <1>10, <1>11, <1>12, <1>13, <1>14
     DEF Next, Start, Translator, Loop, Environment

\* With irreversible blocks only, every block is final when it is sent.
THEOREM RunStaysFinal ==
  ASSUME IrreversibleOnly
  PROVE  Spec => []RunIsFinal
<1>1. Init => RunIsFinal
  BY DEF Init, RunIsFinal
<1>2. TypeOK /\ RunIsFinal /\ [Next]_vars => RunIsFinal'
  BY NextIsFinal
<1> QED
  BY <1>1, <1>2, TypeCorrect, PTL DEF Spec

-------------------------------------------------------------------------------
(***************************************************************************)
(* The refinement.                                                         *)
(***************************************************************************)
FollowerStep ==
  [Follower!Extend \/ Follower!Lose \/ Follower!Repeat]_<<engine.head, engine.finalized>>

\* The operators of EvmChain are the same on both sides.
LEMMA FollowerOperators ==
  /\ \A a, b : Follower!IsAncestor(a, b) <=> IsAncestor(a, b)
  /\ \A n : Follower!CanonHash(n) = CanonHash(n)
  /\ \A h : Follower!Number(h) = Number(h)
  /\ Follower!Genesis = Genesis
BY DEF Follower!IsAncestor, IsAncestor, Follower!CanonHash, CanonHash, Follower!Number, Number,
       Follower!AncestorAt, AncestorAt, Follower!Genesis, Genesis

\* Canonical hashes are ordered by their numbers.
LEMMA CanonOrder ==
  ASSUME NEW a, NEW b, NEW m \in Nat, NEW n \in Nat, m <= n, a = CanonHash(m), b = CanonHash(n)
  PROVE  Number(a) = m /\ Number(b) = n /\ a \in Hash /\ b \in Hash /\ IsAncestor(a, b)
BY CanonHashType, CanonAncestor

\* A step that leaves the executor alone is a stutter of ChainFollower.
LEMMA SameExecutorFollows ==
  ASSUME ExecutorIsCanonical, engine'.head = engine.head, engine'.finalized = engine.finalized
  PROVE  ExecutorIsCanonical' /\ FollowerStep
BY DEF ExecutorIsCanonical, FollowerStep

\* The executor's head is not above a block about to be sent.
LEMMA HeadBelowBatch ==
  ASSUME TypeOK, RunIsChain, ~misread, pc = "forkChoice"
  PROVE  Number(engine.head) <= block.num
<1>0. RunIsExact
  BY DEF RunIsChain
<1>1. batch[Len(batch)] = block /\ block.num \in Nat /\ Len(batch) \in 1..Len(batch)
  BY LoopTypes, EmptySeq DEF TypeOK, RunIsChain, BatchOrdered
<1>2. block.num > Number(executor.latest) \/ block.num > Number(engine.head)
  BY <1>0, <1>1 DEF RunIsExact, BatchIsNew
<1>3. Number(engine.head) <= Number(executor.latest) \/ Number(engine.head) <= block.num
  BY <1>0 DEF RunIsExact, HeadBelow, Running
<1>4. Number(engine.head) \in Nat /\ Number(executor.latest) \in Nat
  BY <1>0, LoopTypes DEF RunIsExact, ExecutorRead
<1> QED
  BY <1>1, <1>2, <1>3, <1>4

\* A forkchoice update extends the executor's chain; in a run that was given an
\* error answer it names a canonical block.
LEMMA ForkChoiceFollows ==
  ASSUME TypeOK, RunIsChain, RunIsCanonical, RunIsFinal, ExecutorIsCanonical, pc = "forkChoice",
         engine' = ForkChoiceUpdated(engine, batch[Len(batch)].hash, safeHash, lastLibHash)
  PROVE  ExecutorIsCanonical' /\ FollowerStep
<1>1. /\ batch[Len(batch)] = block /\ block.num \in Nat /\ block.hash = CanonHash(block.num)
      /\ engine.head \in Hash /\ Number(engine.head) \in Nat
      /\ engine.finalized \in Hash /\ Number(engine.finalized) \in Nat
      /\ lastLibHash = block.hash
  BY LoopTypes, EmptySeq, NumberType
     DEF TypeOK, Engine, RunIsChain, BatchOrdered, RunIsCanonical, CanonicalBlock, RunIsFinal
<1>2. \/ UNCHANGED <<engine.head, engine.finalized>>
      \/ engine'.head = block.hash /\ engine'.finalized = block.hash
  BY <1>1 DEF ForkChoiceUpdated, TypeOK, Engine
<1>3. CASE engine'.head = block.hash /\ engine'.finalized = block.hash
  <2>1. Number(engine'.head) = block.num /\ Number(engine'.finalized) = block.num
    BY <1>1, <1>3, CanonHashType
  <2>2. IsAncestor(engine'.finalized, engine'.head)
    BY <1>1, <1>3, CanonOrder
  <2>3. ExecutorIsCanonical'
    BY <1>1, <1>3, <2>1 DEF ExecutorIsCanonical
  <2>4. CASE misread
    <3>1. Follower!Repeat
      BY <1>1, <1>3, <2>1, <2>2, <2>4, FollowerOperators DEF Follower!Repeat
    <3> QED
      BY <2>3, <3>1 DEF FollowerStep
  <2>5. CASE ~misread
    <3>1. Number(engine.head) <= block.num
      BY <2>5, HeadBelowBatch
    <3>2. IsAncestor(engine.head, engine'.head)
      BY <1>1, <1>3, <3>1, CanonOrder DEF ExecutorIsCanonical
    <3>3. IsAncestor(engine.finalized, engine'.finalized)
      BY <1>1, <1>3, <3>1, CanonOrder DEF ExecutorIsCanonical
    <3>4. Follower!Extend
      BY <1>1, <1>3, <2>1, <2>2, <3>2, <3>3, FollowerOperators DEF Follower!Extend
    <3> QED
      BY <2>3, <3>4 DEF FollowerStep
  <2> QED
    BY <2>4, <2>5
<1> QED
  BY <1>2, <1>3, SameExecutorFollows

\* A restart of the executor loses the end of its chain.
LEMMA ExecutorRestartsFollows ==
  ASSUME TypeOK, ExecutorIsCanonical, ExecutorRestarts
  PROVE  ExecutorIsCanonical' /\ FollowerStep
<1>1. /\ engine'.head \in Prefixes(engine.head)
      /\ engine'.finalized \in {Genesis, engine.finalized}
      /\ IsAncestor(engine'.finalized, engine'.head)
  BY RestartedHead DEF ExecutorRestarts, TypeOK
<1>2. engine.head \in Hash /\ Number(engine.head) \in Nat
  BY NumberType DEF TypeOK, Engine
<1>3. PICK n \in 0..Number(engine.head) : engine'.head = AncestorAt(engine.head, n)
  BY <1>1 DEF Prefixes
<1>4. engine'.head = CanonHash(n) /\ n \in Nat
  BY <1>2, <1>3, CanonAncestor DEF ExecutorIsCanonical
<1>5. Number(engine'.head) = n
  BY <1>4, CanonHashType
<1>6. IsAncestor(engine'.head, engine.head)
  BY <1>2, <1>3, <1>4, CanonAncestor DEF ExecutorIsCanonical
<1>7. engine'.finalized = CanonHash(Number(engine'.finalized))
  <2>1. CASE engine'.finalized = engine.finalized
    BY <2>1 DEF ExecutorIsCanonical
  <2>2. CASE engine'.finalized = Genesis
    <3>1. CanonHash(0) = Genesis
      BY CanonHashType, EmptySeq DEF Genesis, Hash, Number
    <3> QED
      BY <2>2, <3>1, GenesisType
  <2> QED
    BY <1>1, <2>1, <2>2
<1>8. Follower!Lose
  BY <1>1, <1>6, FollowerOperators DEF Follower!Lose
<1> QED
  BY <1>1, <1>4, <1>5, <1>7, <1>8 DEF ExecutorIsCanonical, FollowerStep, IsAncestor

\* The executors a deployment starts with hold the canonical chain.
HeadsAreCanonical == \A h \in InitialHeads : h = CanonHash(Number(h))

\* The initial states are initial states of ChainFollower.
LEMMA InitFollows ==
  ASSUME HeadsAreCanonical
  PROVE  Init => ExecutorIsCanonical /\ Follower!Init
<1> SUFFICES ASSUME Init PROVE ExecutorIsCanonical /\ Follower!Init
  OBVIOUS
<1>1. PICK head \in InitialHeads :
        \E n \in 0..Number(head) : engine = EngineAt(head, AncestorAt(head, n))
  BY DEF Init
<1>2. PICK n \in 0..Number(head) : engine = EngineAt(head, AncestorAt(head, n))
  BY <1>1
<1>3. head \in Hash /\ Number(head) \in Nat /\ head = CanonHash(Number(head))
  BY ClientAssumption, NumberType DEF HeadsAreCanonical
<1>4. engine.head = head /\ engine.finalized = CanonHash(n) /\ n \in Nat
  BY <1>2, <1>3, CanonAncestor DEF EngineAt
<1>5. Number(engine.finalized) = n
  BY <1>4, CanonHashType
<1>6. IsAncestor(engine.finalized, engine.head)
  BY <1>3, <1>4, CanonAncestor
<1> QED
  BY <1>3, <1>4, <1>5, <1>6, FollowerOperators DEF ExecutorIsCanonical, Follower!Init

\* Every step is a step of ChainFollower or a stutter.
LEMMA NextFollows ==
  TypeOK /\ RunIsChain /\ RunIsCanonical /\ RunIsFinal /\ ExecutorIsCanonical /\ [Next]_vars
    => ExecutorIsCanonical' /\ FollowerStep
<1> SUFFICES ASSUME TypeOK, RunIsChain, RunIsCanonical, RunIsFinal, ExecutorIsCanonical,
                    [Next]_vars
             PROVE  ExecutorIsCanonical' /\ FollowerStep
  OBVIOUS
<1>1. CASE SendForkChoice
  BY <1>1, ForkChoiceFollows DEF SendForkChoice
<1>2. CASE ExecutorRestarts
  BY <1>2, ExecutorRestartsFollows
<1>3. CASE engine' = engine \/ \E executed : engine' = NewPayloads(engine, executed)
  <2>1. engine'.head = engine.head /\ engine'.finalized = engine.finalized
    BY <1>3 DEF NewPayloads, TypeOK, Engine
  <2> QED
    BY <2>1, SameExecutorFollows
<1>4. CASE SendPayloads
  BY <1>3, <1>4 DEF SendPayloads
<1>5. CASE ResponseLost
  BY <1>3, <1>5, ForkChoiceFollows DEF ResponseLost
<1>6. CASE engine' = engine
  BY <1>3, <1>6
<1>7. CASE StartAttempt \/ StartMisread \/ StartAboveMaximumRange \/ StartUnreachable
  <2>1. engine' = engine
    BY <1>7 DEF StartAttempt, StartMisread, Launch, StartAboveMaximumRange, StartUnreachable
  <2> QED
    BY <1>6, <2>1
<1>8. CASE \/ TranslatorSends \/ TranslatorRejects \/ TranslatorStops
          \/ StreamEnds \/ StreamFails \/ LibAdvances
  BY <1>6, <1>8 DEF TranslatorSends, TranslatorRejects, TranslatorStops, StreamEnds, StreamFails,
                   LibAdvances
<1>9. CASE ReceiveBlock \/ EndOfStream \/ PruneBlock \/ StoreLib
  BY <1>6, <1>9 DEF ReceiveBlock, EndOfStream, PruneBlock, StoreLib
<1>10. CASE CheckPanics \/ HashMismatch \/ SkipBlock \/ QueueBlock \/ QueueMisread
  BY <1>6, <1>10 DEF CheckPanics, HashMismatch, SkipBlock, QueueBlock, QueueMisread, Queue
<1>11. CASE CallFails \/ DatabaseFails \/ Restart
  BY <1>6, <1>11 DEF CallFails, DatabaseFails, Restart
<1>12. CASE UNCHANGED vars
  BY <1>6, <1>12 DEF vars
<1> QED
  BY <1>1, <1>2, <1>4, <1>5, <1>7, <1>8, <1>9, <1>10, <1>11, <1>12
     DEF Next, Start, Translator, Loop, Environment

\* The client implements ChainFollower: through restarts, retries, lost answers and
\* failed writes it only extends the executor's canonical chain and only moves its
\* finalized block forward; a run that was given an error answer may name a block the
\* executor has left behind, but no other than a canonical one.
THEOREM ClientFollowsChain ==
  ASSUME Translations = {Canonical}, HeadsAreCanonical, IrreversibleOnly
  PROVE  Spec => FollowsCanonicalChain
<1>1. Init => ExecutorIsCanonical /\ Follower!Init
  BY InitFollows
<1>2. TypeOK /\ RunIsChain /\ RunIsCanonical /\ RunIsFinal /\ ExecutorIsCanonical /\ [Next]_vars
        => ExecutorIsCanonical' /\ FollowerStep
  BY NextFollows
<1>3. Spec => [](TypeOK /\ RunIsChain /\ RunIsCanonical /\ RunIsFinal)
  BY TypeCorrect, RunStaysChain, RunStaysCanonical, RunStaysFinal, PTL
<1>4. FollowerStep =>
        [Follower!Extend \/ Follower!Lose \/ Follower!Repeat]_<<engine.head, engine.finalized>>
  BY DEF FollowerStep
<1> QED
  BY <1>1, <1>2, <1>3, <1>4, PTL DEF Spec, FollowsCanonicalChain, Follower!Spec
===============================================================================

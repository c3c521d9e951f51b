------------------------------ MODULE ResumeProofs ------------------------------
(***************************************************************************)
(* Where a run resumes, and what the executor then has: the LIB only moves *)
(* forward, a run resumes at or below it and on the chain of the executor, *)
(* and from there on no payload is missing.  What is validated stays so,   *)
(* and the rows a run may look up are ancestors of its blocks.             *)
(***************************************************************************)
EXTENDS FollowerProofs, InductionFacts

-------------------------------------------------------------------------------
(***************************************************************************)
(* The LIB on its way to the database and to the executor.                 *)
(***************************************************************************)

\* What the steps need of the types of LIBs.
LEMMA LibTypes ==
  ASSUME TypeOK
  PROVE  /\ shipLib \in Nat /\ store.lib \in Nat \cup {NoLib} /\ NoLib \notin Nat
         /\ block # NoBlock => block.lib \in Nat /\ block.num \in Nat
         /\ \A i \in 1..Len(channel) : channel[i].lib \in Nat
         /\ engine.finalized \in Hash /\ Number(engine.finalized) \in Nat
         /\ BlockDelta \in Nat
<1>1. \A i \in 1..Len(channel) : channel[i].lib \in Nat
  <2> SUFFICES ASSUME NEW i \in 1..Len(channel) PROVE channel[i].lib \in Nat
    OBVIOUS
  <2>1. channel \in Seq(Block)
    BY DEF TypeOK
  <2>2. channel[i] \in Block
    BY <2>1, ElementOfSeq
  <2> QED
    BY <2>2 DEF Block
<1> QED
  BY <1>1, NumberType, StoreAssumption, ChainAssumption DEF TypeOK, Store, Engine, Block

\* Irreversible stays so while the LIB grows.
LEMMA StaysIrreversible ==
  ASSUME TypeOK, NEW h \in Hash, Irreversible(h), shipLib' \in Nat, shipLib' >= shipLib
  PROVE  Irreversible(h)'
BY NumberType, LibTypes DEF Irreversible

\* The start: nothing is stored, and the executor is not ahead of the node.
LEMMA InitLib == Init => LibInv
<1> SUFFICES ASSUME Init PROVE LibInv
  OBVIOUS
<1>1. /\ store.lib = NoLib /\ Len(channel) = 0 /\ block = NoBlock /\ lastLibHash = NoHash
  BY EmptySeq DEF Init, EmptyStore
<1>2. Irreversible(engine.finalized)
  <2>0. PICK head \in InitialHeads : \E n \in 0..Number(head) :
          /\ n > 0 => n + BlockDelta <= shipLib
          /\ engine = EngineAt(head, AncestorAt(head, n))
    BY DEF Init
  <2>1. PICK n \in 0..Number(head) :
          /\ n > 0 => n + BlockDelta <= shipLib
          /\ engine = EngineAt(head, AncestorAt(head, n))
    BY <2>0
  <2>2. Number(engine.finalized) = n
    BY <2>1, AncestorAtType, ClientAssumption DEF EngineAt
  <2>3. n \in Nat
    BY <2>1
  <2> QED
    BY <2>1, <2>2, <2>3 DEF Irreversible
<1> QED
  BY <1>1, <1>2 DEF LibInv, StoredUpTo, ChannelLibs, BlockLib

\* An attempt that fails leaves the database and drops the rest.
LEMMA NoRunLib ==
  ASSUME LibInv, NoRun, store' = store, shipLib' = shipLib,
         Irreversible(engine'.finalized)
  PROVE  LibInv'
<1>1. Len(channel') = 0 /\ block' = NoBlock /\ lastLibHash' = NoHash
  BY EmptySeq DEF NoRun
<1> QED
  BY <1>1 DEF LibInv, StoredUpTo, ChannelLibs, BlockLib, Irreversible

\* A step that touches no LIB and no finalized hash.
LEMMA SameLib ==
  ASSUME LibInv, UNCHANGED <<store, shipLib, channel, block, lastLibHash>>,
         engine'.finalized = engine.finalized
  PROVE  LibInv'
BY DEF LibInv, StoredUpTo, ChannelLibs, BlockLib, Irreversible

\* Opening the database keeps its LIB, or removes it.
LEMMA StartLib ==
  ASSUME LibInv, Start \/ StartMisread \/ StartUnreachable
  PROVE  LibInv'
<1>1. store' = OpenedStore /\ engine' = engine /\ shipLib' = shipLib
  BY DEF Start, StartAttempt, StartMisread, Launch, StartAboveMaximumRange, StartUnreachable, ship
<1>2. store'.lib = store.lib \/ store'.lib = NoLib
  BY <1>1 DEF OpenedStore, EmptyStore
<1>3. CASE StartAttempt \/ StartMisread
  <2>1. Len(channel') = 0 /\ block' = NoBlock /\ lastLibHash' = NoHash
    BY <1>3, EmptySeq DEF StartAttempt, StartMisread, Launch, ClearedLoop
  <2> QED
    BY <1>1, <1>2, <2>1 DEF LibInv, StoredUpTo, ChannelLibs, BlockLib, Irreversible
<1>4. CASE StartAboveMaximumRange \/ StartUnreachable
  <2>1. UNCHANGED <<channel, block, lastLibHash>>
    BY <1>4 DEF StartAboveMaximumRange, StartUnreachable, ship, loop
  <2> QED
    BY <1>1, <1>2, <2>1 DEF LibInv, StoredUpTo, ChannelLibs, BlockLib, Irreversible
<1> QED
  BY <1>3, <1>4 DEF Start

\* The translator stamps a block with the LIB of the moment.
LEMMA TranslatorSendsLib ==
  ASSUME TypeOK, LibInv, TranslatorSends
  PROVE  LibInv'
<1>1. PICK b : channel' = Append(channel, b) /\ b.lib = shipLib /\ b \in Block
  <2>1. PICK content \in Translations :
          channel' = Append(channel, [num |-> stream.next,
                                      hash |-> Child(stream.parent, content), lib |-> shipLib])
    BY DEF TranslatorSends
  <2>2. Child(stream.parent, content) \in Hash /\ stream.next \in Nat /\ shipLib \in Nat
    BY ChildType, ClientAssumption, LoopTypes
  <2> QED
    BY <2>1, <2>2 DEF Block
<1>2. /\ channel \in Seq(Block) /\ Len(channel) \in Nat /\ Len(channel') = Len(channel) + 1
      /\ channel'[Len(channel) + 1] = b
      /\ \A i \in 1..Len(channel) : channel'[i] = channel[i]
  BY <1>1, AppendProperties, LenProperties DEF TypeOK
<1>3. UNCHANGED <<store, engine, shipLib, block, lastLibHash>>
  BY DEF TranslatorSends, loop
<1>4. ASSUME NEW i \in 1..Len(channel')
      PROVE  /\ channel'[i].lib <= shipLib /\ StoredUpTo(channel'[i].lib)
             /\ block # NoBlock => block.lib <= channel'[i].lib
             /\ \A j \in 1..i : channel'[j].lib <= channel'[i].lib
  <2>1. CASE i = Len(channel) + 1
    <3>1. channel'[i].lib = shipLib
      BY <1>1, <1>2, <2>1
    <3>2. StoredUpTo(shipLib) /\ (block # NoBlock => block.lib <= shipLib)
      BY DEF LibInv, BlockLib
    <3>3. ASSUME NEW j \in 1..i PROVE channel'[j].lib <= shipLib
      <4>1. CASE j = i
        BY <3>1, <4>1, LibTypes
      <4>2. CASE j # i
        <5>1. j \in 1..Len(channel)
          BY <1>2, <2>1, <4>2
        <5> QED
          BY <1>2, <5>1 DEF LibInv, ChannelLibs
      <4> QED
        BY <4>1, <4>2
    <3> QED
      BY <3>1, <3>2, <3>3, LibTypes
  <2>2. CASE i # Len(channel) + 1
    <3>1. i \in 1..Len(channel) /\ \A j \in 1..i : j \in 1..Len(channel)
      BY <1>2, <2>2
    <3> QED
      BY <1>2, <3>1 DEF LibInv, ChannelLibs
  <2> QED
    BY <2>1, <2>2
<1>5. ChannelLibs'
  BY <1>3, <1>4 DEF ChannelLibs, StoredUpTo
<1> QED
  BY <1>3, <1>5 DEF LibInv, StoredUpTo, BlockLib, Irreversible

\* The block taken is the oldest of the channel.
LEMMA ReceiveLib ==
  ASSUME TypeOK, LibInv, ReceiveBlock
  PROVE  LibInv'
<1>1. /\ channel \in Seq(Block) /\ channel # << >> /\ channel' = Tail(channel)
      /\ block' = channel[1] /\ store'.lib = store.lib
      /\ UNCHANGED <<engine, shipLib, lastLibHash>>
  BY DEF ReceiveBlock, TypeOK, PutBlock
<1>2. /\ Len(channel) \in Nat \ {0} /\ Len(channel') = Len(channel) - 1
      /\ \A i \in 1..Len(channel') : channel'[i] = channel[i + 1]
  BY <1>1, EmptySeq, HeadTailProperties
<1>3. 1 \in 1..Len(channel)
  BY <1>2
<1>4. BlockLib'
  BY <1>1, <1>3 DEF LibInv, ChannelLibs, BlockLib, StoredUpTo
<1>5. ChannelLibs'
  <2> SUFFICES ASSUME NEW i \in 1..Len(channel')
               PROVE  /\ channel'[i].lib <= shipLib'
                      /\ store'.lib # NoLib => store'.lib <= channel'[i].lib
                      /\ block'.lib <= channel'[i].lib
                      /\ \A j \in 1..i : channel'[j].lib <= channel'[i].lib
    BY DEF ChannelLibs, StoredUpTo
  <2>1. /\ i + 1 \in 1..Len(channel) /\ 1 \in 1..(i + 1)
        /\ channel'[i] = channel[i + 1]
        /\ \A j \in 1..i : channel'[j] = channel[j + 1] /\ j + 1 \in 1..(i + 1)
    BY <1>2
  <2> QED
    BY <1>1, <2>1 DEF LibInv, ChannelLibs, StoredUpTo
<1> QED
  BY <1>1, <1>4, <1>5 DEF LibInv, StoredUpTo, Irreversible

\* The LIB stored is the one of the block in hand.
LEMMA StoreLibLib ==
  ASSUME TypeOK, LibInv, PruneBlock \/ StoreLib
  PROVE  LibInv'
<1>1. /\ UNCHANGED <<engine, shipLib, channel, block, lastLibHash>>
      /\ block # NoBlock
  BY DEF PruneBlock, StoreLib, ship, loop, TypeOK
<1>2. store'.lib = store.lib \/ store'.lib = block.lib
  BY DEF PruneBlock, StoreLib, DeleteBlock, PutLib, TypeOK, Store
<1>3. block.lib \in Nat /\ block.lib <= shipLib
  BY <1>1, LibTypes DEF LibInv, BlockLib
<1>4. StoredUpTo(shipLib)' /\ BlockLib'
  BY <1>1, <1>2, <1>3 DEF LibInv, BlockLib, StoredUpTo
<1>5. ChannelLibs'
  BY <1>1, <1>2 DEF LibInv, ChannelLibs, StoredUpTo
<1> QED
  BY <1>1, <1>4, <1>5 DEF LibInv, StoredUpTo, Irreversible

\* A row found at or below a height has a number at or below it.
LEMMA FoundBelow ==
  ASSUME TypeOK, RowsNumbered, NEW n \in Nat,
         HashOr(store, GetBlockOrPrev(store, n), NoHash) # NoHash
  PROVE  /\ HashOr(store, GetBlockOrPrev(store, n), NoHash) \in Hash
         /\ Number(HashOr(store, GetBlockOrPrev(store, n), NoHash)) <= n
<1> DEFINE found == GetBlockOrPrev(store, n)
<1>1. found # {}
  BY DEF HashOr
<1> DEFINE k == CHOOSE x \in found : TRUE
<1>2. k \in Keys(store) /\ k <= n
  BY <1>1 DEF GetBlockOrPrev
<1>3. HashOr(store, found, NoHash) = store.blocks[k]
  BY <1>1 DEF HashOr
<1> HIDE DEF k
<1>4. Number(store.blocks[k]) = k
  BY <1>2 DEF RowsNumbered
<1>5. store.blocks[k] \in Hash
  BY <1>2 DEF TypeOK, Store, Keys
<1> QED
  BY <1>2, <1>3, <1>4, <1>5

\* The hash named finalized belongs to a block at or below the LIB.
LEMMA FinalizedIsIrreversible ==
  ASSUME TypeOK, RunIsChain, LibInv, block # NoBlock, FinalizedHash # NoHash
  PROVE  Irreversible(FinalizedHash)
<1>1. /\ block.lib \in Nat /\ block.num \in Nat /\ BlockDelta \in Nat /\ shipLib \in Nat
      /\ block.lib <= shipLib /\ Number(block.hash) = block.num
  BY LibTypes DEF LibInv, BlockLib, RunIsChain, BlockLinked, Numbered
<1>2. CASE IsFinal(block)
  <2>1. Irreversible(block.hash)
    BY <1>1, <1>2 DEF IsFinal, BlockNumWithDelta, Irreversible
  <2> QED
    BY <1>2, <2>1 DEF FinalizedHash
<1>3. CASE ~IsFinal(block) /\ isNewLib
  <2> DEFINE h == HashOr(store, GetBlockOrPrev(store, LibEvmNum(block)), NoHash)
  <2>1. FinalizedHash = h
    BY <1>3 DEF FinalizedHash
  <2>2. /\ LibEvmNum(block) \in Nat
        /\ LibEvmNum(block) = 0 \/ LibEvmNum(block) + BlockDelta = block.lib
    BY <1>1 DEF LibEvmNum
  <2>3. h \in Hash /\ Number(h) <= LibEvmNum(block)
    BY <2>1, <2>2, FoundBelow DEF RunIsChain
  <2> HIDE DEF h
  <2>4. Number(h) \in Nat
    BY <2>3, NumberType
  <2>5. Irreversible(h)
    BY <1>1, <2>2, <2>3, <2>4 DEF Irreversible
  <2> QED
    BY <2>1, <2>5
<1>4. CASE ~IsFinal(block) /\ ~isNewLib
  <2>1. FinalizedHash = lastLibHash
    BY <1>4 DEF FinalizedHash
  <2> QED
    BY <2>1 DEF LibInv
<1> QED
  BY <1>2, <1>3, <1>4

\* A batch that is due picks its finalized hash.
LEMMA QueueLib ==
  ASSUME TypeOK, RunIsChain, LibInv, Queues
  PROVE  LibInv'
<1>1. /\ UNCHANGED <<store, engine, shipLib, channel, block>>
      /\ lastLibHash' = lastLibHash \/ lastLibHash' = FinalizedHash
      /\ block # NoBlock
  BY DEF Queues, Queue, ship, TypeOK
<1>2. lastLibHash' # NoHash => Irreversible(lastLibHash')
  BY <1>1, FinalizedIsIrreversible DEF LibInv
<1> QED
  BY <1>1, <1>2 DEF LibInv, StoredUpTo, ChannelLibs, BlockLib, Irreversible

\* A forkchoice update, executed or not, finalizes a block at or below the LIB.
LEMMA ForkChoiceLib ==
  ASSUME TypeOK, LibInv, pc = "forkChoice",
         engine' = ForkChoiceUpdated(engine, batch[Len(batch)].hash, safeHash, lastLibHash)
  PROVE  Irreversible(engine'.finalized)
BY DEF LibInv, ForkChoiceUpdated, TypeOK, Engine

\* A restart of the executor keeps or forgets what it has finalized.
LEMMA RestartedLib ==
  ASSUME TypeOK, LibInv, ExecutorRestarts
  PROVE  LibInv'
<1>1. engine' \in Restarted(engine) /\ UNCHANGED <<store, shipLib, channel, block, lastLibHash>>
  BY DEF ExecutorRestarts, ship, loop
<1>2. PICK head \in Prefixes(engine.head), mark \in {Genesis, engine.finalized} :
        engine' = EngineAt(head, mark)
  BY <1>1 DEF Restarted
<1>3. engine'.finalized = Genesis \/ engine'.finalized = engine.finalized
  BY <1>2 DEF EngineAt
<1>4. Irreversible(engine'.finalized)
  BY <1>3, GenesisType DEF LibInv, Irreversible
<1> QED
  BY <1>1, <1>4 DEF LibInv, StoredUpTo, ChannelLibs, BlockLib, Irreversible

\* Every step keeps the LIBs in order.
LEMMA NextLib == TypeOK /\ RunIsChain /\ LibInv /\ [Next]_vars => LibInv'
<1> SUFFICES ASSUME TypeOK, RunIsChain, LibInv, [Next]_vars PROVE LibInv'
  OBVIOUS
<1>0. Irreversible(engine.finalized)
  BY DEF LibInv
<1>n. ASSUME AttemptFails, store' = store, shipLib' = shipLib,
             Irreversible(engine'.finalized)
      PROVE  LibInv'
  BY <1>n, NoRunLib DEF AttemptFails
<1>p. \A hashes : NewPayloads(engine, hashes).finalized = engine.finalized
  BY DEF NewPayloads, TypeOK, Engine
<1>1. CASE Start \/ StartMisread \/ StartUnreachable
  BY <1>1, StartLib
<1>2. CASE TranslatorSends
  BY <1>2, TranslatorSendsLib
<1>3. CASE TranslatorRejects \/ TranslatorStops \/ StreamEnds \/ StreamFails
  BY <1>3, SameLib DEF TranslatorRejects, TranslatorStops, StreamEnds, StreamFails, loop
<1>4. CASE LibAdvances
  <2>1. /\ UNCHANGED <<store, engine, channel, block, lastLibHash>>
        /\ shipLib \in Nat /\ shipLib' \in Nat /\ shipLib' >= shipLib
    BY <1>4, LibTypes, StoreAssumption DEF LibAdvances, loop
  <2>2. Irreversible(engine.finalized)' /\ (lastLibHash # NoHash => Irreversible(lastLibHash)')
    BY <2>1, LibTypes, StaysIrreversible DEF LibInv, TypeOK
  <2>3. StoredUpTo(shipLib)'
    BY <2>1, LibTypes DEF LibInv, StoredUpTo
  <2>4. ChannelLibs'
    BY <2>1, LibTypes DEF LibInv, ChannelLibs, StoredUpTo
  <2>5. BlockLib'
    BY <2>1, LibTypes DEF LibInv, BlockLib, StoredUpTo
  <2> QED
    BY <2>1, <2>2, <2>3, <2>4, <2>5 DEF LibInv
<1>5. CASE ReceiveBlock
  BY <1>5, ReceiveLib
<1>6. CASE EndOfStream
  <2>1. store' = store /\ engine' = engine /\ shipLib' = shipLib
    BY <1>6 DEF EndOfStream
  <2>2. CASE AttemptFails
    BY <1>0, <1>n, <2>1, <2>2
  <2>3. CASE UNCHANGED <<channel, loop>>
    BY <2>1, <2>3, SameLib DEF loop
  <2> QED
    BY <1>6, <2>2, <2>3 DEF EndOfStream
<1>7. CASE PruneBlock \/ StoreLib
  BY <1>7, StoreLibLib
<1>8. CASE CheckPanics \/ HashMismatch \/ CallFails \/ DatabaseFails
  BY <1>0, <1>8, <1>n DEF CheckPanics, HashMismatch, CallFails, DatabaseFails
<1>9. CASE SkipBlock
  BY <1>9, SameLib DEF SkipBlock, ship, loop
<1>10. CASE QueueBlock \/ QueueMisread
  BY <1>10, QueuesBlock, QueueLib
<1>11. CASE SendPayloads
  BY <1>11, <1>p, SameLib DEF SendPayloads, ship
<1>12. CASE SendForkChoice
  <2>1. UNCHANGED <<store, shipLib, channel, block, lastLibHash>>
    BY <1>12 DEF SendForkChoice, ship
  <2>2. Irreversible(engine'.finalized)
    BY <1>12, ForkChoiceLib DEF SendForkChoice
  <2> QED
    BY <2>1, <2>2 DEF LibInv, StoredUpTo, ChannelLibs, BlockLib, Irreversible
<1>13. CASE ResponseLost
  <2>1. Irreversible(engine'.finalized)
    BY <1>0, <1>13, <1>p, ForkChoiceLib DEF ResponseLost
  <2> QED
    BY <1>13, <1>n, <2>1 DEF ResponseLost
<1>14. CASE Restart
  BY <1>0, <1>14, NoRunLib DEF Restart
<1>15. CASE ExecutorRestarts
  BY <1>15, RestartedLib
<1>16. CASE UNCHANGED vars
  BY <1>16, SameLib DEF vars, ship, loop
<1> QED
  BY <1>1, <1>2, <1>3, <1>4, <1>5, <1>6, <1>7, <1>8, <1>9, <1>10, <1>11, <1>12, <1>13, <1>14,
     <1>15, <1>16 DEF Next, Translator, Loop, Environment

\* The LIB of the node bounds every LIB held and every block called finalized, in
\* every reachable state.
THEOREM LibStaysOrdered == Spec => []LibInv
BY InitLib, NextLib, TypeCorrect, RunStaysChain, PTL DEF Spec

-------------------------------------------------------------------------------
(***************************************************************************)
(* The LIB stored, and the resume point.                                   *)
(***************************************************************************)

\* Only StoreLib writes the LIB, and its block is not older than the one stored.
LEMMA LibRowGrows ==
  ASSUME TypeOK, LibInv, [Next]_vars, store.lib # NoLib, store'.lib # NoLib
  PROVE  store'.lib >= store.lib
<1>0. store.lib \in Nat
  BY LibTypes
<1>1. CASE store'.lib = store.lib
  BY <1>0, <1>1
<1>2. CASE StoreLib
  <2>1. /\ block # NoBlock /\ (store'.lib = store.lib \/ store'.lib = block.lib)
    BY <1>2 DEF StoreLib, PutLib, TypeOK, Store
  <2>2. store.lib <= block.lib /\ block.lib \in Nat
    BY <2>1, LibTypes DEF LibInv, BlockLib, StoredUpTo
  <2> QED
    BY <1>0, <2>1, <2>2
<1>3. CASE Start \/ StartMisread \/ StartUnreachable
  <2>1. store' = OpenedStore
    BY <1>3 DEF Start, StartAttempt, StartMisread, Launch, StartAboveMaximumRange, StartUnreachable
  <2> QED
    BY <1>1, <2>1 DEF OpenedStore, EmptyStore
<1>4. CASE ReceiveBlock \/ PruneBlock
  BY <1>1, <1>4 DEF ReceiveBlock, PruneBlock, PutBlock, DeleteBlock, TypeOK, Store
<1>5. CASE \/ Translator \/ LibAdvances \/ EndOfStream \/ CheckPanics \/ HashMismatch \/ SkipBlock
           \/ QueueBlock \/ QueueMisread \/ SendPayloads \/ SendForkChoice
  BY <1>1, <1>5 DEF Translator, TranslatorSends, TranslatorRejects, TranslatorStops, LibAdvances,
     EndOfStream, CheckPanics, HashMismatch, SkipBlock, QueueBlock, QueueMisread, Queue,
     SendPayloads, SendForkChoice
<1>6. CASE \/ StreamEnds \/ StreamFails \/ CallFails \/ ResponseLost \/ DatabaseFails
           \/ Restart \/ ExecutorRestarts \/ UNCHANGED vars
  BY <1>1, <1>6 DEF StreamEnds, StreamFails, CallFails, ResponseLost, DatabaseFails, Restart,
     ExecutorRestarts, vars
<1> QED
  BY <1>2, <1>3, <1>4, <1>5, <1>6 DEF Next, Loop, Environment

\* The stored LIB never moves back, through any retries and restarts.
THEOREM LibNeverRegresses == Spec => StoredLibNeverRegresses
<1>1. TypeOK /\ LibInv /\ [Next]_vars =>
        [store.lib # NoLib /\ store'.lib # NoLib => store'.lib >= store.lib]_vars
  BY LibRowGrows
<1> QED
  BY <1>1, TypeCorrect, LibStaysOrdered, PTL DEF Spec, StoredLibNeverRegresses

\* A run resumes no higher than after the block the executor called finalized.
LEMMA ResumesUpToFinalized ==
  ASSUME NEW opened \in Store, NEW finalized \in ReadAs(engine.finalized),
         NextBlock(opened, finalized) > StartBlock, Number(engine.finalized) \in Nat
  PROVE  /\ NextBlock(opened, finalized) \in Nat
         /\ NextBlock(opened, finalized) - 1 <= Number(engine.finalized)
<1>1. StartBlock \in Nat
  BY ClientAssumption, StoreAssumption
<1>2. ResumeKeys(opened, finalized) # {}
  BY <1>1 DEF NextBlock
<1> DEFINE k == CHOOSE x \in ResumeKeys(opened, finalized) : TRUE
<1>3. k \in ResumeKeys(opened, finalized)
  BY <1>2
<1>4. NextBlock(opened, finalized) = 1 + k
  BY <1>2 DEF NextBlock
<1> HIDE DEF k
<1>5. k \in LastChecked(opened, finalized) /\ opened.lib # NoLib /\ finalized # NoHash
  BY <1>3 DEF ResumeKeys, LastChecked
<1>6. k \in Keys(opened)
  BY <1>5 DEF LastChecked, GetBlockOrPrev
<1>7. k \in Nat
  BY <1>6, StoreAssumption DEF Keys, Numbers
<1>8. opened.lib + BlockDelta \in Nat
  BY <1>5, ChainAssumption DEF Store
<1>9. Number(finalized) \in Nat /\ Number(finalized) <= Number(engine.finalized)
  BY <1>5, GenesisType DEF ReadAs
<1>10. k <= Number(finalized)
  BY <1>5, <1>7, <1>8, <1>9 DEF LastChecked, GetBlockOrPrev
<1> QED
  BY <1>4, <1>7, <1>9, <1>10

\* Only a start begins a run.
LEMMA OnlyStartResumes ==
  ASSUME Next, pc = "idle", pc' = "recv"
  PROVE  StartAttempt \/ StartMisread
BY DEF Next, Start, StartAttempt, StartMisread, Launch, StartAboveMaximumRange, Translator, TranslatorSends,
   TranslatorRejects, TranslatorStops, Loop, ReceiveBlock, EndOfStream, PruneBlock, StoreLib,
   CheckPanics, HashMismatch, SkipBlock, QueueBlock, QueueMisread, SendPayloads,
   SendForkChoice, LibAdvances, Environment, StartUnreachable, StreamEnds, StreamFails, CallFails, ResponseLost,
   DatabaseFails, Restart, ExecutorRestarts

\* A run never resumes above the EVM block of the LIB the node has reported, though
\* the LIB stored is a native number to which the offset is added once more.
THEOREM ResumesBelowLib == Spec => ResumesAtFinalBlock
<1>1. ASSUME TypeOK, LibInv, Next, pc = "idle", pc' = "recv", stream'.next > StartBlock
      PROVE  stream'.next - 1 + BlockDelta <= shipLib
  <2>1. PICK latest, finalized : Starts(latest, finalized)
    BY <1>1, OnlyStartResumes, StartsLaunch
  <2>2. /\ stream'.next = NextBlock(OpenedStore, finalized) /\ OpenedStore \in Store
        /\ finalized \in ReadAs(engine.finalized)
    BY <1>1, <2>1, OpenedStoreType DEF Starts, Launch, TypeOK
  <2>3. NextBlock(OpenedStore, finalized) \in Nat /\ stream'.next - 1 <= Number(engine.finalized)
    BY <1>1, <2>2, LibTypes, ResumesUpToFinalized
  <2>4. StartBlock \in Nat \ {0}
    BY ClientAssumption, StoreAssumption
  <2>5. Number(engine.finalized) # 0
    BY <1>1, <2>2, <2>3, <2>4, LibTypes
  <2>6. Number(engine.finalized) + BlockDelta <= shipLib
    BY <1>1, <2>5 DEF LibInv, Irreversible
  <2> QED
    BY <1>1, <2>2, <2>3, <2>6, LibTypes
<1>2. TypeOK /\ LibInv /\ [Next]_vars =>
        [pc = "idle" /\ pc' = "recv" /\ stream'.next > StartBlock =>
           stream'.next - 1 + BlockDelta <= shipLib]_vars
  BY <1>1
<1> QED
  BY <1>2, TypeCorrect, LibStaysOrdered, PTL DEF Spec, ResumesAtFinalBlock

-------------------------------------------------------------------------------
(***************************************************************************)
(* Runs resume on the chain of the executor.                               *)
(***************************************************************************)

\* The executor stays on the canonical chain.
LEMMA ExecutorStaysCanonical ==
  ASSUME Translations = {Canonical}, HeadsAreCanonical, IrreversibleOnly
  PROVE  Spec => []ExecutorIsCanonical
<1>1. Init => ExecutorIsCanonical
  BY InitFollows
<1>2. TypeOK /\ RunIsChain /\ RunIsCanonical /\ RunIsFinal /\ ExecutorIsCanonical /\ [Next]_vars
        => ExecutorIsCanonical'
  BY NextFollows
<1> QED
  BY <1>1, <1>2, TypeCorrect, RunStaysChain, RunStaysCanonical, RunStaysFinal, PTL DEF Spec

\* The executor does not lose blocks while a run relies on them.
ExecutorStaysUp == "executorUnnoticed" \notin Faults

\* A run resumes no higher than after the head of the executor, and not below the
\* start block.
LEMMA ResumesUpToHead ==
  ASSUME TypeOK, ExecutorIsCanonical, HeadKnown, NEW finalized \in ReadAs(engine.finalized)
  PROVE  /\ NextBlock(OpenedStore, finalized) \in Nat
         /\ NextBlock(OpenedStore, finalized) - 1 <= Number(engine.head)
         /\ NextBlock(OpenedStore, finalized) >= StartBlock
<1> DEFINE next == NextBlock(OpenedStore, finalized)
<1>1. OpenedStore \in Store
  BY OpenedStoreType DEF TypeOK
<1>2. /\ next \in Nat /\ StartBlock \in Nat
      /\ Number(engine.head) \in Nat /\ Number(engine.finalized) \in Nat
  BY <1>1, ResumePointType, LoopTypes, LibTypes, ClientAssumption, StoreAssumption
<1>3. next > StartBlock => next - 1 <= Number(engine.finalized)
  BY <1>1, <1>2, ResumesUpToFinalized
<1>4. next >= StartBlock
  <2>1. CASE ResumeKeys(OpenedStore, finalized) = {}
    BY <1>2, <2>1 DEF NextBlock
  <2>2. CASE ResumeKeys(OpenedStore, finalized) # {}
    <3> DEFINE k == CHOOSE x \in ResumeKeys(OpenedStore, finalized) : TRUE
    <3>1. k \in ResumeKeys(OpenedStore, finalized) /\ next = 1 + k
      BY <2>2 DEF NextBlock
    <3> HIDE DEF k
    <3>2. k \in Nat
      BY <3>1, StoreAssumption DEF ResumeKeys, LastChecked, GetBlockOrPrev, Keys, Numbers
    <3>3. StartBlock <= k + 1
      BY <3>1 DEF ResumeKeys, InStartStopRange
    <3> QED
      BY <1>2, <3>1, <3>2, <3>3
  <2> QED
    BY <2>1, <2>2
<1>5. next - 1 <= Number(engine.head)
  <2> HIDE DEF next
  <2>1. CASE next > StartBlock
    BY <1>2, <1>3, <2>1 DEF ExecutorIsCanonical
  <2>2. CASE ~(next > StartBlock)
    BY <1>2, <2>2 DEF HeadKnown
  <2> QED
    BY <2>1, <2>2
<1> QED
  BY <1>2, <1>4, <1>5

\* The blocks known up to a number are known up to any smaller one.
LEMMA KnownDown ==
  ASSUME NEW n \in Int, NEW m \in Int, m <= n, KnownUpTo(n)
  PROVE  KnownUpTo(m)
BY DEF KnownUpTo

\* What is known stays known when payloads are added, and more is.
LEMMA KnownGrows ==
  ASSUME NEW e, NEW hashes, NEW k \in Nat,
         \A j \in 0..k : CanonHash(j) \in e.known \cup hashes
  PROVE  CanonHash(k) \in {h \in e.known \cup hashes : Prefixes(h) \subseteq e.known \cup hashes}
<1>1. Number(CanonHash(k)) = k
  BY CanonHashType
<1>2. \A j \in 0..k : AncestorAt(CanonHash(k), j) = CanonHash(j)
  BY CanonAncestor
<1>3. Prefixes(CanonHash(k)) \subseteq e.known \cup hashes
  BY <1>1, <1>2 DEF Prefixes
<1>4. k \in 0..k
  OBVIOUS
<1> QED
  BY <1>3, <1>4

\* Payloads take no block away.
LEMMA PayloadsKeepKnown ==
  ASSUME TypeOK, NEW hashes, engine' = NewPayloads(engine, hashes), NEW n \in Int, KnownUpTo(n)
  PROVE  \A k \in 0..n : CanonHash(k) \in engine'.known
<1> SUFFICES ASSUME NEW k \in 0..n PROVE CanonHash(k) \in engine'.known
  OBVIOUS
<1>1. engine'.known = {h \in engine.known \cup hashes : Prefixes(h) \subseteq engine.known \cup hashes}
  BY DEF NewPayloads, TypeOK, Engine
<1>2. k \in Nat /\ \A j \in 0..k : CanonHash(j) \in engine.known \cup hashes
  BY DEF KnownUpTo
<1> QED
  BY <1>1, <1>2, KnownGrows

\* What is covered is known or among the payloads.
LEMMA CoveredIsHeld ==
  ASSUME RunIsCanonical, NEW n, Covered(n)
  PROVE  CanonHash(n) \in engine.known \cup BatchHashes
BY DEF RunIsCanonical, CanonicalBlock, Covered, Queued, BatchHashes

\* With the payloads of the batch the executor has everything up to the last block.
LEMMA PayloadsReachBlock ==
  ASSUME TypeOK, RunIsCanonical, RunKnown, pc = "newPayload",
         engine' = NewPayloads(engine, BatchHashes)
  PROVE  \A k \in 0..block.num : CanonHash(k) \in engine'.known
<1>1. /\ block # NoBlock /\ block.num \in Nat
      /\ \A n \in 0..(block.num - 1) : Covered(n)
      /\ Covered(block.num)
  BY LoopTypes DEF TypeOK, RunKnown, Running, Handling
<1>2. ASSUME NEW j \in 0..block.num PROVE CanonHash(j) \in engine.known \cup BatchHashes
  <2>1. j \in 0..(block.num - 1) \/ j = block.num
    BY <1>1
  <2> QED
    BY <1>1, <2>1, CoveredIsHeld
<1>3. engine'.known = {h \in engine.known \cup BatchHashes :
                         Prefixes(h) \subseteq engine.known \cup BatchHashes}
  BY DEF NewPayloads, TypeOK, Engine
<1>4. ASSUME NEW k \in 0..block.num PROVE CanonHash(k) \in engine'.known
  <2>1. k \in Nat /\ \A j \in 0..k : j \in 0..block.num
    BY <1>1
  <2>2. \A j \in 0..k : CanonHash(j) \in engine.known \cup BatchHashes
    BY <1>2, <2>1
  <2> QED
    BY <1>3, <2>1, <2>2, KnownGrows
<1> QED
  BY <1>4

-------------------------------------------------------------------------------
(***************************************************************************)
(* HeadKnown and RunKnown are invariants.                                  *)
(***************************************************************************)
\* The executor has what it starts with.
LEMMA InitKnown ==
  ASSUME HeadsAreCanonical
  PROVE  Init => HeadKnown /\ RunKnown
<1> SUFFICES ASSUME Init PROVE HeadKnown /\ RunKnown
  OBVIOUS
<1>1. PICK head \in InitialHeads :
        \E n \in 0..Number(head) : engine = EngineAt(head, AncestorAt(head, n))
  BY DEF Init
<1>2. engine.head = head /\ engine.known = Prefixes(head)
  BY <1>1 DEF EngineAt
<1>3. head \in Hash /\ Number(head) \in Nat /\ Number(head) >= StartBlock - 1
      /\ head = CanonHash(Number(head))
  BY ClientAssumption, NumberType DEF HeadsAreCanonical
<1>4. \A k \in 0..Number(head) : CanonHash(k) \in Prefixes(head)
  BY <1>3, CanonAncestor DEF Prefixes
<1>5. ~Running
  BY DEF Init, Running
<1> QED
  BY <1>2, <1>3, <1>4, <1>5 DEF HeadKnown, KnownUpTo, RunKnown

\* A run starts after a block the executor has.
LEMMA StartKnown ==
  ASSUME TypeOK, ExecutorIsCanonical, HeadKnown, StartAttempt \/ StartMisread
  PROVE  HeadKnown' /\ RunKnown'
<1>1. PICK latest, finalized : Starts(latest, finalized)
  BY StartsLaunch
<1>2. /\ engine' = engine /\ block' = NoBlock /\ batch' = << >> /\ channel' = << >>
      /\ executor'.finalized = finalized /\ pc' = "recv"
      /\ stream'.next = NextBlock(OpenedStore, finalized)
      /\ finalized \in ReadAs(engine.finalized)
  BY <1>1 DEF Starts, Launch, ClearedLoop
<1> DEFINE next == NextBlock(OpenedStore, finalized)
<1>3. next \in Nat /\ next - 1 <= Number(engine.head) /\ next >= StartBlock
      /\ Number(engine.head) \in Nat
  BY <1>2, ResumesUpToHead, LoopTypes
<1>4. KnownUpTo(next - 1)
  <2> HIDE DEF next
  <2> QED
    BY <1>3, KnownDown DEF HeadKnown
<1>5. LatestEvmNum' <= Number(engine.head)
  BY <1>2, <1>3, LibTypes, GenesisType DEF LatestEvmNum, ReadAs, ExecutorIsCanonical
<1>6. FirstNum' = next /\ Len(batch') = 0
  BY <1>2, EmptySeq DEF FirstNum
<1> QED
  BY <1>2, <1>3, <1>4, <1>5, <1>6 DEF HeadKnown, RunKnown, KnownUpTo

\* A block sent leaves the block a run begins with.
LEMMA SendsKeepFirst ==
  ASSUME TypeOK, TranslatorSends
  PROVE  FirstNum' = FirstNum
<1>1. PICK b : channel' = Append(channel, b) /\ b.num = stream.next /\ b \in Block
  <2>1. PICK content \in Translations :
          channel' = Append(channel, [num |-> stream.next,
                                      hash |-> Child(stream.parent, content), lib |-> shipLib])
    BY DEF TranslatorSends
  <2>2. Child(stream.parent, content) \in Hash /\ stream.next \in Nat /\ shipLib \in Nat
    BY ChildType, ClientAssumption, LoopTypes
  <2> QED
    BY <2>1, <2>2 DEF Block
<1>2. /\ channel \in Seq(Block) /\ Len(channel) \in Nat /\ Len(channel') = Len(channel) + 1
      /\ channel' \in Seq(Block) /\ channel'[Len(channel) + 1] = b
      /\ \A i \in 1..Len(channel) : channel'[i] = channel[i]
  BY <1>1, AppendProperties, LenProperties DEF TypeOK
<1>3. channel' # << >>
  BY <1>2, EmptySeq
<1>4. CASE channel = << >>
  BY <1>1, <1>2, <1>3, <1>4, EmptySeq DEF FirstNum
<1>5. CASE channel # << >>
  <2>1. 1 \in 1..Len(channel)
    BY <1>2, <1>5, EmptySeq
  <2> QED
    BY <1>2, <1>3, <1>5, <2>1 DEF FirstNum
<1> QED
  BY <1>4, <1>5

\* Steps of the translator leave what the executor has.
LEMMA TranslatorSendsKnown ==
  ASSUME TypeOK, HeadKnown, RunKnown, TranslatorSends
  PROVE  HeadKnown' /\ RunKnown'
<1>1. UNCHANGED <<engine, executor, block, batch, pc>>
  BY DEF TranslatorSends, loop
<1>2. FirstNum' = FirstNum
  BY SendsKeepFirst
<1> QED
  BY <1>1, <1>2 DEF HeadKnown, RunKnown, KnownUpTo, Running, Handling, LatestEvmNum, Covered, Queued

\* The block taken follows what the executor has, or what waits in the batch.
LEMMA ReceiveBlockKnown ==
  ASSUME TypeOK, RunIsChain, HeadKnown, RunKnown, ReceiveBlock
  PROVE  HeadKnown' /\ RunKnown'
<1>1. /\ channel # << >> /\ block' = channel[1] /\ pc = "recv" /\ pc' = "prune"
      /\ block' # NoBlock /\ UNCHANGED <<engine, executor, batch>>
      /\ block'.num \in Nat
  <2>1. channel \in Seq(Block) /\ channel # << >>
    BY DEF ReceiveBlock, TypeOK
  <2>2. channel[1] \in Block
    BY <2>1, EmptySeq, ElementOfSeq
  <2> QED
    BY <2>1, <2>2, ClientAssumption DEF ReceiveBlock, Block
<1>2. Running /\ ~Handling /\ Handling'
  BY <1>1 DEF Running, Handling
<1>3. StartBlock \in Nat
  BY ClientAssumption, StoreAssumption
<1>4. block'.num >= StartBlock /\ \A n \in 0..(block'.num - 1) : Covered(n)
  <2>1. CASE block = NoBlock
    BY <1>1, <1>2, <2>1 DEF RunKnown, FirstNum, KnownUpTo, Covered
  <2>2. CASE block # NoBlock
    <3>1. block'.num = block.num + 1 /\ block.num \in Nat
      BY <1>1, <2>2, LoopTypes DEF RunIsChain, BlockLinked, Linked
    <3>2. /\ block.num >= StartBlock /\ Covered(block.num)
          /\ \A n \in 0..(block.num - 1) : Covered(n)
      BY <1>2, <2>2 DEF RunKnown
    <3>3. ASSUME NEW n \in 0..(block'.num - 1) PROVE Covered(n)
      <4>1. n \in 0..(block.num - 1) \/ n = block.num
        BY <3>1
      <4> QED
        BY <3>2, <4>1
    <3> QED
      BY <1>3, <3>1, <3>2, <3>3
  <2> QED
    BY <2>1, <2>2
<1>5. \A n \in 0..(block'.num - 1) : Covered(n)'
  BY <1>1, <1>4 DEF Covered, Queued
<1> QED
  BY <1>1, <1>2, <1>4, <1>5 DEF HeadKnown, RunKnown, KnownUpTo, LatestEvmNum

\* What is skipped is at or below the head.
LEMMA SkipBlockKnown ==
  ASSUME TypeOK, HeadKnown, RunKnown, SkipBlock
  PROVE  HeadKnown' /\ RunKnown'
<1>1. /\ pc = "check" /\ pc' = "recv" /\ UNCHANGED <<engine, executor, block, batch, channel, stream>>
      /\ block # NoBlock
  BY DEF SkipBlock, ship, loop, TypeOK
<1>2. Running /\ LatestEvmNum <= Number(engine.head)
  BY <1>1 DEF RunKnown, Running
<1>3. block.num <= Number(engine.head) /\ block.num \in Nat
  BY <1>1, <1>2, LoopTypes DEF SkipBlock, Stored, HasBlockNumber
<1>4. Covered(block.num)
  BY <1>3, LoopTypes DEF HeadKnown, KnownUpTo, Covered
<1> QED
  BY <1>1, <1>2, <1>4 DEF HeadKnown, RunKnown, KnownUpTo, LatestEvmNum, Handling, Covered, Queued

\* A block that joins the batch is covered by it.
LEMMA QueueBlockKnown ==
  ASSUME TypeOK, HeadKnown, RunKnown, Queues
  PROVE  HeadKnown' /\ RunKnown'
<1>1. /\ pc = "check" /\ pc' \in {"recv", "newPayload"}
      /\ UNCHANGED <<engine, executor, block, channel, stream>>
      /\ block # NoBlock /\ batch' = Append(batch, block)
      /\ block \in Block /\ block.num \in Nat /\ Running /\ block.num > LatestEvmNum
      /\ LatestEvmNum \in Int
  BY LoopTypes DEF Queues, Queue, ship, TypeOK, Running
<1>2. /\ Len(batch) \in Nat /\ Len(batch') = Len(batch) + 1
      /\ batch'[Len(batch) + 1] = block
      /\ \A i \in 1..Len(batch) : batch'[i] = batch[i]
  BY <1>1, AppendProperties, LenProperties DEF TypeOK
<1>3. Covered(block.num)'
  <2>1. Len(batch) + 1 \in 1..Len(batch')
    BY <1>2
  <2> QED
    BY <1>1, <1>2, <2>1 DEF Covered, Queued
<1>4. ASSUME NEW n \in 0..(block.num - 1) PROVE Covered(n)'
  <2>1. Covered(n)
    BY <1>1 DEF RunKnown
  <2>2. \A i \in 1..Len(batch) : i \in 1..Len(batch')
    BY <1>2
  <2> QED
    BY <1>1, <1>2, <2>1, <2>2 DEF Covered, Queued
<1>5. \A i \in 1..Len(batch') : batch'[i].num >= StartBlock
  BY <1>1, <1>2 DEF RunKnown
<1> QED
  BY <1>1, <1>3, <1>4, <1>5 DEF HeadKnown, RunKnown, KnownUpTo, LatestEvmNum

\* The payloads of a batch connect, so that the executor has them all.
LEMMA SendPayloadsKnown ==
  ASSUME TypeOK, RunIsCanonical, HeadKnown, RunKnown, SendPayloads
  PROVE  HeadKnown' /\ RunKnown'
<1>1. /\ pc = "newPayload" /\ engine' = NewPayloads(engine, BatchHashes)
      /\ UNCHANGED <<executor, block, channel, stream>> /\ Running
      /\ block # NoBlock /\ block.num \in Nat
      /\ pc' \in {"recv", "forkChoice"} /\ (batch' = batch \/ batch' = << >>)
  BY LoopTypes DEF SendPayloads, ship, Running, TypeOK
<1>2. engine'.head = engine.head
  BY <1>1 DEF NewPayloads, TypeOK, Engine
<1>3. \A k \in 0..block.num : CanonHash(k) \in engine'.known
  BY <1>1, PayloadsReachBlock
<1>4. HeadKnown'
  <2>1. \A k \in 0..Number(engine.head) : CanonHash(k) \in engine'.known
    BY <1>1, LoopTypes, PayloadsKeepKnown DEF HeadKnown
  <2> QED
    BY <1>2, <2>1 DEF HeadKnown, KnownUpTo
<1>5. \A k \in 0..block.num : Covered(k)'
  BY <1>3 DEF Covered
<1>6. block.num \in 0..block.num /\ \A n \in 0..(block.num - 1) : n \in 0..block.num
  BY <1>1
<1>7. LatestEvmNum' = LatestEvmNum /\ LatestEvmNum <= Number(engine'.head) /\ LatestEvmNum < block.num
  BY <1>1, <1>2 DEF RunKnown, LatestEvmNum
<1>8. block.num >= StartBlock /\ \A i \in 1..Len(batch') : batch'[i].num >= StartBlock
  <2>1. Len(<< >>) = 0
    BY EmptySeq
  <2> QED
    BY <1>1, <2>1 DEF RunKnown
<1>9. KnownUpTo(block.num)'
  BY <1>1, <1>3 DEF KnownUpTo
<1> QED
  BY <1>1, <1>4, <1>5, <1>6, <1>7, <1>8, <1>9 DEF RunKnown

\* A forkchoice update moves the head to the last block of the batch.
LEMMA ForkChoiceKnown ==
  ASSUME TypeOK, RunIsChain, RunIsCanonical, HeadKnown, RunKnown, pc = "forkChoice",
         engine' = ForkChoiceUpdated(engine, batch[Len(batch)].hash, safeHash, lastLibHash)
  PROVE  /\ HeadKnown' /\ engine'.known = engine.known
         /\ LatestEvmNum <= Number(engine'.head)
<1>1. /\ batch[Len(batch)] = block
      /\ block # NoBlock /\ block.num \in Nat /\ block.hash = CanonHash(block.num)
      /\ KnownUpTo(block.num) /\ LatestEvmNum <= Number(engine.head)
      /\ LatestEvmNum \in Int /\ LatestEvmNum < block.num /\ block.num >= StartBlock
  BY LoopTypes
     DEF TypeOK, RunIsChain, BatchOrdered, RunIsCanonical, CanonicalBlock, RunKnown, Running
<1>2. Number(block.hash) = block.num
  BY <1>1, CanonHashType
<1>3. /\ engine'.known = engine.known
      /\ engine'.head = engine.head \/ engine'.head = block.hash
  BY <1>1 DEF ForkChoiceUpdated, TypeOK, Engine
<1>4. CASE engine'.head = engine.head
  BY <1>1, <1>3, <1>4 DEF HeadKnown, KnownUpTo
<1>5. CASE engine'.head = block.hash
  <2>1. StartBlock \in Nat
    BY ClientAssumption, StoreAssumption
  <2> QED
    BY <1>1, <1>2, <1>3, <1>5, <2>1 DEF HeadKnown, KnownUpTo
<1> QED
  BY <1>3, <1>4, <1>5

\* An executor that restarts between two runs keeps a beginning of its chain.
LEMMA ExecutorRestartsKnown ==
  ASSUME TypeOK, ExecutorIsCanonical, ExecutorStaysUp, ExecutorRestarts
  PROVE  HeadKnown' /\ RunKnown'
<1>1. /\ ~Running /\ pc' = pc /\ engine' \in Restarted(engine)
      /\ Number(engine'.head) >= StartBlock - 1
  BY DEF ExecutorRestarts, Fault, ExecutorStaysUp
<1>2. PICK head \in Prefixes(engine.head) : \E mark : engine' = EngineAt(head, mark)
  BY <1>1 DEF Restarted
<1>3. PICK n \in 0..Number(engine.head) : head = AncestorAt(engine.head, n)
  BY <1>2 DEF Prefixes
<1>4. n \in Nat /\ head = CanonHash(n)
  BY <1>3, LoopTypes, CanonAncestor DEF ExecutorIsCanonical
<1>5. Number(head) = n /\ engine'.head = head /\ engine'.known = Prefixes(head)
  BY <1>2, <1>4, CanonHashType DEF EngineAt
<1>6. \A k \in 0..n : CanonHash(k) \in Prefixes(head)
  BY <1>4, <1>5, CanonAncestor DEF Prefixes
<1> QED
  BY <1>1, <1>5, <1>6 DEF HeadKnown, KnownUpTo, RunKnown, Running

\* Every step leaves the executor with what the run relies on.
LEMMA NextKnown ==
  ASSUME ExecutorStaysUp
  PROVE  TypeOK /\ RunIsChain /\ RunIsCanonical /\ ExecutorIsCanonical /\ HeadKnown /\ RunKnown
           /\ [Next]_vars => HeadKnown' /\ RunKnown'
<1> SUFFICES ASSUME TypeOK, RunIsChain, RunIsCanonical, ExecutorIsCanonical, HeadKnown, RunKnown,
                    [Next]_vars
             PROVE  HeadKnown' /\ RunKnown'
  OBVIOUS
<1>n. ASSUME engine' = engine, pc' \in {"idle", "failed", "finished"}
      PROVE  HeadKnown' /\ RunKnown'
  BY <1>n DEF HeadKnown, RunKnown, KnownUpTo, Running
<1>s. ASSUME UNCHANGED <<engine, executor, block, batch, channel>>,
             stream'.next = stream.next, Running' => Running, Handling' = Handling,
             \A s \in {"newPayload", "forkChoice"} : pc' = s => pc = s
      PROVE  HeadKnown' /\ RunKnown'
  BY <1>s DEF HeadKnown, RunKnown, KnownUpTo, LatestEvmNum, FirstNum, Covered, Queued
<1>1. CASE StartAttempt \/ StartMisread
  BY <1>1, StartKnown
<1>2. CASE StartAboveMaximumRange \/ StartUnreachable
  BY <1>2, <1>n DEF StartAboveMaximumRange, StartUnreachable
<1>3. CASE TranslatorSends
  BY <1>3, TranslatorSendsKnown
<1>4. CASE TranslatorRejects \/ TranslatorStops \/ StreamEnds \/ StreamFails
  <2>1. /\ UNCHANGED <<engine, executor, block, batch, channel, pc>>
        /\ stream'.next = stream.next
    BY <1>4 DEF TranslatorRejects, TranslatorStops, StreamEnds, StreamFails, loop, TypeOK, Streams
  <2> QED
    BY <1>s, <2>1 DEF Running, Handling
<1>5. CASE LibAdvances
  BY <1>5, <1>s DEF LibAdvances, loop, Running, Handling
<1>6. CASE ReceiveBlock
  BY <1>6, ReceiveBlockKnown
<1>7. CASE EndOfStream
  BY <1>7, <1>n DEF EndOfStream, AttemptFails
<1>8. CASE PruneBlock \/ StoreLib
  BY <1>8, <1>s DEF PruneBlock, StoreLib, ship, loop, Running, Handling
<1>9. CASE CheckPanics \/ HashMismatch \/ CallFails \/ DatabaseFails \/ Restart
  BY <1>9, <1>n DEF CheckPanics, HashMismatch, CallFails, DatabaseFails, Restart, AttemptFails
<1>10. CASE SkipBlock
  BY <1>10, SkipBlockKnown
<1>11. CASE QueueBlock \/ QueueMisread
  BY <1>11, QueuesBlock, QueueBlockKnown
<1>12. CASE SendPayloads
  BY <1>12, SendPayloadsKnown
<1>13. CASE SendForkChoice
  <2>1. /\ HeadKnown' /\ engine'.known = engine.known /\ LatestEvmNum <= Number(engine'.head)
    BY <1>13, ForkChoiceKnown DEF SendForkChoice
  <2>2. /\ pc = "forkChoice" /\ pc' = "recv" /\ batch' = << >> /\ batch # << >>
        /\ UNCHANGED <<executor, block, channel, stream>>
    BY <1>13 DEF SendForkChoice, ship, TypeOK
  <2>3. /\ block # NoBlock /\ KnownUpTo(block.num) /\ block.num \in Nat /\ block.num >= StartBlock
        /\ Len(batch') = 0
    BY <2>2, EmptySeq, LoopTypes DEF RunKnown, Running, TypeOK
  <2>4. \A n \in 0..block.num : Covered(n)'
    BY <2>1, <2>3 DEF KnownUpTo, Covered
  <2>5. block.num \in 0..block.num /\ \A n \in 0..(block.num - 1) : n \in 0..block.num
    BY <2>3
  <2> QED
    BY <2>1, <2>2, <2>3, <2>4, <2>5 DEF RunKnown, LatestEvmNum
<1>14. CASE ResponseLost
  <2>1. ~Running'
    BY <1>14 DEF ResponseLost, AttemptFails, Running
  <2>2. ASSUME NEW hashes, engine' = NewPayloads(engine, hashes)
        PROVE  HeadKnown' /\ RunKnown'
    <3>1. engine'.head = engine.head
      BY <2>2 DEF NewPayloads, TypeOK, Engine
    <3>2. \A k \in 0..Number(engine.head) : CanonHash(k) \in engine'.known
      BY <2>2, LoopTypes, PayloadsKeepKnown DEF HeadKnown
    <3> QED
      BY <2>1, <3>1, <3>2 DEF HeadKnown, KnownUpTo, RunKnown
  <2>3. CASE /\ pc = "forkChoice"
             /\ engine' = ForkChoiceUpdated(engine, batch[Len(batch)].hash, safeHash, lastLibHash)
    BY <2>1, <2>3, ForkChoiceKnown DEF RunKnown
  <2> QED
    BY <1>14, <2>2, <2>3 DEF ResponseLost
<1>15. CASE ExecutorRestarts
  BY <1>15, ExecutorRestartsKnown
<1>16. CASE UNCHANGED vars
  BY <1>16, <1>s DEF vars, ship, loop, Running, Handling
<1> QED
  BY <1>1, <1>2, <1>3, <1>4, <1>5, <1>6, <1>7, <1>8, <1>9, <1>10, <1>11, <1>12, <1>13, <1>14,
     <1>15, <1>16 DEF Next, Start, Translator, Loop, Environment

\* The invariants that the theorems below need, in every reachable state.
LEMMA KnownAlways ==
  ASSUME Translations = {Canonical}, HeadsAreCanonical, IrreversibleOnly, ExecutorStaysUp
  PROVE  Spec => [](TypeOK /\ RunIsChain /\ RunIsCanonical /\ ExecutorIsCanonical /\ HeadKnown
                      /\ RunKnown)
<1>1. Init => HeadKnown /\ RunKnown
  BY InitKnown
<1>2. TypeOK /\ RunIsChain /\ RunIsCanonical /\ ExecutorIsCanonical /\ HeadKnown /\ RunKnown
        /\ [Next]_vars => HeadKnown' /\ RunKnown'
  BY NextKnown
<1> QED
  BY <1>1, <1>2, TypeCorrect, RunStaysChain, RunStaysCanonical, ExecutorStaysCanonical, PTL
     DEF Spec

\* The parent of a payload is a block the executor has, or the one sent before it.
LEMMA PayloadParentKnown ==
  ASSUME TypeOK, RunIsChain, RunIsCanonical, RunKnown, pc = "newPayload", NEW i \in 1..Len(batch)
  PROVE  AncestorAt(batch[i].hash, batch[i].num - 1)
           \in engine.known \cup {batch[j].hash : j \in 1..(i - 1)}
<1> DEFINE n == batch[i].num - 1
<1>1. Running /\ block # NoBlock /\ block.num \in Nat /\ Len(batch) \in Nat
  BY LoopTypes DEF TypeOK, Running
<1>2. /\ batch[i].num \in Nat /\ batch[i].num >= StartBlock
      /\ batch[i].hash = CanonHash(batch[i].num)
  BY <1>1, LoopTypes DEF RunKnown, RunIsCanonical, CanonicalBlock
<1>3. batch[i].num <= block.num
  BY <1>1 DEF RunIsChain, BatchOrdered, BlockLinked, Numbered, IsAncestor
<1>4. n \in 0..batch[i].num /\ n \in 0..(block.num - 1) /\ n \in Nat /\ n < batch[i].num
  BY <1>1, <1>2, <1>3, ClientAssumption
<1>5. AncestorAt(batch[i].hash, n) = CanonHash(n)
  BY <1>2, <1>4, CanonAncestor
<1> HIDE DEF n
<1>6. Covered(n)
  BY <1>1, <1>4 DEF RunKnown
<1>7. CASE CanonHash(n) \in engine.known
  BY <1>5, <1>7 DEF n
<1>8. CASE Queued(n)
  <2>1. PICK j \in 1..Len(batch) : batch[j].num = n
    BY <1>8 DEF Queued
  <2>2. j < i
    <3>1. CASE j > i
      <4>1. i \in 1..(j - 1)
        BY <1>1, <2>1, <3>1
      <4>2. batch[i].num < batch[j].num
        BY <4>1 DEF RunIsChain, BatchOrdered
      <4> QED
        BY <1>2, <1>4, <2>1, <4>2
    <3>2. CASE j = i
      BY <1>2, <1>4, <2>1, <3>2
    <3> QED
      BY <1>1, <2>1, <3>1, <3>2
  <2>3. j \in 1..(i - 1) /\ batch[j].hash = CanonHash(n)
    BY <1>1, <2>1, <2>2 DEF RunIsCanonical, CanonicalBlock
  <2> QED
    BY <1>5, <2>3 DEF n
<1> QED
  BY <1>6, <1>7, <1>8 DEF Covered

\* Every payload connects to a block the executor has executed or to one sent before
\* it: no resume point, no skipped block and no error answer leaves a gap.
THEOREM PayloadsAreConnected ==
  ASSUME Translations = {Canonical}, HeadsAreCanonical, IrreversibleOnly, ExecutorStaysUp
  PROVE  Spec => []PayloadsConnect
<1>1. TypeOK /\ RunIsChain /\ RunIsCanonical /\ RunKnown => PayloadsConnect
  BY PayloadParentKnown DEF PayloadsConnect
<1> QED
  BY <1>1, KnownAlways, PTL

\* Between two blocks the executor has every block taken so far, or it waits in the
\* batch.
THEOREM NothingIsLost ==
  ASSUME Translations = {Canonical}, HeadsAreCanonical, IrreversibleOnly, ExecutorStaysUp
  PROVE  Spec => []NothingLost
<1>1. TypeOK /\ RunIsCanonical /\ RunKnown => NothingLost
  <2> SUFFICES ASSUME TypeOK, RunIsCanonical, RunKnown, pc = "recv", block # NoBlock,
                      NEW n \in 0..Number(block.hash)
               PROVE  AncestorAt(block.hash, n) \in engine.known \cup BatchHashes
    BY DEF NothingLost, Prefixes
  <2>1. block.num \in Nat /\ block.hash = CanonHash(block.num)
    BY LoopTypes DEF RunIsCanonical, CanonicalBlock
  <2>2. n \in 0..block.num /\ (n \in 0..(block.num - 1) \/ n = block.num)
    BY <2>1, CanonHashType
  <2>3. AncestorAt(block.hash, n) = CanonHash(n)
    BY <2>1, <2>2, CanonAncestor
  <2>4. Covered(n)
    BY <2>2 DEF RunKnown, Running, Handling
  <2> QED
    BY <2>3, <2>4, CoveredIsHeld
<1> QED
  BY <1>1, KnownAlways, PTL

\* A run starts with a block of the executor's own chain as parent.
THEOREM ResumesOnChain ==
  ASSUME Translations = {Canonical}, HeadsAreCanonical, IrreversibleOnly, ExecutorStaysUp
  PROVE  Spec => ResumesOnExecutorChain
<1>1. ASSUME TypeOK, RunIsCanonical, ExecutorIsCanonical, HeadKnown, Next,
             pc = "idle", pc' = "recv"
      PROVE  IsAncestor(stream'.parent, engine.head)
  <2>1. PICK latest, finalized : Starts(latest, finalized)
    BY <1>1, OnlyStartResumes, StartsLaunch
  <2>2. /\ stream'.parent = PrevHash(OpenedStore, finalized) /\ OpenedStore \in Store
        /\ finalized \in ReadAs(engine.finalized)
    BY <1>1, <2>1, OpenedStoreType DEF Starts, Launch, TypeOK
  <2>3. \A n \in Keys(OpenedStore) : OpenedStore.blocks[n] = CanonHash(n)
    BY <1>1 DEF RunIsCanonical, OpenedStore, EmptyStore, Keys
  <2> DEFINE next == NextBlock(OpenedStore, finalized)
  <2>4. next > 0 /\ stream'.parent = CanonHash(next - 1)
    BY <2>2, <2>3, ResumeCanonical
  <2>5. next \in Nat /\ Number(engine.head) \in Nat /\ next - 1 <= Number(engine.head)
    BY <1>1, <2>2, ResumesUpToHead, LoopTypes
  <2> HIDE DEF next
  <2>6. next - 1 \in Nat
    BY <2>4, <2>5
  <2> QED
    BY <1>1, <2>4, <2>5, <2>6, CanonOrder DEF ExecutorIsCanonical
<1>2. TypeOK /\ RunIsCanonical /\ ExecutorIsCanonical /\ HeadKnown /\ [Next]_vars =>
        [pc = "idle" /\ pc' = "recv" => IsAncestor(stream'.parent, engine.head)]_vars
  BY <1>1
<1> QED
  BY <1>2, KnownAlways, PTL DEF Spec, ResumesOnExecutorChain

-------------------------------------------------------------------------------
(***************************************************************************)
(* Nothing that validate_hash does not name reaches the executor.          *)
(***************************************************************************)

\* validate_hash is the hash of the start block.
NamesStartBlock == ValidateHash \in Hash /\ Number(ValidateHash) = StartBlock

\* The child of a validated block is validated.
LEMMA ValidatedChild ==
  ASSUME NEW parent \in Hash, NEW content \in Content, Validated(parent)
  PROVE  Validated(Child(parent, content))
<1> DEFINE child == Child(parent, content)
           a == SubSeq(child, 1, StartBlock)
           b == SubSeq(parent, 1, StartBlock)
<1>1. /\ parent \in Seq(Content) /\ Len(parent) \in Nat
      /\ StartBlock \in Nat /\ StartBlock <= Len(parent)
  BY LenProperties, ClientAssumption, StoreAssumption DEF Hash, Validated, Number
<1>2. /\ child \in Seq(Content) /\ Len(child) = Len(parent) + 1
      /\ \A i \in 1..Len(parent) : child[i] = parent[i]
  BY <1>1, AppendProperties DEF Child
<1> HIDE DEF child
<1>3. a \in Seq(Content) /\ Len(a) = StartBlock /\ \A i \in 1..StartBlock : a[i] = child[i]
  BY <1>1, <1>2, SubSeqProperties
<1>4. b \in Seq(Content) /\ Len(b) = StartBlock /\ \A i \in 1..StartBlock : b[i] = parent[i]
  BY <1>1, SubSeqProperties
<1>5. a = b
  <2> HIDE DEF a, b
  <2> QED
    BY <1>1, <1>2, <1>3, <1>4, SeqEqual
<1> QED
  BY <1>1, <1>2, <1>5 DEF Validated, AncestorAt, Number, child

\* The block that validate_hash names is validated.
LEMMA ValidatedStart ==
  ASSUME NamesStartBlock
  PROVE  Validated(ValidateHash)
<1> DEFINE a == SubSeq(ValidateHash, 1, StartBlock)
<1>1. ValidateHash \in Seq(Content) /\ Len(ValidateHash) = StartBlock /\ StartBlock \in Nat
  BY ClientAssumption, StoreAssumption DEF NamesStartBlock, Hash, Number
<1>2. a \in Seq(Content) /\ Len(a) = StartBlock
      /\ \A i \in 1..StartBlock : a[i] = ValidateHash[i]
  BY <1>1, SubSeqProperties
<1>3. a = ValidateHash
  <2> HIDE DEF a
  <2> QED
    BY <1>1, <1>2, SeqEqual
<1> QED
  BY <1>1, <1>3 DEF Validated, AncestorAt, Number

\* A run without blocks holds nothing to validate.
LEMMA NoRunIsValidated ==
  ASSUME NoRun
  PROVE  RunIsValidated'
BY DEF NoRun, NoStream, RunIsValidated

\* Steps that bring no new block.
LEMMA SameRunIsValidated ==
  ASSUME RunIsValidated, UNCHANGED <<channel, block>>, batch' = batch \/ batch' = << >>,
         stream'.parent = stream.parent, stream'.validated = stream.validated,
         stream.status = "off" => stream'.status = "off"
  PROVE  RunIsValidated'
<1>1. ASSUME NEW i \in 1..Len(batch') PROVE Validated(batch'[i].hash)
  <2>1. CASE batch' = << >>
    BY <2>1
  <2>2. CASE batch' = batch
    BY <2>2 DEF RunIsValidated
  <2> QED
    BY <2>1, <2>2
<1> QED
  BY <1>1 DEF RunIsValidated

\* The first block of a stream is compared, and the others descend from it.
LEMMA TranslatorSendsValidated ==
  ASSUME TypeOK, NamesStartBlock, RunIsValidated, TranslatorSends
  PROVE  RunIsValidated'
<1>1. PICK content \in Translations :
        /\ Validates(Child(stream.parent, content))
        /\ channel' = Append(channel, [num |-> stream.next, hash |-> Child(stream.parent, content),
                                       lib |-> shipLib])
        /\ stream' = [stream EXCEPT !.next = @ + 1, !.parent = Child(stream.parent, content),
                                    !.validated = TRUE]
  BY DEF TranslatorSends
<1> DEFINE hash == Child(stream.parent, content)
           b == [num |-> stream.next, hash |-> hash, lib |-> shipLib]
<1>2. content \in Content
  BY ClientAssumption
<1>3. hash \in Hash /\ stream.parent \in Hash /\ stream.next \in Nat /\ shipLib \in Nat
  BY <1>2, ChildType, LoopTypes
<1>4. Validated(hash)
  <2>1. CASE stream.validated
    <3>1. Validated(stream.parent)
      BY <2>1 DEF RunIsValidated, TranslatorSends, CanTranslate
    <3> QED
      BY <1>2, <1>3, <3>1, ValidatedChild
  <2>2. CASE hash = ValidateHash
    BY <2>2, ValidatedStart
  <2> QED
    BY <1>1, <2>1, <2>2 DEF Validates
<1> HIDE DEF hash
<1>5. b \in Block /\ b.hash = hash
  BY <1>3 DEF Block
<1>6. stream'.parent = hash
  BY <1>1 DEF TypeOK, Streams, hash
<1>7. channel' = Append(channel, b)
  BY <1>1 DEF hash
<1> HIDE DEF b
<1>8. ASSUME NEW i \in 1..Len(channel') PROVE Validated(channel'[i].hash)
  <2>1. /\ Len(channel) \in Nat /\ Len(channel') = Len(channel) + 1
        /\ channel'[Len(channel) + 1] = b
        /\ \A j \in 1..Len(channel) : channel'[j] = channel[j]
    BY <1>5, <1>7, LoopTypes, AppendProperties, LenProperties
  <2> QED
    BY <1>4, <1>5, <2>1 DEF RunIsValidated
<1>9. UNCHANGED <<block, batch>>
  BY DEF TranslatorSends, loop
<1> QED
  BY <1>4, <1>6, <1>8, <1>9 DEF RunIsValidated

\* The block taken comes from the channel.
LEMMA ReceiveBlockValidated ==
  ASSUME TypeOK, RunIsValidated, ReceiveBlock
  PROVE  RunIsValidated'
<1>1. /\ channel \in Seq(Block) /\ channel # << >> /\ Len(channel) \in Nat \ {0}
      /\ channel' = Tail(channel) /\ block' = channel[1] /\ UNCHANGED <<batch, stream>>
  BY LoopTypes, EmptySeq, HeadTailProperties DEF ReceiveBlock
<1>2. ASSUME NEW i \in 1..Len(channel') PROVE Validated(channel'[i].hash)
  <2>1. i + 1 \in 1..Len(channel) /\ channel'[i] = channel[i + 1]
    BY <1>1, HeadTailProperties
  <2> QED
    BY <2>1 DEF RunIsValidated
<1>3. Validated(block'.hash)
  BY <1>1 DEF RunIsValidated
<1> QED
  BY <1>1, <1>2, <1>3 DEF RunIsValidated

\* The block queued is the block taken.
LEMMA QueueBlockValidated ==
  ASSUME TypeOK, RunIsValidated, Queues
  PROVE  RunIsValidated'
<1>1. /\ UNCHANGED <<stream, channel, block>> /\ batch' = Append(batch, block)
      /\ batch \in Seq(Block) /\ block \in Block /\ block # NoBlock
  BY DEF Queues, Queue, ship, TypeOK
<1>2. ASSUME NEW i \in 1..Len(batch') PROVE Validated(batch'[i].hash)
  <2>1. /\ Len(batch) \in Nat /\ Len(batch') = Len(batch) + 1
        /\ batch'[Len(batch) + 1] = block
        /\ \A j \in 1..Len(batch) : batch'[j] = batch[j]
    BY <1>1, AppendProperties, LenProperties
  <2> QED
    BY <1>1, <2>1 DEF RunIsValidated
<1> QED
  BY <1>1, <1>2 DEF RunIsValidated

\* Every step keeps all held blocks validated.
LEMMA NextValidated ==
  ASSUME NamesStartBlock
  PROVE  TypeOK /\ RunIsValidated /\ [Next]_vars => RunIsValidated'
<1> SUFFICES ASSUME TypeOK, RunIsValidated, [Next]_vars PROVE RunIsValidated'
  OBVIOUS
<1>1. CASE StartAttempt \/ StartMisread
  <2>1. /\ channel' = << >> /\ batch' = << >> /\ block' = NoBlock
        /\ stream'.validated = (ValidateHash = NoHash)
    BY <1>1 DEF StartAttempt, StartMisread, Launch, ClearedLoop
  <2>2. ~stream'.validated
    BY <2>1, StoreAssumption DEF NamesStartBlock
  <2> QED
    BY <2>1, <2>2 DEF RunIsValidated
<1>2. CASE TranslatorSends
  BY <1>2, TranslatorSendsValidated
<1>3. CASE ReceiveBlock
  BY <1>3, ReceiveBlockValidated
<1>4. CASE QueueBlock \/ QueueMisread
  BY <1>4, QueuesBlock, QueueBlockValidated
<1>5. CASE \/ PruneBlock \/ StoreLib \/ SkipBlock \/ SendPayloads \/ SendForkChoice
           \/ ExecutorRestarts \/ StartAboveMaximumRange \/ StartUnreachable \/ LibAdvances
           \/ UNCHANGED vars
  <2>1. UNCHANGED <<channel, block, stream>> /\ (batch' = batch \/ batch' = << >>)
    BY <1>5 DEF PruneBlock, StoreLib, SkipBlock, SendPayloads, SendForkChoice, ExecutorRestarts,
                StartAboveMaximumRange, StartUnreachable, LibAdvances, vars, ship, loop
  <2> QED
    BY <2>1, SameRunIsValidated
<1>6. CASE CheckPanics \/ HashMismatch \/ CallFails \/ ResponseLost \/ DatabaseFails \/ Restart
  BY <1>6, NoRunIsValidated
     DEF CheckPanics, HashMismatch, CallFails, ResponseLost, DatabaseFails, Restart, AttemptFails
<1>7. CASE TranslatorRejects \/ TranslatorStops \/ StreamEnds \/ StreamFails
  <2>1. /\ UNCHANGED <<channel, block, batch>> /\ stream.status = "running"
        /\ \E end \in {"error", "ended"} : stream' = [stream EXCEPT !.status = end]
    BY <1>7 DEF TranslatorRejects, CanTranslate, TranslatorStops, StreamEnds, StreamFails, loop
  <2>2. stream'.parent = stream.parent /\ stream'.validated = stream.validated
    BY <2>1 DEF TypeOK, Streams
  <2> QED
    BY <2>1, <2>2, SameRunIsValidated
<1>8. CASE EndOfStream
  <2>1. CASE AttemptFails
    BY <2>1, NoRunIsValidated DEF AttemptFails
  <2>2. CASE UNCHANGED <<stream, channel, attempt, loop>>
    BY <2>2, SameRunIsValidated DEF loop
  <2> QED
    BY <1>8, <2>1, <2>2 DEF EndOfStream
<1> QED
  BY <1>1, <1>2, <1>3, <1>4, <1>5, <1>6, <1>7, <1>8
     DEF Next, Start, Translator, Loop, Environment

\* With the hash of the start block as validate_hash, whatever the translation
\* and whatever a run resumes after, no block of another chain is sent: a stream
\* that does not begin with that very block ends before its first block.
THEOREM OnlyValidatedIsSent ==
  ASSUME NamesStartBlock
  PROVE  Spec => []OnlyValidatedChainSent
<1>1. Init => RunIsValidated
  BY DEF Init, NoStream, RunIsValidated
<1>2. TypeOK /\ RunIsValidated /\ [Next]_vars => RunIsValidated'
  BY NextValidated
<1>3. TypeOK /\ RunIsValidated => OnlyValidatedChainSent
  <2> SUFFICES ASSUME TypeOK, RunIsValidated, pc = "newPayload"
               PROVE  AncestorAt(batch[1].hash, StartBlock) = ValidateHash
    BY DEF OnlyValidatedChainSent
  <2>1. 1 \in 1..Len(batch)
    BY EmptySeq, LoopTypes DEF TypeOK
  <2> QED
    BY <2>1 DEF RunIsValidated, Validated
<1> QED
  BY <1>1, <1>2, <1>3, TypeCorrect, PTL DEF Spec

-------------------------------------------------------------------------------
(***************************************************************************)
(* The LIB of a run is the one stored, and never behind the executor.      *)
(***************************************************************************)

\* Numbers the steps need.
LEMMA RangeTypes ==
  ASSUME TypeOK
  PROVE  /\ StartBlock \in Nat \ {0} /\ StopBlock \in Nat /\ BlockDelta \in Nat
         /\ FinalizedNum \in Nat /\ Keys(store) \subseteq Nat
BY LibTypes, ClientAssumption, StoreAssumption DEF FinalizedNum, Keys, Numbers

\* A run begins in its range, and at the start block when no LIB is stored.
LEMMA ResumesInRange ==
  ASSUME NEW opened \in Store, NEW finalized
  PROVE  /\ NextBlock(opened, finalized) >= StartBlock
         /\ opened.lib = NoLib => NextBlock(opened, finalized) = StartBlock
<1>1. StartBlock \in Nat
  BY ClientAssumption, StoreAssumption
<1>2. CASE ResumeKeys(opened, finalized) = {}
  BY <1>1, <1>2 DEF NextBlock
<1>3. CASE ResumeKeys(opened, finalized) # {}
  <2> DEFINE k == CHOOSE x \in ResumeKeys(opened, finalized) : TRUE
  <2>1. k \in ResumeKeys(opened, finalized) /\ NextBlock(opened, finalized) = 1 + k
    BY <1>3 DEF NextBlock
  <2> HIDE DEF k
  <2>2. k \in Keys(opened) /\ opened.lib # NoLib /\ StartBlock <= k + 1
    BY <2>1 DEF ResumeKeys, LastChecked, GetBlockOrPrev, InStartStopRange
  <2>3. k \in Nat
    BY <2>2, StoreAssumption DEF Keys, Numbers
  <2> QED
    BY <1>1, <2>1, <2>2, <2>3
<1> QED
  BY <1>2, <1>3

\* Opening the database keeps it, or empties it.
LEMMA OpenedKeys ==
  /\ OpenedStore = store \/ (OpenedStore.lib = NoLib /\ Keys(OpenedStore) = {})
BY DEF OpenedStore, EmptyStore, Keys

\* The initial states hold nothing.
LEMMA InitTracked == Init => LibTracked
<1> SUFFICES ASSUME Init PROVE LibTracked
  OBVIOUS
<1>1. /\ store.lib = NoLib /\ Keys(store) = {} /\ Len(channel) = 0 /\ block = NoBlock
      /\ stream.next = StartBlock /\ ~Running
  BY EmptySeq DEF Init, EmptyStore, Keys, NoStream, Running
<1>2. StartBlock \in Nat
  BY ClientAssumption, StoreAssumption
<1> QED
  BY <1>1, <1>2 DEF LibTracked, FinalizedIsStored, RowsInRange, FirstRowOnly


\* The executor finalizes nothing above the LIB of the block in hand, which is the
\* one stored; a restart only moves its finalized block back.
LEMMA FinalizedStaysStored ==
  ASSUME TypeOK, RunIsChain, LibInv, RunIsFinal, LibTracked,
         \/ engine'.finalized \in {Genesis, engine.finalized}
         \/ pc = "forkChoice" /\ engine'.finalized = lastLibHash
  PROVE  /\ store.lib # NoLib => FinalizedNum' = 0 \/ FinalizedNum' + BlockDelta <= store.lib
         /\ \A i \in 1..Len(channel) :
              FinalizedNum' = 0 \/ FinalizedNum' + BlockDelta <= channel[i].lib
         /\ block # NoBlock => FinalizedNum' = 0 \/ FinalizedNum' + BlockDelta <= block.lib
<1>1. CASE engine'.finalized \in {Genesis, engine.finalized}
  <2>1. FinalizedNum' = 0 \/ FinalizedNum' = FinalizedNum
    BY <1>1, GenesisType DEF FinalizedNum
  <2> QED
    BY <2>1 DEF LibTracked, FinalizedIsStored, FinalizedUpTo
<1>2. CASE pc = "forkChoice" /\ engine'.finalized = lastLibHash
  <2>1. /\ block # NoBlock /\ lastLibHash = block.hash /\ block.num + BlockDelta <= block.lib
        /\ Number(block.hash) = block.num
    BY <1>2 DEF TypeOK, RunIsFinal, IsFinal, BlockNumWithDelta, RunIsChain, BlockLinked, Numbered
  <2>2. FinalizedNum' = block.num
    BY <1>2, <2>1 DEF FinalizedNum
  <2>3. store.lib = block.lib
    BY <1>2, <2>1 DEF LibTracked, LibOfRun, Running
  <2>4. block.lib \in Nat /\ block.num \in Nat /\ BlockDelta \in Nat
    BY <2>1, LibTypes
  <2>5. \A i \in 1..Len(channel) : channel[i].lib \in Nat /\ block.lib <= channel[i].lib
    BY <2>1, LibTypes DEF LibInv, ChannelLibs
  <2> QED
    BY <2>1, <2>2, <2>3, <2>4, <2>5
<1> QED
  BY <1>1, <1>2

\* The end of a run leaves the database.
LEMMA NoRunTracked ==
  ASSUME LibTracked, NoRun, store' = store, pc' \in {"idle", "failed"},
         store.lib # NoLib => FinalizedNum' = 0 \/ FinalizedNum' + BlockDelta <= store.lib
  PROVE  LibTracked'
<1>1. /\ Len(channel') = 0 /\ block' = NoBlock /\ stream'.next = StartBlock /\ ~Running'
  BY EmptySeq DEF NoRun, NoStream, Running
<1>2. StartBlock \in Nat
  BY ClientAssumption, StoreAssumption
<1>3. FinalizedIsStored'
  BY <1>1 DEF FinalizedIsStored, FinalizedUpTo
<1>4. RowsInRange' /\ FirstRowOnly'
  BY <1>1, <1>2 DEF LibTracked, RowsInRange, FirstRowOnly, Keys
<1> QED
  BY <1>1, <1>3, <1>4 DEF LibTracked

\* Steps that leave the database and the blocks of the run.
LEMMA SameTracked ==
  ASSUME LibTracked, UNCHANGED <<store, channel, block, lib>>, stream'.next = stream.next,
         FinalizedIsStored', Running' => Running,
         pc \in {"prune", "putLib"} => pc' \in {"prune", "putLib"} \/ ~Running'
  PROVE  LibTracked'
<1>1. RowsInRange' /\ FirstRowOnly'
  BY DEF LibTracked, RowsInRange, FirstRowOnly, Keys
<1>2. Running' => LibOfRun'
  BY DEF LibTracked, LibOfRun, FirstNum
<1> QED
  BY <1>1, <1>2 DEF LibTracked

\* A run starts with the LIB stored, and at the start block without one.
LEMMA StartTracked ==
  ASSUME TypeOK, LibTracked, StartAttempt \/ StartMisread
  PROVE  LibTracked'
<1>0. PICK latest, finalized : Starts(latest, finalized)
  BY StartsLaunch
<1>1. /\ store' = OpenedStore /\ engine' = engine /\ block' = NoBlock /\ channel' = << >>
      /\ stream'.next = NextBlock(OpenedStore, finalized) /\ Len(channel') = 0
      /\ lib' = IF OpenedStore.lib = NoLib THEN 0 ELSE OpenedStore.lib
  BY <1>0, EmptySeq DEF Starts, Launch, ClearedLoop
<1>2. OpenedStore \in Store
  BY OpenedStoreType DEF TypeOK
<1>3. FinalizedIsStored'
  BY <1>1, OpenedKeys DEF LibTracked, FinalizedIsStored, FinalizedUpTo, FinalizedNum
<1>4. RowsInRange' /\ FirstRowOnly'
  BY <1>1, <1>2, OpenedKeys, ResumesInRange DEF LibTracked, RowsInRange, FirstRowOnly, Keys
<1>5. LibOfRun'
  BY <1>1, <1>2, ResumesInRange DEF LibOfRun, FirstNum
<1> QED
  BY <1>3, <1>4, <1>5 DEF LibTracked

\* An attempt that does not start leaves the database as opened.
LEMMA StartFailsTracked ==
  ASSUME LibTracked, StartAboveMaximumRange \/ StartUnreachable
  PROVE  LibTracked'
<1>1. /\ store' = OpenedStore /\ UNCHANGED <<engine, stream, channel, block>> /\ ~Running'
  BY DEF StartAboveMaximumRange, StartUnreachable, ship, loop, Running
<1>2. FinalizedIsStored'
  BY <1>1, OpenedKeys DEF LibTracked, FinalizedIsStored, FinalizedUpTo, FinalizedNum
<1>3. RowsInRange' /\ FirstRowOnly'
  BY <1>1, OpenedKeys DEF LibTracked, RowsInRange, FirstRowOnly, Keys
<1> QED
  BY <1>1, <1>2, <1>3 DEF LibTracked

\* What the translator sends is in range, with a LIB the executor is not above.
LEMMA TranslatorSendsTracked ==
  ASSUME TypeOK, LibInv, LibTracked, TranslatorSends
  PROVE  LibTracked'
<1>1. PICK b : /\ channel' = Append(channel, b) /\ b.num = stream.next /\ b.lib = shipLib
               /\ b \in Block
  <2>1. PICK content \in Translations :
          channel' = Append(channel, [num |-> stream.next,
                                      hash |-> Child(stream.parent, content), lib |-> shipLib])
    BY DEF TranslatorSends
  <2>2. Child(stream.parent, content) \in Hash /\ stream.next \in Nat /\ shipLib \in Nat
    BY ChildType, ClientAssumption, LoopTypes
  <2> QED
    BY <2>1, <2>2 DEF Block
<1>2. /\ UNCHANGED <<store, engine, block, lib, pc>> /\ stream'.next = stream.next + 1
      /\ stream.next <= StopBlock /\ stream.next \in Nat
  BY LoopTypes DEF TranslatorSends, CanTranslate, loop, TypeOK, Streams
<1>3. /\ Len(channel) \in Nat /\ Len(channel') = Len(channel) + 1
      /\ channel'[Len(channel) + 1] = b
      /\ \A i \in 1..Len(channel) : channel'[i] = channel[i]
  BY <1>1, LoopTypes, AppendProperties, LenProperties
<1>4. b.num \in BlockRange /\ FinalizedUpTo(b.lib)
  BY <1>1, <1>2, RangeTypes
     DEF LibTracked, RowsInRange, BlockRange, FinalizedUpTo, FinalizedNum, LibInv, Irreversible
<1>5. ASSUME NEW i \in 1..Len(channel')
      PROVE  channel'[i].num \in BlockRange /\ FinalizedUpTo(channel'[i].lib)
  <2>1. CASE i \in 1..Len(channel)
    BY <1>3, <2>1 DEF LibTracked, RowsInRange, FinalizedIsStored
  <2>2. CASE i = Len(channel) + 1
    BY <1>3, <1>4, <2>2
  <2> QED
    BY <1>3, <2>1, <2>2
<1>6. FinalizedIsStored'
  BY <1>2, <1>5 DEF LibTracked, FinalizedIsStored, FinalizedUpTo, FinalizedNum
<1>7. RowsInRange' /\ FirstRowOnly'
  BY <1>2, <1>5, RangeTypes DEF LibTracked, RowsInRange, FirstRowOnly, Keys
<1>8. Running' => LibOfRun'
  BY <1>2, SendsKeepFirst DEF LibTracked, LibOfRun, Running
<1> QED
  BY <1>6, <1>7, <1>8 DEF LibTracked

\* The rows after a block is stored under its number.
LEMMA PutRows ==
  ASSUME NEW st \in Store, NEW b \in Block, NEW k
  PROVE  /\ k \in Keys(PutBlock(st, b)) =>
              \/ k = b.num /\ PutBlock(st, b).blocks[k] = b.hash
              \/ k # b.num /\ k \in Keys(st) /\ PutBlock(st, b).blocks[k] = st.blocks[k]
         /\ k \in Keys(st) => k \in Keys(PutBlock(st, b))
<1>1. PutBlock(st, b).blocks = [st.blocks EXCEPT ![b.num] = b.hash]
  BY DEF PutBlock, Store
<1>2. b.hash # NoHash
  BY StoreAssumption DEF Block
<1>3. ASSUME k \in Numbers
      PROVE  PutBlock(st, b).blocks[k] = IF k = b.num THEN b.hash ELSE st.blocks[k]
  BY <1>1, <1>3 DEF Store
<1> QED
  BY <1>2, <1>3 DEF Keys

\* The block taken brings its row.
LEMMA ReceiveTracked ==
  ASSUME TypeOK, LibTracked, ReceiveBlock
  PROVE  LibTracked'
<1>1. /\ channel \in Seq(Block) /\ channel # << >> /\ Len(channel) \in Nat \ {0}
      /\ channel' = Tail(channel) /\ block' = channel[1] /\ block' \in Block
      /\ block' # NoBlock /\ pc' = "prune" /\ pc = "recv" /\ store' = PutBlock(store, block')
      /\ UNCHANGED <<engine, lib, stream>>
  BY LoopTypes, EmptySeq, HeadTailProperties, ElementOfSeq, ClientAssumption DEF ReceiveBlock
<1>2. /\ \A i \in 1..Len(channel') : i + 1 \in 1..Len(channel) /\ channel'[i] = channel[i + 1]
      /\ 1 \in 1..Len(channel)
  BY <1>1, HeadTailProperties
<1>3. store'.lib = store.lib /\ store \in Store
  BY <1>1 DEF PutBlock, TypeOK, Store
<1>4. FinalizedIsStored'
  BY <1>1, <1>2, <1>3 DEF LibTracked, FinalizedIsStored, FinalizedUpTo, FinalizedNum
<1>5. \A k \in Keys(store') : k = block'.num \/ k \in Keys(store)
  BY <1>1, <1>3, PutRows
<1>6. RowsInRange'
  BY <1>1, <1>2, <1>5 DEF LibTracked, RowsInRange
<1>7. store.lib = NoLib => block = NoBlock /\ block'.num = StartBlock
  <2>1. block # NoBlock => store.lib = block.lib /\ block.lib \in Nat
    BY <1>1, LibTypes DEF LibTracked, LibOfRun, Running
  <2> QED
    BY <1>1, <2>1, LibTypes DEF LibTracked, LibOfRun, FirstNum, Running
<1>8. FirstRowOnly' /\ LibOfRun'
  BY <1>1, <1>3, <1>5, <1>7 DEF LibTracked, FirstRowOnly, LibOfRun, Running
<1> QED
  BY <1>4, <1>6, <1>8 DEF LibTracked

\* Pruning removes a row, storing the LIB of the block none.
LEMMA StoreStepsTracked ==
  ASSUME TypeOK, LibTracked, RunIsFinal, PruneBlock \/ StoreLib
  PROVE  LibTracked'
<1>1. /\ UNCHANGED <<engine, stream, channel, block>> /\ block # NoBlock /\ Running
      /\ block.lib \in Nat
  BY LibTypes DEF PruneBlock, StoreLib, ship, loop, TypeOK, Running
<1>2. \A k \in Keys(store') : k \in Keys(store)
  BY DEF PruneBlock, StoreLib, DeleteBlock, PutLib, TypeOK, Store, Keys
<1>3. RowsInRange'
  BY <1>1, <1>2 DEF LibTracked, RowsInRange
<1>4. CASE PruneBlock
  <2>1. store'.lib = store.lib /\ lib' = lib /\ pc' = "putLib"
    BY <1>4 DEF PruneBlock, DeleteBlock, TypeOK, Store, loop
  <2>2. FinalizedIsStored'
    BY <1>1, <2>1 DEF LibTracked, FinalizedIsStored, FinalizedUpTo, FinalizedNum
  <2>3. FirstRowOnly' /\ LibOfRun'
    BY <1>1, <1>2, <2>1 DEF LibTracked, FirstRowOnly, LibOfRun
  <2> QED
    BY <1>3, <2>2, <2>3 DEF LibTracked
<1>5. CASE StoreLib
  <2>1. block.lib # 0
    BY <1>1, LibTypes, RangeTypes
       DEF RunIsFinal, IsFinal, BlockNumWithDelta, LibTracked, RowsInRange, BlockRange
  <2>2. lib' = block.lib /\ (isNewLib' <=> lib # block.lib)
        /\ store' = IF isNewLib' THEN PutLib(store, block) ELSE store
    BY <1>5 DEF StoreLib
  <2>3. store'.lib = block.lib
    <3>1. CASE lib # block.lib
      BY <2>2, <3>1 DEF PutLib, TypeOK, Store
    <3>2. CASE lib = block.lib
      BY <1>1, <2>1, <2>2, <3>2 DEF LibTracked, LibOfRun
    <3> QED
      BY <3>1, <3>2
  <2>4. store'.lib # NoLib
    BY <1>1, <2>3, LibTypes
  <2>5. FinalizedIsStored'
    BY <1>1, <2>3 DEF LibTracked, FinalizedIsStored, FinalizedUpTo, FinalizedNum
  <2>6. FirstRowOnly' /\ LibOfRun'
    BY <1>1, <2>2, <2>3, <2>4 DEF FirstRowOnly, LibOfRun
  <2> QED
    BY <1>3, <2>5, <2>6 DEF LibTracked
<1> QED
  BY <1>4, <1>5

\* Every step keeps track of the LIB.
LEMMA NextTracked ==
  TypeOK /\ RunIsChain /\ LibInv /\ RunIsFinal /\ LibTracked /\ [Next]_vars => LibTracked'
<1> SUFFICES ASSUME TypeOK, RunIsChain, LibInv, RunIsFinal, LibTracked, [Next]_vars
             PROVE  LibTracked'
  OBVIOUS
<1>f. ASSUME \/ engine'.finalized \in {Genesis, engine.finalized}
             \/ pc = "forkChoice" /\ engine'.finalized = lastLibHash
      PROVE  /\ UNCHANGED <<store, channel, block>> => FinalizedIsStored'
             /\ AttemptFails /\ store' = store => LibTracked'
  <2>1. UNCHANGED <<store, channel, block>> => FinalizedIsStored'
    BY <1>f, FinalizedStaysStored DEF FinalizedIsStored, FinalizedUpTo
  <2>2. AttemptFails /\ store' = store => LibTracked'
    BY <1>f, FinalizedStaysStored, NoRunTracked DEF AttemptFails
  <2> QED
    BY <2>1, <2>2
<1>s. ASSUME UNCHANGED <<store, channel, block, lib>>, engine'.finalized = engine.finalized,
             stream'.next = stream.next, Running' => Running,
             pc \in {"prune", "putLib"} => pc' \in {"prune", "putLib"} \/ ~Running'
      PROVE  LibTracked'
  BY <1>f, <1>s, SameTracked
<1>1. CASE StartAttempt \/ StartMisread
  BY <1>1, StartTracked
<1>2. CASE StartAboveMaximumRange \/ StartUnreachable
  BY <1>2, StartFailsTracked
<1>3. CASE TranslatorSends
  BY <1>3, TranslatorSendsTracked
<1>4. CASE TranslatorRejects \/ TranslatorStops \/ StreamEnds \/ StreamFails
  <2>1. /\ UNCHANGED <<store, engine, channel, block, lib, pc>>
        /\ \E end \in {"error", "ended"} : stream' = [stream EXCEPT !.status = end]
    BY <1>4 DEF TranslatorRejects, CanTranslate, TranslatorStops, StreamEnds, StreamFails, loop
  <2>2. stream'.next = stream.next
    BY <2>1 DEF TypeOK, Streams
  <2> QED
    BY <1>s, <2>1, <2>2 DEF Running
<1>5. CASE ReceiveBlock
  BY <1>5, ReceiveTracked
<1>6. CASE PruneBlock \/ StoreLib
  BY <1>6, StoreStepsTracked
<1>7. CASE SkipBlock \/ QueueBlock \/ QueueMisread \/ LibAdvances \/ UNCHANGED vars
  <2>1. /\ UNCHANGED <<store, engine, channel, block, lib, stream>>
        /\ pc' = pc \/ (pc = "check" /\ Running)
    BY <1>7 DEF SkipBlock, QueueBlock, QueueMisread, Queue, LibAdvances, vars, ship, loop, Running
  <2> QED
    BY <1>s, <2>1 DEF Running
<1>8. CASE SendPayloads \/ SendForkChoice
  <2>1. /\ UNCHANGED <<store, channel, block, lib, stream>>
        /\ Running /\ pc \notin {"prune", "putLib"}
    BY <1>8 DEF SendPayloads, SendForkChoice, ship, Running
  <2>2. \/ engine'.finalized = engine.finalized
        \/ pc = "forkChoice" /\ engine'.finalized = lastLibHash
    BY <1>8 DEF SendPayloads, SendForkChoice, NewPayloads, ForkChoiceUpdated, TypeOK, Engine
  <2> QED
    BY <1>f, <2>1, <2>2, SameTracked
<1>9. CASE CheckPanics \/ HashMismatch \/ CallFails \/ DatabaseFails
  BY <1>9, <1>f DEF CheckPanics, HashMismatch, CallFails, DatabaseFails
<1>10. CASE ResponseLost
  <2>1. \/ engine'.finalized = engine.finalized
        \/ pc = "forkChoice" /\ engine'.finalized = lastLibHash
    BY <1>10 DEF ResponseLost, NewPayloads, ForkChoiceUpdated, TypeOK, Engine
  <2> QED
    BY <1>10, <1>f, <2>1 DEF ResponseLost
<1>11. CASE EndOfStream
  <2>1. engine' = engine /\ store' = store
    BY <1>11 DEF EndOfStream
  <2>2. CASE AttemptFails
    BY <1>f, <2>1, <2>2
  <2>3. CASE UNCHANGED <<stream, channel, loop>> /\ pc' = "finished"
    BY <1>s, <2>1, <2>3 DEF loop, Running
  <2> QED
    BY <1>11, <2>2, <2>3 DEF EndOfStream
<1>12. CASE Restart
  BY <1>12, <1>f, FinalizedStaysStored, NoRunTracked DEF Restart
<1>13. CASE ExecutorRestarts
  <2>1. /\ UNCHANGED <<store, channel, block, lib, stream, pc>>
        /\ engine' \in Restarted(engine)
    BY <1>13 DEF ExecutorRestarts, ship, loop
  <2>2. engine'.finalized \in {Genesis, engine.finalized}
    BY <2>1 DEF Restarted, EngineAt
  <2> QED
    BY <1>f, <2>1, <2>2, SameTracked DEF Running
<1> QED
  BY <1>1, <1>2, <1>3, <1>4, <1>5, <1>6, <1>7, <1>8, <1>9, <1>10, <1>11, <1>12, <1>13
     DEF Next, Start, Translator, Loop, Environment

-------------------------------------------------------------------------------
(***************************************************************************)
(* The rows below a resume point are its ancestors.                        *)
(***************************************************************************)

\* Rows at or below a height, when all there are ancestors of one hash.
LEMMA RowsAreChain ==
  ASSUME NEW st \in Store, \A n \in Keys(st) : Number(st.blocks[n]) = n,
         NEW h \in Hash, NEW k \in Keys(st), \A j \in Keys(st) : j <= k => IsAncestor(st.blocks[j], h)
  PROVE  \A j \in Keys(st) : j <= k => IsAncestor(st.blocks[j], st.blocks[k])
<1> SUFFICES ASSUME NEW j \in Keys(st), j <= k PROVE IsAncestor(st.blocks[j], st.blocks[k])
  OBVIOUS
<1>1. /\ st.blocks[j] \in Hash /\ st.blocks[k] \in Hash
      /\ Number(st.blocks[j]) = j /\ Number(st.blocks[k]) = k
  BY DEF Keys, Store
<1>2. k <= k
  BY StoreAssumption DEF Keys, Numbers
<1> QED
  BY <1>1, <1>2, AncestorsOrdered

\* With a block in hand, the rows a run may resume at are those it has reached.
RowsOfBlock ==
  /\ block # NoBlock
  /\ RowsBelow(block.num, block.hash)
  /\ store.lib # NoLib => \A k \in ResumeRows : k <= block.num

\* They are a chain then.
LEMMA ReachedAreChains ==
  TypeOK /\ RunIsChain /\ LibTracked /\ Running /\ RowsOfBlock => ResumeRowsAreChains
<1> SUFFICES ASSUME TypeOK, RunIsChain, LibTracked, Running, RowsOfBlock,
                    NEW k \in ResumeRows
             PROVE  RowsBelow(k, store.blocks[k])
  BY DEF ResumeRowsAreChains
<1>1. /\ k \in Keys(store) /\ Keys(store) \subseteq Nat /\ block.num \in Nat
      /\ block # NoBlock
  BY RangeTypes, LibTypes DEF ResumeRows, GetBlockOrPrev, RowsOfBlock
<1>2. k <= block.num
  BY <1>1 DEF RowsOfBlock, LibTracked, FirstRowOnly, LibOfRun
<1>3. \A j \in Keys(store) : j <= k => IsAncestor(store.blocks[j], block.hash)
  BY <1>1, <1>2 DEF RowsBelow, RowsOfBlock
<1>4. block.hash \in Hash /\ store \in Store
  BY <1>1, LoopTypes DEF TypeOK
<1> QED
  BY <1>1, <1>2, <1>3, <1>4, RowsAreChain DEF RowsBelow, RunIsChain, RowsNumbered

\* So they are after a step.
LEMMA ReachedBecomeChains ==
  (TypeOK /\ RunIsChain /\ LibTracked /\ Running /\ RowsOfBlock => ResumeRowsAreChains)'
BY ReachedAreChains, PTL

\* When the executor finalizes a block, or forgets that it has, the rows at or
\* below it are still one chain.
LEMMA FinalizedRowsAreChain ==
  ASSUME TypeOK, RunIsChain, LibTracked, RunIsFinal, RowsOnChain, store' = store,
         \/ engine'.finalized \in {Genesis, engine.finalized}
         \/ pc = "forkChoice" /\ engine'.finalized = lastLibHash
  PROVE  /\ \A k \in ResumeRows' : RowsBelow(k, store.blocks[k])
         /\ Running /\ store.lib # NoLib => \A k \in ResumeRows' : k <= Reached
<1>0. ResumeRows' = {k \in GetBlockOrPrev(store, FinalizedNum') : k < StopBlock}
  BY DEF ResumeRows
<1>1. CASE engine'.finalized = engine.finalized
  <2>1. ResumeRows' = ResumeRows
    BY <1>1 DEF ResumeRows, FinalizedNum
  <2> QED
    BY <2>1 DEF RowsOnChain, ResumeRowsAreChains, RowsOfRun
<1>2. CASE engine'.finalized = Genesis
  <2>1. FinalizedNum' = 0
    BY <1>2, GenesisType DEF FinalizedNum
  <2>2. \A k \in ResumeRows' : k \in Keys(store) /\ k <= 0
    BY <1>0, <2>1 DEF GetBlockOrPrev
  <2>3. \A k \in Keys(store) : k \in Nat /\ k >= StartBlock
    BY RangeTypes DEF LibTracked, RowsInRange, BlockRange
  <2> QED
    BY <2>2, <2>3, RangeTypes
<1>3. CASE pc = "forkChoice" /\ engine'.finalized = lastLibHash
  <2>1. /\ block # NoBlock /\ lastLibHash = block.hash /\ Number(block.hash) = block.num
        /\ Running /\ block.num \in Nat /\ block.hash \in Hash
    BY <1>3, LoopTypes DEF TypeOK, RunIsFinal, RunIsChain, BlockLinked, Numbered, Running
  <2>2. FinalizedNum' = block.num
    BY <1>3, <2>1 DEF FinalizedNum
  <2>3. Reached = block.num /\ RowsBelow(block.num, block.hash)
    BY <2>1 DEF Reached, ReachedHash, RowsOnChain, RowsOfRun
  <2>4. ASSUME NEW k \in ResumeRows'
        PROVE  k <= block.num /\ RowsBelow(k, store.blocks[k])
    <3>1. k \in Keys(store) /\ k <= block.num /\ Keys(store) \subseteq Nat /\ store \in Store
      BY <1>0, <2>2, RangeTypes DEF GetBlockOrPrev, TypeOK
    <3>2. \A j \in Keys(store) : j <= k => IsAncestor(store.blocks[j], block.hash)
      BY <2>1, <2>3, <3>1 DEF RowsBelow
    <3> QED
      BY <2>1, <3>1, <3>2, RowsAreChain DEF RowsBelow, RunIsChain, RowsNumbered
  <2> QED
    BY <2>3, <2>4
<1> QED
  BY <1>1, <1>2, <1>3

\* Steps that leave the database and the place a run has reached.
LEMMA SameRows ==
  ASSUME TypeOK, RunIsChain, LibTracked, RunIsFinal, RowsOnChain, store' = store,
         \/ engine'.finalized \in {Genesis, engine.finalized}
         \/ pc = "forkChoice" /\ engine'.finalized = lastLibHash,
         Running' => /\ Running /\ Reached' = Reached /\ ReachedHash' = ReachedHash
                     /\ pc' \in {"newPayload", "forkChoice"} =>
                          /\ pc \in {"newPayload", "forkChoice"}
                          /\ safeHash' = safeHash /\ block' = block
  PROVE  RowsOnChain'
<1>1. /\ \A k \in ResumeRows' : RowsBelow(k, store.blocks[k])
      /\ Running /\ store.lib # NoLib => \A k \in ResumeRows' : k <= Reached
  BY FinalizedRowsAreChain
<1>2. ResumeRowsAreChains'
  BY <1>1 DEF ResumeRowsAreChains, RowsBelow
<1>3. ASSUME Running' PROVE RowsOfRun'
  <2>1. RowsBelow(Reached, ReachedHash)'
    BY <1>3 DEF RowsOnChain, RowsOfRun, RowsBelow
  <2>2. store'.lib # NoLib => \A k \in ResumeRows' : k <= Reached'
    BY <1>1, <1>3
  <2>3. pc' \in {"newPayload", "forkChoice"} => IsAncestor(safeHash', block'.hash)
    BY <1>3 DEF RowsOnChain, RowsOfRun
  <2> QED
    BY <2>1, <2>2, <2>3 DEF RowsOfRun
<1> QED
  BY <1>2, <1>3 DEF RowsOnChain

\* The initial database is empty.
LEMMA InitRows == Init => RowsOnChain
<1> SUFFICES ASSUME Init PROVE RowsOnChain
  OBVIOUS
<1>1. Keys(store) = {} /\ ~Running
  BY DEF Init, EmptyStore, Keys, Running
<1> QED
  BY <1>1 DEF RowsOnChain, ResumeRowsAreChains, ResumeRows, GetBlockOrPrev

\* A database just opened has the rows it had, or none.
LEMMA OpenedRows ==
  ASSUME RowsOnChain, store' = OpenedStore, engine' = engine
  PROVE  ResumeRowsAreChains'
<1>1. CASE OpenedStore = store
  BY <1>1 DEF RowsOnChain, ResumeRowsAreChains, RowsBelow, ResumeRows, FinalizedNum
<1>2. CASE Keys(OpenedStore) = {}
  BY <1>2 DEF ResumeRowsAreChains, ResumeRows, GetBlockOrPrev
<1> QED
  BY <1>1, <1>2, OpenedKeys

\* Where a run looks for the row to resume after: the LIB stored is never below
\* the executor's finalized block, and that block is the one the run has read.
LEMMA ResumesAtFinalizedRow ==
  ASSUME TypeOK, LibTracked, NEW st, st = store \/ st.lib = NoLib
  PROVE  LastChecked(st, engine.finalized) = IF st.lib = NoLib THEN {} ELSE GetBlockOrPrev(st, FinalizedNum)
<1>1. CASE st.lib = NoLib
  BY <1>1 DEF LastChecked
<1>2. CASE st.lib # NoLib
  <2>1. st = store /\ st.lib \in Nat /\ FinalizedNum \in Nat /\ BlockDelta \in Nat
    BY <1>2, LibTypes, RangeTypes
  <2>2. FinalizedNum = 0 \/ FinalizedNum + BlockDelta <= st.lib
    BY <1>2, <2>1 DEF LibTracked, FinalizedIsStored, FinalizedUpTo
  <2>3. (IF st.lib + BlockDelta < FinalizedNum THEN st.lib + BlockDelta ELSE FinalizedNum)
          = FinalizedNum
    BY <2>1, <2>2
  <2>4. engine.finalized # NoHash
    BY StoreAssumption DEF TypeOK, Engine
  <2> QED
    BY <1>2, <2>3, <2>4 DEF LastChecked, FinalizedNum
<1> QED
  BY <1>1, <1>2

\* A run starts above rows that are ancestors of the one it resumes after.
LEMMA StartRows ==
  ASSUME TypeOK, RunIsChain, LibTracked, RowsOnChain, StartAttempt \/ StartMisread, ~misplaced'
  PROVE  RowsOnChain'
<1>0. PICK latest : Starts(latest, engine.finalized)
  BY StartsLaunch DEF Starts
<1>1. /\ store' = OpenedStore /\ engine' = engine /\ block' = NoBlock /\ channel' = << >>
      /\ stream'.next = NextBlock(OpenedStore, engine.finalized)
      /\ stream'.parent = PrevHash(OpenedStore, engine.finalized)
      /\ pc' = "recv"
  BY <1>0 DEF Starts, Launch, ClearedLoop
<1>2. /\ Reached' = NextBlock(OpenedStore, engine.finalized) - 1
      /\ ReachedHash' = PrevHash(OpenedStore, engine.finalized)
  BY <1>1 DEF Reached, ReachedHash, FirstNum
<1>3. /\ Keys(OpenedStore) \subseteq Keys(store) /\ Keys(store) \subseteq BlockRange
      /\ BlockRange \subseteq Nat /\ StartBlock \in Nat
  BY OpenedKeys, RangeTypes DEF LibTracked, RowsInRange, BlockRange
<1>4. LastChecked(OpenedStore, engine.finalized) =
        IF OpenedStore.lib = NoLib THEN {} ELSE GetBlockOrPrev(OpenedStore, FinalizedNum)
  BY OpenedKeys, ResumesAtFinalizedRow
<1>5. ResumeRows' = {k \in GetBlockOrPrev(OpenedStore, FinalizedNum) : k < StopBlock}
  BY <1>1 DEF ResumeRows, FinalizedNum
<1>6. CASE ResumeKeys(OpenedStore, engine.finalized) = {}
  <2>1. NextBlock(OpenedStore, engine.finalized) = StartBlock
    BY <1>6 DEF NextBlock
  <2>2. RowsBelow(Reached, ReachedHash)'
    BY <1>1, <1>2, <1>3, <2>1 DEF RowsBelow, BlockRange
  <2>3. OpenedStore.lib # NoLib => ResumeRows' = {}
    <3> SUFFICES ASSUME OpenedStore.lib # NoLib, NEW k \in ResumeRows' PROVE FALSE
      OBVIOUS
    <3>1. k \in LastChecked(OpenedStore, engine.finalized) /\ k \in Keys(OpenedStore) /\ k < StopBlock
      BY <1>4, <1>5 DEF GetBlockOrPrev
    <3>2. InStartStopRange(k + 1)
      BY <1>3, <3>1, RangeTypes DEF InStartStopRange, BlockRange
    <3> QED
      BY <1>6, <3>1, <3>2 DEF ResumeKeys
  <2>4. ResumeRowsAreChains'
    BY <1>1, OpenedRows
  <2> QED
    BY <1>1, <2>2, <2>3, <2>4 DEF RowsOnChain, RowsOfRun
<1>7. CASE ResumeKeys(OpenedStore, engine.finalized) # {}
  <2> DEFINE r == CHOOSE x \in ResumeKeys(OpenedStore, engine.finalized) : TRUE
  <2>1. /\ r \in ResumeKeys(OpenedStore, engine.finalized)
        /\ NextBlock(OpenedStore, engine.finalized) = 1 + r
        /\ PrevHash(OpenedStore, engine.finalized) = OpenedStore.blocks[r]
    BY <1>7 DEF NextBlock, PrevHash, HashOr
  <2> HIDE DEF r
  <2>2. /\ r \in GetBlockOrPrev(OpenedStore, FinalizedNum) /\ r + 1 <= StopBlock
        /\ OpenedStore.lib # NoLib
    BY <1>4, <2>1 DEF ResumeKeys, InStartStopRange
  <2>3. r \in Keys(OpenedStore) /\ r \in Nat
    BY <1>3, <2>2 DEF GetBlockOrPrev
  <2>4. r \in ResumeRows'
    BY <1>5, <2>2, <2>3, RangeTypes
  <2>5. ResumeRowsAreChains'
    BY <1>1, OpenedRows
  <2>6. Reached' = r /\ ReachedHash' = store'.blocks[r]
    BY <1>1, <1>2, <2>1, <2>3
  <2>7. RowsBelow(Reached, ReachedHash)'
    BY <2>4, <2>5, <2>6 DEF ResumeRowsAreChains, RowsBelow
  <2>8. \A k \in ResumeRows' : k <= r
    BY <1>5, <2>2 DEF GetBlockOrPrev
  <2> QED
    BY <1>1, <2>5, <2>6, <2>7, <2>8 DEF RowsOnChain, RowsOfRun
<1> QED
  BY <1>6, <1>7

\* A block sent leaves the place a run has reached.
LEMMA TranslatorSendsRows ==
  ASSUME TypeOK, RunIsChain, LibTracked, RunIsFinal, RowsOnChain, TranslatorSends
  PROVE  RowsOnChain'
<1>1. PICK content \in Translations :
        channel' = Append(channel, [num |-> stream.next, hash |-> Child(stream.parent, content),
                                    lib |-> shipLib])
  BY DEF TranslatorSends
<1> DEFINE hash == Child(stream.parent, content)
           b == [num |-> stream.next, hash |-> hash, lib |-> shipLib]
<1>2. /\ hash \in Hash /\ stream.parent \in Hash /\ stream.next \in Nat
      /\ AncestorAt(hash, Number(stream.parent)) = stream.parent
  BY ChildType, ClientAssumption, LoopTypes
<1>3. stream.next - 1 = Number(stream.parent)
  BY <1>2, NumberType DEF RunIsChain, StreamNumbered, TranslatorSends, CanTranslate
<1>4. b \in Block
  BY <1>2, LoopTypes DEF Block
<1>5. UNCHANGED <<store, engine, block, pc, safeHash>>
  BY DEF TranslatorSends, loop
<1>6. Reached' = Reached
  BY <1>5, SendsKeepFirst DEF Reached
<1>7. ReachedHash' = ReachedHash
  <2> HIDE DEF hash
  <2>1. b.hash = hash /\ b.num = stream.next
    OBVIOUS
  <2>2. channel' = Append(channel, b)
    BY <1>1 DEF hash
  <2> HIDE DEF b
  <2>3. /\ Len(channel) \in Nat /\ Len(channel') = Len(channel) + 1 /\ channel' \in Seq(Block)
        /\ channel'[Len(channel) + 1] = b
        /\ \A j \in 1..Len(channel) : channel'[j] = channel[j]
    BY <1>4, <2>2, LoopTypes, AppendProperties, LenProperties
  <2>4. channel' # << >>
    BY <2>3, EmptySeq
  <2>5. CASE channel = << >>
    <3>1. channel'[1] = b
      BY <2>3, <2>5, EmptySeq
    <3> QED
      BY <1>2, <1>3, <1>5, <2>1, <2>4, <2>5, <3>1 DEF ReachedHash, hash
  <2>6. CASE channel # << >>
    <3>1. 1 \in 1..Len(channel)
      BY <2>3, <2>6, LoopTypes, EmptySeq
    <3> QED
      BY <1>5, <2>3, <2>4, <2>6, <3>1 DEF ReachedHash
  <2> QED
    BY <2>5, <2>6
<1> QED
  BY <1>5, <1>6, <1>7, SameRows DEF Running

\* The block taken is the child of the one reached, and its row replaces an older
\* one of that number.
LEMMA ReceiveRows ==
  ASSUME TypeOK, TypeOK', RunIsChain, RunIsChain', LibTracked, LibTracked', RowsOnChain, ReceiveBlock
  PROVE  RowsOnChain'
<1>1. /\ channel \in Seq(Block) /\ channel # << >> /\ 1 \in 1..Len(channel)
      /\ block' = channel[1] /\ block' \in Block /\ block' # NoBlock
      /\ pc' = "prune" /\ pc = "recv" /\ store' = PutBlock(store, block') /\ engine' = engine
  BY LoopTypes, EmptySeq, LenProperties, ElementOfSeq, ClientAssumption DEF ReceiveBlock
<1>2. /\ block'.hash \in Hash /\ block'.num \in Nat /\ Number(block'.hash) = block'.num
      /\ block'.num >= StartBlock /\ StartBlock \in Nat \ {0} /\ store'.lib = store.lib
      /\ store \in Store
  <2>1. block'.hash \in Hash /\ block'.num \in Nat
    BY <1>1 DEF Block
  <2>2. Number(block'.hash) = block'.num
    BY <1>1 DEF RunIsChain, ChannelLinked, LinkedSeq, Numbered
  <2>3. block'.num >= StartBlock /\ StartBlock \in Nat \ {0}
    BY <1>1, RangeTypes DEF LibTracked, RowsInRange, BlockRange
  <2>4. store'.lib = store.lib /\ store \in Store
    BY <1>1 DEF PutBlock, TypeOK, Store
  <2> QED
    BY <2>1, <2>2, <2>3, <2>4
<1>3. /\ Reached = block'.num - 1
      /\ ReachedHash \in Hash /\ IsAncestor(ReachedHash, block'.hash)
  <2>1. CASE block = NoBlock
    <3>1. Reached = block'.num - 1 /\ ReachedHash = AncestorAt(block'.hash, block'.num - 1)
      BY <1>1, <2>1 DEF Reached, ReachedHash, FirstNum
    <3>2. block'.num - 1 \in 0..Number(block'.hash)
      BY <1>2
    <3> QED
      BY <1>2, <3>1, <3>2, AncestorAtIs, AncestorAtType
  <2>2. CASE block # NoBlock
    <3>1. Linked(block, block') /\ block.num \in Nat
      BY <1>1, <2>2, LoopTypes DEF RunIsChain, BlockLinked
    <3>2. /\ Reached = block.num /\ ReachedHash = block.hash
          /\ block'.num = block.num + 1 /\ block.hash = AncestorAt(block'.hash, block.num)
      BY <2>2, <3>1 DEF Reached, ReachedHash, Linked
    <3>3. block.num \in 0..Number(block'.hash)
      BY <1>2, <3>1, <3>2
    <3> QED
      BY <1>2, <3>1, <3>2, <3>3, AncestorAtIs, AncestorAtType
  <2> QED
    BY <2>1, <2>2
<1>4. ASSUME NEW k \in Keys(store'), k <= block'.num
      PROVE  IsAncestor(store'.blocks[k], block'.hash)
  <2>1. CASE k = block'.num
    BY <1>1, <1>2, <2>1, PutRows, AncestorSelf
  <2>2. CASE k # block'.num
    <3>1. k \in Keys(store) /\ store'.blocks[k] = store.blocks[k] /\ k \in Nat
      BY <1>1, <1>2, <2>2, PutRows, RangeTypes
    <3>2. IsAncestor(store.blocks[k], ReachedHash) /\ store.blocks[k] \in Hash
      BY <1>1, <1>2, <1>3, <1>4, <2>2, <3>1
         DEF RowsOnChain, RowsOfRun, RowsBelow, Running, Keys, Store
    <3> QED
      BY <1>2, <1>3, <3>1, <3>2, AncestorTrans
  <2> QED
    BY <2>1, <2>2
<1>5. ASSUME store'.lib # NoLib, NEW k \in ResumeRows' PROVE k <= block'.num
  <2> SUFFICES ASSUME ~(k <= block'.num) PROVE FALSE
    OBVIOUS
  <2>1. /\ k \in Keys(store') /\ k <= FinalizedNum /\ k < StopBlock
        /\ \A j \in Keys(store') : j <= FinalizedNum => j <= k
    BY <1>1, <1>5 DEF ResumeRows, GetBlockOrPrev, FinalizedNum
  <2>2. k # block'.num
    BY <1>2
  <2>3. k \in Keys(store) /\ k \in Nat
    BY <1>1, <1>2, <2>1, <2>2, PutRows, RangeTypes
  <2>4. \A j \in Keys(store) : j \in Keys(store')
    BY <1>1, <1>2, PutRows
  <2>5. k \in ResumeRows
    BY <2>1, <2>3, <2>4 DEF ResumeRows, GetBlockOrPrev
  <2>6. k <= Reached
    BY <1>1, <1>2, <1>5, <2>5 DEF RowsOnChain, RowsOfRun, Running
  <2> QED
    BY <1>2, <1>3, <2>3, <2>6
<1>6. RowsOfBlock' /\ Running'
  BY <1>1, <1>4, <1>5 DEF RowsOfBlock, RowsBelow, Running
<1>7. RowsOfRun'
  BY <1>1, <1>6 DEF RowsOfRun, RowsOfBlock, Reached, ReachedHash
<1> QED
  BY <1>6, <1>7, ReachedBecomeChains DEF RowsOnChain

\* Pruning removes a row the run has passed; storing the LIB removes none.
LEMMA StoreStepsRows ==
  ASSUME TypeOK, TypeOK', RunIsChain', LibTracked, LibTracked', RowsOnChain, PruneBlock \/ StoreLib
  PROVE  RowsOnChain'
<1>1. /\ UNCHANGED <<engine, block>> /\ block # NoBlock /\ block.num \in Nat /\ Running /\ Running'
      /\ pc' \notin {"newPayload", "forkChoice"} /\ Keys(store) \subseteq Nat
  BY LoopTypes, RangeTypes DEF PruneBlock, StoreLib, ship, loop, TypeOK, Running
<1>2. Reached = block.num /\ ReachedHash = block.hash
  BY <1>1 DEF Reached, ReachedHash
<1>3. \A k \in Keys(store') : k \in Keys(store) /\ store'.blocks[k] = store.blocks[k]
  BY DEF PruneBlock, StoreLib, DeleteBlock, PutLib, TypeOK, Store, Keys
<1>4. \A k \in Keys(store) : k \in Keys(store') \/ k <= block.num
  <2>1. LatestStart <= block.num
    BY <1>1, ClientAssumption DEF LatestStart
  <2> QED
    BY <1>1, <2>1 DEF PruneBlock, StoreLib, DeleteBlock, PutLib, TypeOK, Store, Keys
<1>5. RowsBelow(block.num, block.hash)'
  BY <1>1, <1>2, <1>3 DEF RowsOnChain, RowsOfRun, RowsBelow
<1>6. ASSUME NEW k \in ResumeRows' PROVE k <= block.num
  <2> SUFFICES ASSUME ~(k <= block.num) PROVE FALSE
    OBVIOUS
  <2>1. /\ k \in Keys(store') /\ k <= FinalizedNum /\ k < StopBlock
        /\ \A j \in Keys(store') : j <= FinalizedNum => j <= k
    BY <1>1 DEF ResumeRows, GetBlockOrPrev, FinalizedNum
  <2>2. k \in Keys(store) /\ k \in Nat
    BY <1>1, <1>3, <2>1
  <2>3. \A j \in Keys(store) : j <= FinalizedNum => j <= k
    BY <1>1, <1>4, <2>1, <2>2
  <2>4. k \in ResumeRows
    BY <2>1, <2>2, <2>3 DEF ResumeRows, GetBlockOrPrev
  <2>5. CASE store.lib = NoLib
    BY <1>1, <2>2, <2>5 DEF LibTracked, FirstRowOnly, LibOfRun
  <2>6. CASE store.lib # NoLib
    BY <1>1, <1>2, <2>4, <2>6 DEF RowsOnChain, RowsOfRun
  <2> QED
    BY <2>5, <2>6
<1>7. RowsOfBlock'
  BY <1>1, <1>5, <1>6 DEF RowsOfBlock
<1>8. RowsOfRun'
  BY <1>1, <1>7 DEF RowsOfRun, RowsOfBlock, Reached, ReachedHash
<1> QED
  BY <1>1, <1>7, <1>8, ReachedBecomeChains DEF RowsOnChain

\* The safe hash is that of a row below the block, or of the block.
LEMMA QueueRows ==
  ASSUME TypeOK, RowsOnChain, Queues
  PROVE  RowsOnChain'
<1>1. /\ UNCHANGED <<store, engine, stream, channel, block>> /\ block # NoBlock
      /\ pc = "check" /\ block.num \in Nat /\ block.hash \in Hash
      /\ pc' \in {"newPayload", "forkChoice"} => safeHash' = SafeHash
  BY LoopTypes DEF Queues, Queue, ship, TypeOK
<1>2. Reached = block.num /\ ReachedHash = block.hash /\ Running
  BY <1>1 DEF Reached, ReachedHash, Running
<1>3. Reached' = Reached /\ ReachedHash' = ReachedHash /\ ResumeRows' = ResumeRows
  BY <1>1 DEF Reached, ReachedHash, FirstNum, ResumeRows, FinalizedNum
<1>4. IsAncestor(SafeHash, block.hash)
  <2> DEFINE n == IF block.num < SafeHashLookup THEN 0 ELSE block.num - SafeHashLookup
             found == GetBlockOrPrev(store, n)
  <2>1. SafeHash = HashOr(store, found, block.hash) /\ n <= block.num /\ n \in Nat
    BY <1>1, ClientAssumption DEF SafeHash
  <2> HIDE DEF n
  <2>2. CASE found = {}
    BY <1>1, <2>1, <2>2, AncestorSelf DEF HashOr
  <2>3. CASE found # {}
    <3> DEFINE k == CHOOSE x \in found : TRUE
    <3>1. k \in Keys(store) /\ k <= n
      BY <2>3 DEF GetBlockOrPrev
    <3>2. SafeHash = store.blocks[k]
      BY <2>1, <2>3 DEF HashOr
    <3> HIDE DEF k
    <3>3. k \in Nat /\ k <= block.num
      BY <1>1, <2>1, <3>1, RangeTypes
    <3> QED
      BY <1>2, <3>1, <3>2, <3>3 DEF RowsOnChain, RowsOfRun, RowsBelow
  <2> QED
    BY <2>2, <2>3
<1>5. ResumeRowsAreChains'
  BY <1>1, <1>3 DEF RowsOnChain, ResumeRowsAreChains, RowsBelow
<1>6. RowsOfRun'
  BY <1>1, <1>2, <1>3, <1>4 DEF RowsOnChain, RowsOfRun, RowsBelow
<1> QED
  BY <1>5, <1>6 DEF RowsOnChain

\* Every step keeps the rows below a resume point on its chain.
LEMMA NextRows ==
  TypeOK /\ TypeOK' /\ RunIsChain /\ RunIsChain' /\ LibTracked /\ LibTracked' /\ RunIsFinal
    /\ RowsOnChain /\ ~misplaced' /\ [Next]_vars => RowsOnChain'
<1> SUFFICES ASSUME TypeOK, TypeOK', RunIsChain, RunIsChain', LibTracked, LibTracked', RunIsFinal,
                    RowsOnChain, ~misplaced', [Next]_vars
             PROVE  RowsOnChain'
  OBVIOUS
<1>n. ASSUME store' = store, ~Running',
             \/ engine'.finalized \in {Genesis, engine.finalized}
             \/ pc = "forkChoice" /\ engine'.finalized = lastLibHash
      PROVE  RowsOnChain'
  BY <1>n, SameRows
<1>s. ASSUME UNCHANGED <<store, channel, block>>, stream'.next = stream.next,
             stream'.parent = stream.parent, Running' => Running,
             pc' \in {"newPayload", "forkChoice"} =>
               pc \in {"newPayload", "forkChoice"} /\ safeHash' = safeHash,
             \/ engine'.finalized \in {Genesis, engine.finalized}
             \/ pc = "forkChoice" /\ engine'.finalized = lastLibHash
      PROVE  RowsOnChain'
  <2>1. Reached' = Reached /\ ReachedHash' = ReachedHash
    BY <1>s DEF Reached, ReachedHash, FirstNum
  <2> QED
    BY <1>s, <2>1, SameRows
<1>1. CASE StartAttempt \/ StartMisread
  BY <1>1, StartRows
<1>2. CASE StartAboveMaximumRange \/ StartUnreachable
  <2>1. store' = OpenedStore /\ engine' = engine /\ ~Running'
    BY <1>2 DEF StartAboveMaximumRange, StartUnreachable, Running
  <2> QED
    BY <2>1, OpenedRows DEF RowsOnChain
<1>3. CASE TranslatorSends
  BY <1>3, TranslatorSendsRows
<1>4. CASE TranslatorRejects \/ TranslatorStops \/ StreamEnds \/ StreamFails
  <2>1. /\ UNCHANGED <<store, engine, channel, block, pc, safeHash>>
        /\ \E end \in {"error", "ended"} : stream' = [stream EXCEPT !.status = end]
    BY <1>4 DEF TranslatorRejects, CanTranslate, TranslatorStops, StreamEnds, StreamFails, loop
  <2>2. stream'.next = stream.next /\ stream'.parent = stream.parent
    BY <2>1 DEF TypeOK, Streams
  <2> QED
    BY <1>s, <2>1, <2>2 DEF Running
<1>5. CASE ReceiveBlock
  BY <1>5, ReceiveRows
<1>6. CASE PruneBlock \/ StoreLib
  BY <1>6, StoreStepsRows
<1>7. CASE QueueBlock \/ QueueMisread
  BY <1>7, QueuesBlock, QueueRows
<1>8. CASE SkipBlock \/ LibAdvances \/ UNCHANGED vars
  <2>1. /\ UNCHANGED <<store, engine, channel, block, stream, safeHash>>
        /\ pc' = pc \/ (pc = "check" /\ pc' = "recv")
    BY <1>8 DEF SkipBlock, LibAdvances, vars, ship, loop
  <2> QED
    BY <1>s, <2>1 DEF Running
<1>9. CASE SendPayloads \/ SendForkChoice
  <2>1. /\ UNCHANGED <<store, channel, block, stream, safeHash>>
        /\ pc \in {"newPayload", "forkChoice"} /\ pc' \in {"recv", "forkChoice"}
    BY <1>9 DEF SendPayloads, SendForkChoice, ship
  <2>2. \/ engine'.finalized = engine.finalized
        \/ pc = "forkChoice" /\ engine'.finalized = lastLibHash
    BY <1>9 DEF SendPayloads, SendForkChoice, NewPayloads, ForkChoiceUpdated, TypeOK, Engine
  <2> QED
    BY <1>s, <2>1, <2>2 DEF Running
<1>10. CASE CheckPanics \/ HashMismatch \/ CallFails \/ DatabaseFails \/ Restart
  BY <1>10, <1>n DEF CheckPanics, HashMismatch, CallFails, DatabaseFails, Restart, AttemptFails, Running
<1>11. CASE ResponseLost
  <2>1. \/ engine'.finalized = engine.finalized
        \/ pc = "forkChoice" /\ engine'.finalized = lastLibHash
    BY <1>11 DEF ResponseLost, NewPayloads, ForkChoiceUpdated, TypeOK, Engine
  <2> QED
    BY <1>11, <1>n, <2>1 DEF ResponseLost, AttemptFails, Running
<1>12. CASE EndOfStream
  BY <1>12, <1>n DEF EndOfStream, AttemptFails, Running
<1>13. CASE ExecutorRestarts
  <2>1. /\ UNCHANGED <<store, channel, block, stream, pc, safeHash>>
        /\ engine' \in Restarted(engine)
    BY <1>13 DEF ExecutorRestarts, ship, loop
  <2>2. engine'.finalized \in {Genesis, engine.finalized}
    BY <2>1 DEF Restarted, EngineAt
  <2> QED
    BY <1>s, <2>1, <2>2 DEF Running
<1> QED
  BY <1>1, <1>2, <1>3, <1>4, <1>5, <1>6, <1>7, <1>8, <1>9, <1>10, <1>11, <1>12, <1>13
     DEF Next, Start, Translator, Loop, Environment

\* A run started too low is never forgotten.
LEMMA MisplacedStays == [Next]_vars /\ ~misplaced' => ~misplaced
BY DEF Next, Start, StartAttempt, StartMisread, StartAboveMaximumRange, Translator,
   TranslatorSends, TranslatorRejects, TranslatorStops, Loop, ReceiveBlock, EndOfStream, PruneBlock,
   StoreLib, CheckPanics, HashMismatch, SkipBlock, QueueBlock, QueueMisread, Queue, SendPayloads,
   SendForkChoice, LibAdvances, Environment, StartUnreachable, StreamEnds, StreamFails, CallFails,
   ResponseLost, DatabaseFails, Restart, ExecutorRestarts, vars

\* The two invariants of the rows, for a stream of irreversible blocks.
THEOREM RowsStayChains ==
  ASSUME IrreversibleOnly
  PROVE  Spec => [](LibTracked /\ RowsInv)
<1>1. Init => LibTracked /\ RowsInv
  BY InitTracked, InitRows DEF RowsInv
<1>2. TypeOK /\ RunIsChain /\ LibInv /\ RunIsFinal /\ LibTracked /\ [Next]_vars => LibTracked'
  BY NextTracked
<1>3. TypeOK /\ TypeOK' /\ RunIsChain /\ RunIsChain' /\ LibTracked /\ LibTracked' /\ RunIsFinal
        /\ RowsInv /\ [Next]_vars => RowsInv'
  BY NextRows, MisplacedStays DEF RowsInv
<1> QED
  BY <1>1, <1>2, <1>3, TypeCorrect, RunStaysChain, RunStaysFinal, LibStaysOrdered, PTL DEF Spec

\* While a block is handled the rows at or below it are its ancestors, though
\* the database holds rows of earlier runs that were translated differently, as long
\* as no run was made to resume below the finalized block by an error answer.
THEOREM RowsAreAncestors ==
  ASSUME IrreversibleOnly
  PROVE  Spec => []StoredRowsAreAncestors
<1>1. TypeOK /\ RowsInv => StoredRowsAreAncestors
  <2> SUFFICES ASSUME TypeOK, RowsOnChain, pc \in {"check", "newPayload", "forkChoice"},
                      NEW n \in Keys(store), n <= block.num
               PROVE  IsAncestor(store.blocks[n], block.hash)
    BY DEF StoredRowsAreAncestors, RowsInv
  <2>1. Running /\ block # NoBlock
    BY DEF TypeOK, Running
  <2> QED
    BY <2>1 DEF RowsOnChain, RowsOfRun, RowsBelow, Reached, ReachedHash
<1> QED
  BY <1>1, TypeCorrect, RowsStayChains, PTL

\* The hashes of a forkchoice update are on the chain of its head, whatever the
\* translations of the runs before, under the same condition.
THEOREM ForkChoiceStaysOnChain ==
  ASSUME IrreversibleOnly
  PROVE  Spec => []ForkChoiceOnOneChain
<1>1. TypeOK /\ RunIsChain /\ RunIsFinal /\ RowsInv => ForkChoiceOnOneChain
  <2> SUFFICES ASSUME TypeOK, RunIsChain, RunIsFinal, RowsOnChain, pc = "forkChoice"
               PROVE  /\ IsAncestor(safeHash, batch[Len(batch)].hash)
                      /\ IsAncestor(lastLibHash, batch[Len(batch)].hash)
    BY DEF ForkChoiceOnOneChain, RowsInv
  <2>1. /\ batch[Len(batch)] = block /\ block # NoBlock /\ block.hash \in Hash /\ Running
        /\ lastLibHash = block.hash
    BY LoopTypes DEF TypeOK, RunIsChain, BatchOrdered, RunIsFinal, Running
  <2> QED
    BY <2>1, AncestorSelf DEF RowsOnChain, RowsOfRun
<1> QED
  BY <1>1, TypeCorrect, RunStaysChain, RunStaysFinal, RowsStayChains, PTL

-------------------------------------------------------------------------------
(***************************************************************************)
(* Runs resume near the finalized block.                                   *)
(***************************************************************************)

\* One of as many consecutive numbers as the interval is a checkpoint.
LEMMA CheckpointBelow ==
  ASSUME NEW t \in Nat, NEW c \in Nat \ {0}
  PROVE  \E m \in 0..t : m % c = 0 /\ m > t - c
<1>1. t % c \in 0..(c - 1)
  OBVIOUS
<1>2. t = (c * (t \div c)) + (t % c)
  OBVIOUS
<1>3. t \div c \in Nat
  OBVIOUS
<1>4. (c * (t \div c)) \in Nat
  BY <1>3
<1>5. \A q \in Nat : (c * q) % c = 0
  OBVIOUS
<1>6. (c * (t \div c)) % c = 0
  BY <1>3, <1>5
<1> DEFINE m == c * (t \div c)
<1>7. m \in Nat /\ m % c = 0 /\ t = m + (t % c)
  BY <1>2, <1>4, <1>6
<1> HIDE DEF m
<1>8. m \in 0..t /\ m > t - c
  BY <1>1, <1>7
<1> QED
  BY <1>7, <1>8

\* At the start there are no rows.
LEMMA InitCheckpoints == Init => CheckpointInv
<1> SUFFICES ASSUME Init PROVE CheckpointInv
  OBVIOUS
<1>1. Keys(store) = {} /\ Len(channel) = 0 /\ stream.next = StartBlock /\ ~Running
  BY EmptySeq DEF Init, EmptyStore, Keys, NoStream, Running
<1>2. StartBlock \in Nat
  BY ClientAssumption, StoreAssumption
<1> QED
  BY <1>1, <1>2 DEF CheckpointInv

\* An attempt that fails leaves the database.
LEMMA NoRunCheckpoints ==
  ASSUME CheckpointInv, NoRun, store' = store, pc' \in {"idle", "failed"}
  PROVE  CheckpointInv'
<1>1. Len(channel') = 0 /\ stream'.next = StartBlock /\ ~Running'
  BY EmptySeq DEF NoRun, NoStream, Running
<1>2. StartBlock \in Nat
  BY ClientAssumption, StoreAssumption
<1> QED
  BY <1>1, <1>2 DEF CheckpointInv, CheckpointsUpTo, Keys

\* Steps that leave the database and the blocks of the run.
LEMMA SameCheckpoints ==
  ASSUME CheckpointInv, UNCHANGED <<store, channel, block>>, stream'.next = stream.next,
         Running' => Running
  PROVE  CheckpointInv'
<1>1. Reached' = Reached
  BY DEF Reached, FirstNum
<1> QED
  BY <1>1 DEF CheckpointInv, CheckpointsUpTo, Keys

\* A run has come to the row it resumes after, or has not begun.
LEMMA StartCheckpoints ==
  ASSUME TypeOK, CheckpointInv, StartAttempt \/ StartMisread
  PROVE  CheckpointInv'
<1>0. PICK latest, finalized : Starts(latest, finalized)
  BY StartsLaunch
<1>1. /\ store' = OpenedStore /\ block' = NoBlock /\ channel' = << >> /\ Len(channel') = 0
      /\ stream'.next = NextBlock(OpenedStore, finalized)
  BY <1>0, EmptySeq DEF Starts, Launch, ClearedLoop
<1>2. OpenedStore \in Store /\ StartBlock \in Nat
  BY OpenedStoreType, RangeTypes DEF TypeOK
<1>3. Reached' = NextBlock(OpenedStore, finalized) - 1
  BY <1>1 DEF Reached, FirstNum
<1>4. NextBlock(OpenedStore, finalized) >= StartBlock
  BY <1>2, ResumesInRange
<1>5. \A k \in Keys(store)' : k >= StartBlock /\ CheckpointsUpTo(k)'
  BY <1>1, OpenedKeys DEF CheckpointInv, CheckpointsUpTo
<1>6. CheckpointsUpTo(Reached)'
  <2>1. PICK n : n = NextBlock(OpenedStore, finalized) - 1
    OBVIOUS
  <2>2. CheckpointsUpTo(n)'
    <3>1. CASE ResumeKeys(OpenedStore, finalized) = {}
      <4>1. StartBlock..n = {}
        BY <1>2, <2>1, <3>1 DEF NextBlock
      <4> QED
        BY <4>1 DEF CheckpointsUpTo
    <3>2. CASE ResumeKeys(OpenedStore, finalized) # {}
      <4> DEFINE k == CHOOSE x \in ResumeKeys(OpenedStore, finalized) : TRUE
      <4>1. k \in ResumeKeys(OpenedStore, finalized) /\ NextBlock(OpenedStore, finalized) = 1 + k
        BY <3>2 DEF NextBlock
      <4> HIDE DEF k
      <4>2. k \in Keys(OpenedStore)
        BY <4>1 DEF ResumeKeys, LastChecked, GetBlockOrPrev
      <4>3. n = k
        BY <2>1, <4>1, <4>2, StoreAssumption DEF Keys, Numbers
      <4> QED
        BY <1>1, <1>5, <4>2, <4>3
    <3> QED
      BY <3>1, <3>2
  <2> QED
    BY <1>3, <2>1, <2>2 DEF CheckpointsUpTo
<1> QED
  BY <1>1, <1>4, <1>5, <1>6 DEF CheckpointInv

\* The translator sends blocks a row can be kept for.
LEMMA TranslatorSendsCheckpoints ==
  ASSUME TypeOK, CheckpointInv, TranslatorSends
  PROVE  CheckpointInv'
<1>1. PICK b : channel' = Append(channel, b) /\ b.num = stream.next /\ b \in Block
  <2>1. PICK content \in Translations :
          channel' = Append(channel, [num |-> stream.next,
                                      hash |-> Child(stream.parent, content), lib |-> shipLib])
    BY DEF TranslatorSends
  <2>2. Child(stream.parent, content) \in Hash /\ stream.next \in Nat /\ shipLib \in Nat
    BY ChildType, ClientAssumption, LoopTypes
  <2> QED
    BY <2>1, <2>2 DEF Block
<1>2. /\ UNCHANGED <<store, block, pc>> /\ stream'.next = stream.next + 1
      /\ stream.next <= MaxBlock /\ stream.next \in Nat
  BY LoopTypes DEF TranslatorSends, CanTranslate, loop, TypeOK, Streams
<1>3. /\ Len(channel) \in Nat /\ Len(channel') = Len(channel) + 1
      /\ channel'[Len(channel) + 1] = b
      /\ \A i \in 1..Len(channel) : channel'[i] = channel[i]
  BY <1>1, LoopTypes, AppendProperties, LenProperties
<1>4. StartBlock \in Nat /\ MaxBlock \in Nat /\ stream.next >= StartBlock
  BY RangeTypes, StoreAssumption DEF CheckpointInv
<1>5. b.num \in StartBlock..MaxBlock
  BY <1>1, <1>2, <1>4
<1>6. \A i \in 1..Len(channel') : channel'[i].num \in StartBlock..MaxBlock
  <2> SUFFICES ASSUME NEW i \in 1..Len(channel')
               PROVE  channel'[i].num \in StartBlock..MaxBlock
    OBVIOUS
  <2>1. CASE i \in 1..Len(channel)
    BY <1>3, <2>1 DEF CheckpointInv
  <2>2. CASE i = Len(channel) + 1
    BY <1>3, <1>5, <2>2
  <2> QED
    BY <1>3, <2>1, <2>2
<1>7. Reached' = Reached
  BY <1>2, SendsKeepFirst DEF Reached
<1> QED
  BY <1>2, <1>4, <1>6, <1>7 DEF CheckpointInv, CheckpointsUpTo, Keys, Running

\* The block taken adds the row of the number the run comes to.
LEMMA ReceiveCheckpoints ==
  ASSUME TypeOK, RunIsChain, CheckpointInv, ReceiveBlock
  PROVE  CheckpointInv'
<1>1. /\ channel \in Seq(Block) /\ channel # << >> /\ Len(channel) \in Nat \ {0}
      /\ channel' = Tail(channel) /\ block' = channel[1] /\ block' \in Block
      /\ block' # NoBlock /\ pc' = "prune" /\ pc = "recv" /\ store' = PutBlock(store, block')
      /\ stream' = stream
  BY LoopTypes, EmptySeq, HeadTailProperties, ElementOfSeq, ClientAssumption DEF ReceiveBlock
<1>2. /\ \A i \in 1..Len(channel') : i + 1 \in 1..Len(channel) /\ channel'[i] = channel[i + 1]
      /\ 1 \in 1..Len(channel)
  BY <1>1, HeadTailProperties
<1>3. \A i \in 1..Len(channel') : channel'[i].num \in StartBlock..MaxBlock
  BY <1>2 DEF CheckpointInv
<1> DEFINE n == block'.num
<1>4. n \in StartBlock..MaxBlock /\ StartBlock \in Nat /\ MaxBlock \in Nat /\ n \in Nat
  BY <1>1, <1>2, RangeTypes, StoreAssumption DEF CheckpointInv
<1>5. Reached' = n
  BY <1>1 DEF Reached
<1>6. Reached = n - 1
  <2>1. CASE block = NoBlock
    BY <1>1, <2>1 DEF Reached, FirstNum
  <2>2. CASE block # NoBlock
    <3>1. n = block.num + 1 /\ block.num \in Nat
      BY <1>1, <2>2, LoopTypes DEF RunIsChain, BlockLinked, Linked
    <3> QED
      BY <2>2, <3>1 DEF Reached
  <2> QED
    BY <2>1, <2>2
<1>7. Keys(store') = Keys(store) \cup {n}
  <2>1. store'.blocks = [store.blocks EXCEPT ![n] = block'.hash]
        /\ store.blocks \in [Numbers -> Hash \cup {NoHash}]
    BY <1>1 DEF PutBlock, TypeOK, Store
  <2>2. block'.hash # NoHash /\ n \in Numbers
    BY <1>1, <1>4, StoreAssumption DEF Block, Numbers
  <2> HIDE DEF n
  <2> QED
    BY <2>1, <2>2 DEF Keys
<1>8. Running /\ CheckpointsUpTo(n - 1)
  BY <1>1, <1>6 DEF CheckpointInv, Running
<1>9. \A m \in StartBlock..n : m % CheckpointInterval = 0 => m \in Keys(store')
  <2> SUFFICES ASSUME NEW m \in StartBlock..n, m % CheckpointInterval = 0
               PROVE  m \in Keys(store')
    OBVIOUS
  <2> HIDE DEF n
  <2>1. CASE m = n
    BY <1>7, <2>1
  <2>2. CASE m \in StartBlock..(n - 1)
    BY <1>7, <1>8, <2>2 DEF CheckpointsUpTo
  <2> QED
    BY <1>4, <2>1, <2>2
<1>10. CheckpointsUpTo(Reached)'
  BY <1>5, <1>9 DEF CheckpointsUpTo
<1>11. \A k \in Keys(store') : k >= StartBlock /\ CheckpointsUpTo(k)'
  <2> SUFFICES ASSUME NEW k \in Keys(store') PROVE k >= StartBlock /\ CheckpointsUpTo(k)'
    OBVIOUS
  <2>1. CASE k = n
    BY <1>4, <1>9, <2>1 DEF CheckpointsUpTo
  <2>2. CASE k \in Keys(store)
    BY <1>7, <2>2 DEF CheckpointInv, CheckpointsUpTo
  <2> QED
    BY <1>7, <2>1, <2>2
<1> QED
  BY <1>1, <1>3, <1>10, <1>11 DEF CheckpointInv

\* Pruning spares the checkpoints.
LEMMA StoreStepsCheckpoints ==
  ASSUME TypeOK, CheckpointInv, PruneBlock \/ StoreLib
  PROVE  CheckpointInv'
<1>1. UNCHANGED <<stream, channel, block>> /\ Running
  BY DEF PruneBlock, StoreLib, ship, loop, Running
<1>2. /\ \A k \in Keys(store') : k \in Keys(store)
      /\ \A k \in Keys(store) : k % CheckpointInterval = 0 => k \in Keys(store')
  BY DEF PruneBlock, StoreLib, DeleteBlock, PutLib, TypeOK, Store, Keys
<1>3. Reached' = Reached
  BY <1>1 DEF Reached, FirstNum
<1>4. \A n : CheckpointsUpTo(n) => CheckpointsUpTo(n)'
  BY <1>2 DEF CheckpointsUpTo
<1>5. CheckpointsUpTo(Reached)'
  BY <1>1, <1>2, <1>3 DEF CheckpointInv, CheckpointsUpTo
<1> QED
  BY <1>1, <1>2, <1>4, <1>5 DEF CheckpointInv

\* Every step keeps the checkpoints.
LEMMA NextCheckpoints == TypeOK /\ RunIsChain /\ CheckpointInv /\ [Next]_vars => CheckpointInv'
<1> SUFFICES ASSUME TypeOK, RunIsChain, CheckpointInv, [Next]_vars
             PROVE  CheckpointInv'
  OBVIOUS
<1>1. CASE StartAttempt \/ StartMisread
  BY <1>1, StartCheckpoints
<1>2. CASE StartAboveMaximumRange \/ StartUnreachable
  <2>1. store' = OpenedStore /\ UNCHANGED <<stream, channel>> /\ ~Running'
    BY <1>2 DEF StartAboveMaximumRange, StartUnreachable, ship, Running
  <2> QED
    BY <2>1, OpenedKeys DEF CheckpointInv, CheckpointsUpTo
<1>3. CASE TranslatorSends
  BY <1>3, TranslatorSendsCheckpoints
<1>4. CASE TranslatorRejects \/ TranslatorStops \/ StreamEnds \/ StreamFails
  <2>1. /\ UNCHANGED <<store, channel, block, pc>>
        /\ \E end \in {"error", "ended"} : stream' = [stream EXCEPT !.status = end]
    BY <1>4 DEF TranslatorRejects, CanTranslate, TranslatorStops, StreamEnds, StreamFails, loop
  <2>2. stream'.next = stream.next
    BY <2>1 DEF TypeOK, Streams
  <2> QED
    BY <2>1, <2>2, SameCheckpoints DEF Running
<1>5. CASE ReceiveBlock
  BY <1>5, ReceiveCheckpoints
<1>6. CASE PruneBlock \/ StoreLib
  BY <1>6, StoreStepsCheckpoints
<1>7. CASE \/ SkipBlock \/ QueueBlock \/ QueueMisread \/ LibAdvances \/ SendPayloads \/ SendForkChoice
           \/ ExecutorRestarts \/ UNCHANGED vars
  <2>1. UNCHANGED <<store, channel, block, stream>> /\ (Running' => Running)
    BY <1>7 DEF SkipBlock, QueueBlock, QueueMisread, Queue, LibAdvances, SendPayloads, SendForkChoice,
       ExecutorRestarts, vars, ship, loop, Running
  <2> QED
    BY <2>1, SameCheckpoints
<1>8. CASE CheckPanics \/ HashMismatch \/ CallFails \/ ResponseLost \/ DatabaseFails
  BY <1>8, NoRunCheckpoints
     DEF CheckPanics, HashMismatch, CallFails, ResponseLost, DatabaseFails, AttemptFails
<1>9. CASE EndOfStream
  <2>1. store' = store
    BY <1>9 DEF EndOfStream
  <2>2. CASE AttemptFails
    BY <2>1, <2>2, NoRunCheckpoints DEF AttemptFails
  <2>3. CASE UNCHANGED <<stream, channel, loop>> /\ pc' = "finished"
    BY <2>1, <2>3, SameCheckpoints DEF loop, Running
  <2> QED
    BY <1>9, <2>2, <2>3 DEF EndOfStream
<1>10. CASE Restart
  BY <1>10, NoRunCheckpoints DEF Restart
<1> QED
  BY <1>1, <1>2, <1>3, <1>4, <1>5, <1>6, <1>7, <1>8, <1>9, <1>10
     DEF Next, Start, Translator, Loop, Environment

\* A checkpoint is in the database between the start block and any row, and where the
\* run has come: through any faults, with any translator.
THEOREM CheckpointsAreKept == Spec => []CheckpointInv
BY InitCheckpoints, NextCheckpoints, TypeCorrect, RunStaysChain, PTL DEF Spec

\* A lookup finds the last row at or below a number, if there is any.
LEMMA LastRowIsFound ==
  ASSUME NEW opened \in Store, NEW t \in Nat, NEW m \in Keys(opened), m <= t
  PROVE  \E k \in GetBlockOrPrev(opened, t) : k \in Nat /\ k >= m
<1> DEFINE rows == {k \in Keys(opened) : k <= t}
<1>1. rows \in SUBSET (0..t) /\ rows \in SUBSET Int /\ rows # {}
  BY StoreAssumption DEF Keys, Numbers
<1>2. IsFiniteSet(0..t)
  BY FS_Interval
<1>3. IsFiniteSet(rows)
  BY <1>1, <1>2, FS_Subset
<1>4. m \in rows
  OBVIOUS
<1> HIDE DEF rows
<1>5. PICK k \in rows : \A j \in rows : j <= k
  BY <1>1, <1>3, LargestNumber
<1>6. k \in GetBlockOrPrev(opened, t)
  BY <1>5 DEF GetBlockOrPrev, rows
<1>7. k \in Nat /\ k >= m
  BY <1>1, <1>4, <1>5
<1> QED
  BY <1>6, <1>7

\* The row to resume after is the last one at or below the target.
LEMMA ResumesNear ==
  ASSUME TypeOK, CheckpointInv, store.lib # NoLib, NEW t \in Nat,
         t = IF store.lib + BlockDelta < Number(engine.finalized)
             THEN store.lib + BlockDelta ELSE Number(engine.finalized),
         t < StopBlock, NEW n \in Keys(store), n >= t
  PROVE  \/ NextBlock(store, engine.finalized) > t + 1 - CheckpointInterval
         \/ NextBlock(store, engine.finalized) = StartBlock /\ t < StartBlock + CheckpointInterval
<1>1. /\ StartBlock \in Nat /\ StopBlock \in Nat /\ CheckpointInterval \in Nat \ {0}
      /\ n \in Nat /\ store \in Store
  BY RangeTypes, ClientAssumption DEF TypeOK
<1>2. LastChecked(store, engine.finalized) = GetBlockOrPrev(store, t)
  BY StoreAssumption DEF LastChecked, TypeOK, Engine
<1>3. \A k \in GetBlockOrPrev(store, t) : k \in Nat /\ StartBlock <= k /\ k <= t /\ k + 1 <= StopBlock
  <2> SUFFICES ASSUME NEW k \in GetBlockOrPrev(store, t)
               PROVE  k \in Nat /\ StartBlock <= k /\ k <= t /\ k + 1 <= StopBlock
    OBVIOUS
  <2>1. k \in Keys(store) /\ k <= t
    BY DEF GetBlockOrPrev
  <2>2. k \in Nat /\ k >= StartBlock
    BY <2>1, RangeTypes DEF CheckpointInv
  <2> QED
    BY <1>1, <2>1, <2>2
<1>4. ResumeKeys(store, engine.finalized) = GetBlockOrPrev(store, t)
  <2>1. \A k \in GetBlockOrPrev(store, t) : InStartStopRange(k + 1)
    BY <1>1, <1>3 DEF InStartStopRange
  <2> QED
    BY <1>2, <2>1 DEF ResumeKeys
<1>5. PICK c \in 0..t : c % CheckpointInterval = 0 /\ c > t - CheckpointInterval
  BY <1>1, CheckpointBelow
<1>6. c >= StartBlock => c \in Keys(store)
  <2>1. CheckpointsUpTo(n)
    BY DEF CheckpointInv
  <2>2. c >= StartBlock => c \in StartBlock..n
    BY <1>1, <1>5
  <2> QED
    BY <1>5, <2>1, <2>2 DEF CheckpointsUpTo
<1>7. CASE ResumeKeys(store, engine.finalized) = {}
  <2>1. NextBlock(store, engine.finalized) = StartBlock
    BY <1>7 DEF NextBlock
  <2>2. ~(c >= StartBlock)
    <3> SUFFICES ASSUME c >= StartBlock PROVE FALSE
      OBVIOUS
    <3>1. c \in Keys(store) /\ c <= t
      BY <1>5, <1>6
    <3>2. GetBlockOrPrev(store, t) # {}
      BY <1>1, <3>1, LastRowIsFound
    <3> QED
      BY <1>4, <1>7, <3>2
  <2> QED
    BY <1>1, <1>5, <2>1, <2>2
<1>8. CASE ResumeKeys(store, engine.finalized) # {}
  <2> DEFINE k == CHOOSE x \in ResumeKeys(store, engine.finalized) : TRUE
  <2>1. k \in ResumeKeys(store, engine.finalized) /\ NextBlock(store, engine.finalized) = 1 + k
    BY <1>8 DEF NextBlock
  <2> HIDE DEF k
  <2>2. k \in GetBlockOrPrev(store, t)
    BY <1>4, <2>1
  <2>3. k \in Nat /\ StartBlock <= k
    BY <1>3, <2>2
  <2>4. c >= StartBlock => c <= k
    BY <1>5, <1>6, <2>2 DEF GetBlockOrPrev
  <2>5. k > t - CheckpointInterval
    BY <1>1, <1>5, <2>3, <2>4
  <2> QED
    BY <1>1, <2>1, <2>3, <2>5
<1> QED
  BY <1>7, <1>8

\* ResumesNearFinalized: pruning, whatever LatestBlocksInDb and CheckpointInterval are,
\* leaves a row less than one interval below the LIB and the finalized block, unless
\* the database is behind them or the executor gave an error for its finalized block.
THEOREM ResumesNearEnough == Spec => ResumesNearFinalized
<1>1. ASSUME TypeOK, CheckpointInv, Next, pc = "idle", pc' = "recv", store'.lib # NoLib,
             executor'.finalized = engine.finalized
      PROVE  LET lastLib == store'.lib + BlockDelta
                 latest  == Number(engine.finalized)
                 target  == IF lastLib < latest THEN lastLib ELSE latest
             IN  (target < StopBlock /\ \E n \in Keys(store') : n >= target)
                   => \/ stream'.next > target + 1 - CheckpointInterval
                      \/ stream'.next = StartBlock /\ target < StartBlock + CheckpointInterval
  <2>0. PICK latest, finalized : Starts(latest, finalized)
    BY <1>1, OnlyStartResumes, StartsLaunch
  <2>1. store' = OpenedStore /\ stream'.next = NextBlock(OpenedStore, engine.finalized)
    BY <1>1, <2>0 DEF Starts, Launch, ClearedLoop
  <2>2. store' = store /\ OpenedStore = store
    BY <1>1, <2>1, OpenedKeys
  <2>3. PICK t : t = IF store.lib + BlockDelta < Number(engine.finalized)
                     THEN store.lib + BlockDelta ELSE Number(engine.finalized)
    OBVIOUS
  <2>4. t \in Nat
    <3>1. store.lib \in Nat /\ BlockDelta \in Nat /\ Number(engine.finalized) \in Nat
      BY <1>1, <2>2, LibTypes
    <3> QED
      BY <2>3, <3>1
  <2>5. ASSUME t < StopBlock, NEW n \in Keys(store), n >= t
        PROVE  \/ NextBlock(store, engine.finalized) > t + 1 - CheckpointInterval
               \/ /\ NextBlock(store, engine.finalized) = StartBlock
                  /\ t < StartBlock + CheckpointInterval
    BY <1>1, <2>2, <2>3, <2>4, <2>5, ResumesNear
  <2> QED
    BY <2>1, <2>2, <2>3, <2>5
<1>2. TypeOK /\ CheckpointInv /\ [Next]_vars =>
        [pc = "idle" /\ pc' = "recv" /\ store'.lib # NoLib
           /\ executor'.finalized = engine.finalized =>
           LET lastLib == store'.lib + BlockDelta
               latest  == Number(engine.finalized)
               target  == IF lastLib < latest THEN lastLib ELSE latest
           IN  (target < StopBlock /\ \E n \in Keys(store') : n >= target)
                 => \/ stream'.next > target + 1 - CheckpointInterval
                    \/ stream'.next = StartBlock /\ target < StartBlock + CheckpointInterval]_vars
  BY <1>1
<1> QED
  BY <1>2, TypeCorrect, CheckpointsAreKept, PTL DEF Spec, ResumesNearFinalized

===============================================================================

--------------------------- MODULE ConsensusClientInv ---------------------------
(***************************************************************************)
(* Inductive invariants of ConsensusClient, from which its safety          *)
(* properties follow.                                                      *)
(***************************************************************************)
EXTENDS ConsensusClient

\* The hash of a block carries its number.
Numbered(b) == Number(b.hash) = b.num

\* Block "b" is the child of block "a".
Linked(a, b) ==
  /\ b.num = a.num + 1
  /\ a.hash = AncestorAt(b.hash, a.num)

LinkedSeq(blocks) ==
  /\ \A i \in 1..Len(blocks) : Numbered(blocks[i])
  /\ \A i \in 1..(Len(blocks) - 1) : Linked(blocks[i], blocks[i + 1])

\* Between taking a block and disposing of it.
Handling == pc \in {"prune", "putLib", "check"}

-------------------------------------------------------------------------------
(***************************************************************************)
(* What the client holds of a run is one chain: the batch, the block being *)
(* handled, the channel, and the parent of the block to come.              *)
(***************************************************************************)
RowsNumbered == \A n \in Keys(store) : Number(store.blocks[n]) = n

StreamNumbered == stream.status # "off" => Number(stream.parent) + 1 = stream.next

ChannelLinked ==
  /\ LinkedSeq(channel)
  /\ channel # << >> => channel[Len(channel)].hash = stream.parent

BlockLinked ==
  block # NoBlock =>
    /\ Numbered(block)
    /\ IF channel = << >> THEN block.hash = stream.parent ELSE Linked(block, channel[1])

\* The blocks that wait in the batch are ancestors of the block in hand, in order.
BatchOrdered ==
  /\ batch # << >> => block # NoBlock
  /\ \A i \in 1..Len(batch) :
       /\ Numbered(batch[i])
       /\ IsAncestor(batch[i].hash, block.hash)
       /\ Handling => batch[i].num < block.num
       /\ \A j \in 1..(i - 1) : batch[j].num < batch[i].num
  /\ pc \in {"newPayload", "forkChoice"} => batch[Len(batch)] = block

\* What holds of a run as long as no error answer was read as "no such block":
\* it knows the executor's blocks, and queues all that follow them.
ExecutorRead == executor.latest # NoHash /\ executor.finalized # NoHash

BatchLinked ==
  /\ LinkedSeq(batch)
  /\ batch # << >> =>
       /\ block # NoBlock
       /\ IF Handling THEN Linked(batch[Len(batch)], block) ELSE batch[Len(batch)] = block

\* A queued block is not one the executor had when it was looked up.
BatchIsNew ==
  \A i \in 1..Len(batch) :
    /\ batch[i].num > LatestEvmNum
    /\ \/ batch[i].num > Number(executor.latest)
       \/ batch[i].num > Number(engine.head)

\* The head of the executor moves only up to the block handled last.
HeadBelow ==
  Running =>
    \/ Number(engine.head) <= Number(executor.latest)
    \/ /\ block # NoBlock
       /\ Number(engine.head) <= block.num
       /\ Handling => Number(engine.head) < block.num
       /\ \A i \in 1..Len(batch) : Number(engine.head) < batch[i].num

RunIsExact ==
  /\ ExecutorRead
  /\ BatchLinked
  /\ BatchIsNew
  /\ HeadBelow

RunIsChain ==
  /\ RowsNumbered
  /\ StreamNumbered
  /\ ChannelLinked
  /\ BlockLinked
  /\ BatchOrdered
  /\ ~misread => RunIsExact

-------------------------------------------------------------------------------
(***************************************************************************)
(* When the translator gives every block its canonical content, all hashes *)
(* the client holds are canonical.                                         *)
(***************************************************************************)
CanonicalBlock(b) == b.hash = CanonHash(b.num)

\* A canonical hash at or below the block handled last.
CanonicalUpToBlock(hash) ==
  /\ block # NoBlock
  /\ \E n \in 0..block.num : hash = CanonHash(n)

RunIsCanonical ==
  /\ \A n \in Keys(store) : store.blocks[n] = CanonHash(n)
  /\ stream.status # "off" => stream.next > 0 /\ stream.parent = CanonHash(stream.next - 1)
  /\ \A i \in 1..Len(channel) : CanonicalBlock(channel[i])
  /\ \A i \in 1..Len(batch) : CanonicalBlock(batch[i])
  /\ block # NoBlock => CanonicalBlock(block)
  /\ lastLibHash # NoHash => CanonicalUpToBlock(lastLibHash)
  /\ pc \in {"newPayload", "forkChoice"} => CanonicalUpToBlock(safeHash)

\* SHIP sends irreversible blocks only: what is sent is what is finalized.
RunIsFinal ==
  /\ \A i \in 1..Len(channel) : IsFinal(channel[i])
  /\ block # NoBlock => IsFinal(block)
  /\ pc \in {"newPayload", "forkChoice"} => lastLibHash = block.hash

\* The executor holds a canonical chain and has finalized one of its blocks.
ExecutorIsCanonical ==
  /\ engine.head = CanonHash(Number(engine.head))
  /\ engine.finalized = CanonHash(Number(engine.finalized))
  /\ Number(engine.finalized) <= Number(engine.head)

-------------------------------------------------------------------------------
(***************************************************************************)
(* The native LIB only grows on its way from the node through the channel  *)
(* and the block in hand to the database, and what the executor calls      *)
(* finalized lies at or below it.                                          *)
(***************************************************************************)
StoredUpTo(n) == store.lib # NoLib => store.lib <= n

ChannelLibs ==
  \A i \in 1..Len(channel) :
    /\ channel[i].lib <= shipLib
    /\ StoredUpTo(channel[i].lib)
    /\ block # NoBlock => block.lib <= channel[i].lib
    /\ \A j \in 1..i : channel[j].lib <= channel[i].lib

BlockLib == block # NoBlock => block.lib <= shipLib /\ StoredUpTo(block.lib)

\* A hash at or below the EVM block of the node's LIB, or of genesis.
Irreversible(hash) == Number(hash) = 0 \/ Number(hash) + BlockDelta <= shipLib

LibInv ==
  /\ StoredUpTo(shipLib)
  /\ ChannelLibs
  /\ BlockLib
  /\ Irreversible(engine.finalized)
  /\ lastLibHash # NoHash => Irreversible(lastLibHash)

-------------------------------------------------------------------------------
(***************************************************************************)
(* What the executor has: with a deterministic translator, canonical       *)
(* hashes, everything up to its head, and up to the block in hand what     *)
(* does not wait in the batch.                                             *)
(***************************************************************************)
KnownUpTo(n) == \A k \in 0..n : CanonHash(k) \in engine.known

HeadKnown == Number(engine.head) >= StartBlock - 1 /\ KnownUpTo(Number(engine.head))

\* The number of the block taken next by a run that has not taken any.
FirstNum == IF channel = << >> THEN stream.next ELSE channel[1].num

Queued(n) == \E i \in 1..Len(batch) : batch[i].num = n

\* Block n is not missed by the executor when the batch is sent.
Covered(n) == CanonHash(n) \in engine.known \/ Queued(n)

RunKnown ==
  Running =>
    /\ LatestEvmNum <= Number(engine.head)
    /\ \A i \in 1..Len(batch) : batch[i].num >= StartBlock
    /\ block = NoBlock => FirstNum >= StartBlock /\ KnownUpTo(FirstNum - 1)
    /\ block # NoBlock =>
         /\ block.num >= StartBlock
         /\ \A n \in 0..(block.num - 1) : Covered(n)
         /\ ~Handling => Covered(block.num)
    /\ pc \in {"newPayload", "forkChoice"} => LatestEvmNum < block.num
    /\ pc = "forkChoice" => KnownUpTo(block.num)

-------------------------------------------------------------------------------
(***************************************************************************)
(* All that comes from a validated stream descends from the block named by *)
(* validate_hash.                                                          *)
(***************************************************************************)
Validated(hash) == Number(hash) >= StartBlock /\ AncestorAt(hash, StartBlock) = ValidateHash

RunIsValidated ==
  /\ stream.validated /\ stream.status # "off" => Validated(stream.parent)
  /\ \A i \in 1..Len(channel) : Validated(channel[i].hash)
  /\ block # NoBlock => Validated(block.hash)
  /\ \A i \in 1..Len(batch) : Validated(batch[i].hash)

-------------------------------------------------------------------------------
(***************************************************************************)
(* The rows of the database, whatever the translator computes: a LIB       *)
(* stored is never behind what the executor has finalized, so that a run   *)
(* resumes at the finalized block; and the rows below the one it resumes   *)
(* after are its ancestors.                                                *)
(***************************************************************************)
FinalizedNum == Number(engine.finalized)

FinalizedUpTo(n) == FinalizedNum = 0 \/ FinalizedNum + BlockDelta <= n

FinalizedIsStored ==
  /\ store.lib # NoLib => FinalizedUpTo(store.lib)
  /\ \A i \in 1..Len(channel) : FinalizedUpTo(channel[i].lib)
  /\ block # NoBlock => FinalizedUpTo(block.lib)

\* Rows and blocks lie in the range of the run.
BlockRange == StartBlock..StopBlock

RowsInRange ==
  /\ Keys(store) \subseteq BlockRange
  /\ stream.next >= StartBlock
  /\ \A i \in 1..Len(channel) : channel[i].num \in BlockRange
  /\ block # NoBlock => block.num \in BlockRange

\* Before a LIB is stored there is one row at most.
FirstRowOnly == store.lib = NoLib => Keys(store) \subseteq {StartBlock}

LibOfRun ==
  /\ lib = IF store.lib = NoLib THEN 0 ELSE store.lib
  /\ block # NoBlock /\ pc \notin {"prune", "putLib"} => store.lib = block.lib
  /\ store.lib = NoLib => StartBlock = IF block = NoBlock THEN FirstNum ELSE block.num

LibTracked == FinalizedIsStored /\ RowsInRange /\ FirstRowOnly /\ (Running => LibOfRun)

\* How far a run has come: the block in hand, or the parent of its first one.
Reached == IF block = NoBlock THEN FirstNum - 1 ELSE block.num

ReachedHash ==
  IF block # NoBlock THEN block.hash
  ELSE IF channel = << >> THEN stream.parent
  ELSE AncestorAt(channel[1].hash, channel[1].num - 1)

\* Rows at which a run may resume: no run resumes after the stop block.
ResumeRows == {k \in GetBlockOrPrev(store, FinalizedNum) : k < StopBlock}

RowsBelow(n, hash) == \A k \in Keys(store) : k <= n => IsAncestor(store.blocks[k], hash)

RowsOfRun ==
  /\ RowsBelow(Reached, ReachedHash)
  /\ store.lib # NoLib => \A k \in ResumeRows : k <= Reached
  /\ pc \in {"newPayload", "forkChoice"} => IsAncestor(safeHash, block.hash)

ResumeRowsAreChains == \A k \in ResumeRows : RowsBelow(k, store.blocks[k])

RowsOnChain ==
  /\ ResumeRowsAreChains
  /\ Running => RowsOfRun

\* A run that an error answer made resume too low may leave other rows above it.
RowsInv == ~misplaced => RowsOnChain

-------------------------------------------------------------------------------
(***************************************************************************)
(* Pruning leaves the checkpoints: from the start block up to any row, and *)
(* up to where the run has come.                                           *)
(***************************************************************************)
CheckpointsUpTo(n) == \A m \in StartBlock..n : m % CheckpointInterval = 0 => m \in Keys(store)

CheckpointInv ==
  /\ stream.next >= StartBlock
  /\ \A i \in 1..Len(channel) : channel[i].num \in StartBlock..MaxBlock
  /\ \A k \in Keys(store) : k >= StartBlock /\ CheckpointsUpTo(k)
  /\ Running => CheckpointsUpTo(Reached)

===============================================================================

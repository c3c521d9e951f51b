------------------------------ MODULE ForkedStream ------------------------------
(***************************************************************************)
(* BlockMap of final_processor.rs: which EVM block the next one is built   *)
(* on when the native node changes forks, as in tests/mock_fork.rs.        *)
(*                                                                         *)
(* A native hash is the sequence of the fork's labels up to the block.  An *)
(* EVM hash commits to the native block and to the parent it was built on: *)
(* it is the sequence of labels the translator has put together, and is    *)
(* right if it is that of the native block.  The client asks SHIP for      *)
(* irreversible blocks (raw_deserializer.rs:75), a stream in which BlockMap *)
(* never meets a fork; the translator as such does not depend on that.     *)
(***************************************************************************)
EXTENDS Integers, Sequences, FiniteSets, Functions

CONSTANTS
  Labels,        \* what distinguishes two native blocks with one parent
  MaxBlock,      \* native blocks
  StartBlock,    \* native number of the first block of the run
  BlockDelta,    \* block_delta of the EVM chain
  MaxSwitches    \* changes of fork

ASSUME StreamAssumption ==
  /\ Labels # {}
  /\ MaxBlock \in Nat /\ StartBlock \in 1..MaxBlock
  /\ BlockDelta \in 0..(StartBlock - 1)
  /\ MaxSwitches \in Nat

VARIABLES
  fork,            \* the node's chain: the native hash of its head
  lib,             \* its last irreversible block
  next,            \* number of the block it streams next
  switches,        \* changes of fork so far
  prev_block_num, parent_hash, map,   \* BlockMap
  finished,        \* the block sent last: EVM number, native hash, EVM hash
  failed           \* has the task panicked

node == <<fork, lib, next, switches>>
blockMap == <<prev_block_num, parent_hash, map>>
vars == <<node, blockMap, finished, failed>>

None == 0
NoHash == << >>

\* The native block number n of a chain, as its hash.
BlockAt(chain, n) == SubSeq(chain, 1, n)

Chains(length) == [1..length -> Labels]

\* The stream starts after a block that is final and whose EVM hash is configured
\* as prev_hash.
Init ==
  /\ fork \in UNION {Chains(n) : n \in (StartBlock - 1)..MaxBlock}
  /\ lib \in (StartBlock - 1)..Len(fork)
  /\ next = StartBlock
  /\ switches = 0
  /\ prev_block_num = None
  /\ parent_hash = BlockAt(fork, StartBlock - 1)
  /\ map = << >>
  /\ finished = [num |-> None, ship_hash |-> NoHash, block_hash |-> NoHash]
  /\ failed = FALSE

-------------------------------------------------------------------------------
(***************************************************************************)
(* The native node (external).                                             *)
(***************************************************************************)
ProduceBlock ==
  /\ Len(fork) < MaxBlock
  /\ \E label \in Labels : fork' = Append(fork, label)
  /\ UNCHANGED <<lib, next, switches, blockMap, finished, failed>>

AdvanceLib ==
  /\ lib < Len(fork)
  /\ lib' \in (lib + 1)..Len(fork)
  /\ UNCHANGED <<fork, next, switches, blockMap, finished, failed>>

\* Another fork wins, from an irreversible block or a later one.  What has been
\* streamed of the old one is followed by the new one's blocks after the base.
SwitchFork ==
  /\ switches < MaxSwitches
  /\ \E base \in lib..(Len(fork) - 1) :
       /\ \E label \in Labels \ {fork[base + 1]} : fork' = Append(BlockAt(fork, base), label)
       /\ next' = IF next > base + 1 THEN base + 1 ELSE next
  /\ switches' = switches + 1
  /\ UNCHANGED <<lib, blockMap, finished, failed>>

-------------------------------------------------------------------------------
(***************************************************************************)
(* final_processor.                                                        *)
(***************************************************************************)
\* A block as SHIP streams it, with the LIB of that moment.
Streamed ==
  [num |-> next, ship_hash |-> BlockAt(fork, next), prev_block_hash |-> BlockAt(fork, next - 1),
   lib_num |-> lib]

\* Slip: the parent is always the block before.
AlwaysPrevious(block) == {parent_hash}

\* BlockMap::parent_hash: the hash, if it can be found.
ParentHash(block) ==
  IF prev_block_num = None \/ block.num = prev_block_num + 1 THEN {parent_hash}
  ELSE {map[h].hash : h \in {h \in DOMAIN map : h = block.prev_block_hash}}

\* Slip: the LIB itself is dropped.
RetainedAbove(entries, lib_num) ==
  Restrict(entries, {h \in DOMAIN entries : entries[h].num > lib_num})

\* Slip: only what is newer than the block before is kept.
RetainedNewest(entries, lib_num) ==
  Restrict(entries, {h \in DOMAIN entries : entries[h].num > prev_block_num})

Retained(entries, lib_num) ==
  Restrict(entries, {h \in DOMAIN entries : entries[h].num >= lib_num})

\* Slip: the EVM number is taken for the native one.
WithoutDelta(evm_num) == evm_num

\* TelosEVMBlock::block_num_with_delta.
WithDelta(evm_num) == evm_num + BlockDelta

\* BlockMap::next.
Remember(block, lib_num) ==
  LET num == WithDelta(block.num)
      entry == [num |-> num, hash |-> block.block_hash]
      added == [h \in DOMAIN map \cup {block.ship_hash} |->
                  IF h = block.ship_hash THEN entry ELSE map[h]]
  IN  /\ prev_block_num' = num
      /\ map' = Retained(added, lib_num)
      /\ parent_hash' = block.block_hash

\* The loop body for one block: its parent is found, it is built and sent.
ProcessBlock ==
  /\ ~failed
  /\ next <= Len(fork)
  /\ \E parent \in ParentHash(Streamed) :
       finished' = [num |-> Streamed.num - BlockDelta, ship_hash |-> Streamed.ship_hash,
                    block_hash |-> Append(parent, fork[next])]
  /\ Remember(finished', Streamed.lib_num)
  /\ next' = next + 1
  /\ UNCHANGED <<fork, lib, switches, failed>>

\* Slip: a block without a parent is skipped.
SkipBlock ==
  /\ ~failed
  /\ next <= Len(fork)
  /\ ParentHash(Streamed) = {}
  /\ next' = next + 1
  /\ UNCHANGED <<fork, lib, switches, blockMap, finished, failed>>

\* expect("Block parent hash can be found").
ParentIsMissing ==
  /\ ~failed
  /\ next <= Len(fork)
  /\ ParentHash(Streamed) = {}
  /\ failed' = TRUE
  /\ UNCHANGED <<node, blockMap, finished>>

Next == ProduceBlock \/ AdvanceLib \/ SwitchFork \/ ProcessBlock \/ ParentIsMissing

Spec == Init /\ [][Next]_vars

\* The node streams and the translator works on.
FairSpec == Spec /\ WF_vars(ProcessBlock) /\ WF_vars(ParentIsMissing)

-------------------------------------------------------------------------------
(***************************************************************************)
(* Properties.                                                             *)
(***************************************************************************)
Hashes == UNION {Chains(n) : n \in 0..MaxBlock}

\* Types of the variables.
TypeOK ==
  /\ fork \in Hashes /\ Len(fork) >= StartBlock - 1
  /\ lib \in (StartBlock - 1)..Len(fork)
  /\ next \in StartBlock..(Len(fork) + 1)
  /\ switches \in 0..MaxSwitches
  /\ prev_block_num \in {None} \cup StartBlock..MaxBlock
  /\ parent_hash \in Hashes
  /\ DOMAIN map \subseteq Hashes
  /\ \A h \in DOMAIN map : map[h] \in [num : StartBlock..MaxBlock, hash : Hashes]
  /\ finished \in [num : 0..MaxBlock, ship_hash : Hashes, block_hash : Hashes]
  /\ failed \in BOOLEAN

HasFinished == prev_block_num # None

\* Through any number of forks, also forks of forks, each EVM block is built on
\* the EVM block of its native parent.
BuiltOnNativeParent == HasFinished => finished.block_hash = finished.ship_hash

\* The map holds what a fork may need: the blocks sent of the chain the stream is
\* on, from the last irreversible one known on.
ForkBasesAreKept ==
  HasFinished =>
    \A n \in StartBlock..(next - 1) :
      n >= lib => BlockAt(fork, n) \in DOMAIN map

\* The parent of a block is missing only when a fork replaces the first block of
\* the run, whose parent has never been in the map.
FailsOnlyAtStart == failed => next = StartBlock

\* When the node does not change any more, the block sent last is its head, built
\* on its ancestors.
EndsOnHead ==
  <>[](failed \/ Len(fork) < StartBlock \/ finished.block_hash = fork)
=============================================================================

------------------------------- MODULE EvmChain -------------------------------
(***************************************************************************)
(* Blocks of the Telos EVM chain, and their position relative to the       *)
(* native (Antelope) chain they are translated from.                       *)
(*                                                                         *)
(* A block hash commits to the block's content and to its parent, so a     *)
(* hash is modelled as the sequence of contents from block 1 to the block: *)
(* two hashes are equal exactly when the blocks and all their ancestors    *)
(* are.  Block 0 is the genesis block and its hash is the empty sequence.  *)
(***************************************************************************)
EXTENDS Integers, Sequences

CONSTANTS
  Content,     \* what a translated block may contain
  Canonical,   \* the content every correct node computes
  BlockDelta   \* native number minus EVM number (36 on mainnet, 57 on testnet)

ASSUME ChainAssumption ==
  /\ Canonical \in Content
  /\ BlockDelta \in Nat

Hash == Seq(Content)

Genesis == << >>

Number(hash) == Len(hash)

Child(parent, content) == Append(parent, content)

\* The hash of the ancestor of "hash" at height n (n <= Number(hash)).
AncestorAt(hash, n) == SubSeq(hash, 1, n)

IsAncestor(a, hash) ==
  /\ Number(a) <= Number(hash)
  /\ a = AncestorAt(hash, Number(a))

CanonHash(n) == [i \in 1..n |-> Canonical]

-------------------------------------------------------------------------------
(***************************************************************************)
(* What a TelosEVMBlock tells the client: its EVM number, its hash and the *)
(* number of the last irreversible native block when it was read.          *)
(***************************************************************************)
Block == [num : Nat, hash : Hash, lib : Nat]

\* TelosEVMBlock::lib_evm_num: saturating, so 0 before the EVM chain started.
LibEvmNum(block) == IF block.lib < BlockDelta THEN 0 ELSE block.lib - BlockDelta

BlockNumWithDelta(block) == block.num + BlockDelta

IsFinal(block) == BlockNumWithDelta(block) <= block.lib

IsLib(block) == BlockNumWithDelta(block) = block.lib
===============================================================================

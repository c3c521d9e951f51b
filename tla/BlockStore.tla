------------------------------ MODULE BlockStore ------------------------------
(***************************************************************************)
(* The RocksDB database of the client (client/src/data.rs).  Its rows are  *)
(* "blocks:<number, zero padded>" -> {number, hash} and one row "lib".     *)
(* Keys sort by number, and "lib" sorts after every block row.             *)
(*                                                                         *)
(* An Option<Block> that a lookup returns is the set of the keys found,    *)
(* which has at most one element.                                          *)
(***************************************************************************)
EXTENDS EvmChain

CONSTANTS
  MaxBlock,    \* highest block number of an instance
  MaxLib,      \* highest native LIB number of an instance
  NoHash,      \* no row stored under a number
  NoLib        \* no "lib" row stored

ASSUME StoreAssumption ==
  /\ MaxBlock \in Nat
  /\ MaxLib \in Nat
  /\ NoHash \notin Hash
  /\ NoLib \notin Nat

Numbers == 0..MaxBlock

Store == [blocks : [Numbers -> Hash \cup {NoHash}], lib : Nat \cup {NoLib}]

EmptyStore == [blocks |-> [n \in Numbers |-> NoHash], lib |-> NoLib]

\* Slip: a row that is there stays.
PutBlockOnce(store, block) ==
  IF store.blocks[block.num] # NoHash THEN store
  ELSE [store EXCEPT !.blocks[block.num] = block.hash]

\* Database::put_block overwrites the row of that number.
PutBlock(store, block) == [store EXCEPT !.blocks[block.num] = block.hash]

\* Database::delete_block; deleting a row that is not there is not an error.
DeleteBlock(store, n) == [store EXCEPT !.blocks[n] = NoHash]

\* Slip: the number of the block is stored for its LIB.
PutOwnNumber(store, block) == [store EXCEPT !.lib = block.num]

\* Database::put_lib: the native LIB number that came with the block.
PutLib(store, block) == [store EXCEPT !.lib = block.lib]

Keys(store) == {n \in Numbers : store.blocks[n] # NoHash}

\* Slip: the iterator runs forward.
GetBlockOrNext(store, n) ==
  {k \in Keys(store) : k >= n /\ \A j \in Keys(store) : j >= n => k <= j}

\* Database::get_block_or_prev seeks the last row at or before n.
GetBlockOrPrev(store, n) ==
  {k \in Keys(store) : k <= n /\ \A j \in Keys(store) : j <= n => j <= k}

\* The hash found by such a lookup, or "default".
HashOr(store, found, default) ==
  IF found = {} THEN default ELSE store.blocks[CHOOSE k \in found : TRUE]
===============================================================================

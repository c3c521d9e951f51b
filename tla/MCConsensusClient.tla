--------------------------- MODULE MCConsensusClient ---------------------------
(***************************************************************************)
(* Instances of ConsensusClient for TLC: the executors the client may meet *)
(* at its first start.                                                     *)
(***************************************************************************)
EXTENDS ConsensusClientInv

\* A fresh executor, and executors that already hold part of the real chain.
CanonicalHeads == {CanonHash(n) : n \in 0..2}

\* Executors that may hold any chain of up to two blocks.
AnyHeads == UNION {[1..n -> Content] : n \in 0..2}

\* The block that validate_hash names.
CanonicalStart == CanonHash(StartBlock)

\* An executor that finalized a block the translator computes differently.
DivergentHead == {<<x>> : x \in Content \ {Canonical}}
===============================================================================

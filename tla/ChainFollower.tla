----------------------------- MODULE ChainFollower -----------------------------
(***************************************************************************)
(* What the consensus client promises about the execution client: its      *)
(* chain follows the canonical chain, block by block or many at a time,    *)
(* and its finalized block follows behind.  Two things take the chain      *)
(* back: a restart of the execution client, and an error it answers with   *)
(* when asked for its blocks, after which the client may name any          *)
(* canonical block again.                                                  *)
(***************************************************************************)
EXTENDS EvmChain

VARIABLES
  chain,       \* hash of the last block of the executor's canonical chain
  finalized,   \* hash of the executor's finalized block
  misled       \* the run in progress has been given an error for an answer

Init ==
  /\ chain = CanonHash(Number(chain))
  /\ IsAncestor(finalized, chain)

Extend ==
  /\ IsAncestor(chain, chain')
  /\ chain' = CanonHash(Number(chain'))
  /\ IsAncestor(finalized, finalized')
  /\ IsAncestor(finalized', chain')

Lose ==
  /\ IsAncestor(chain', chain)
  /\ finalized' \in {Genesis, finalized}
  /\ IsAncestor(finalized', chain')

Repeat ==
  /\ misled
  /\ chain' = CanonHash(Number(chain'))
  /\ IsAncestor(finalized', chain')

Spec == Init /\ [][Extend \/ Lose \/ Repeat]_<<chain, finalized>>
===============================================================================

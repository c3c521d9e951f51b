---------------------------- MODULE ExecutionEngine ----------------------------
(***************************************************************************)
(* The execution client (reth) behind the Engine API.  It is not part of   *)
(* this repository: its state is what execution_api_client.rs can observe  *)
(* of it, and its operations are what the calls of client.rs rely on.      *)
(*                                                                         *)
(*   known      blocks whose payload it has executed, with all ancestors   *)
(*   head       the head of its canonical chain ("latest")                 *)
(*   safe       the block last named safe                                  *)
(*   finalized  the block last named finalized ("finalized"; a null answer *)
(*              makes the client read block 0, so "none yet" is Genesis)   *)
(***************************************************************************)
EXTENDS EvmChain, FiniteSets

Engine == [known : SUBSET Hash, head : Hash, safe : Hash, finalized : Hash]

Prefixes(hash) == {AncestorAt(hash, n) : n \in 0..Number(hash)}

\* An executor whose canonical chain ends in "head".
EngineAt(head, finalized) ==
  [known |-> Prefixes(head), head |-> head, safe |-> finalized, finalized |-> finalized]

\* eth_getBlockByNumber, when it is answered with a result: the canonical block at
\* height n, if it is that long.  An error answer, which the client cannot tell from
\* "no such block", is up to the client: see ReadAs and QueueMisread there.
HasBlockNumber(engine, n) == n <= Number(engine.head)

BlockByNumber(engine, n) == AncestorAt(engine.head, n)

\* engine_newPayloadV1 for each block of a batch: a payload whose ancestors are
\* all there is executed, any other is answered SYNCING and left unconnected.
NewPayloads(engine, hashes) ==
  LET offered == engine.known \cup hashes
  IN  [engine EXCEPT !.known = {h \in offered : Prefixes(h) \subseteq offered}]

\* engine_forkchoiceUpdatedV1 with a known head; with an unknown head the answer
\* is SYNCING and nothing changes.
ForkChoiceValid(engine, head) == head \in engine.known

ForkChoiceUpdated(engine, head, safe, finalized) ==
  IF ForkChoiceValid(engine, head)
  THEN [engine EXCEPT !.head = head, !.safe = safe, !.finalized = finalized]
  ELSE engine

\* A restart keeps a persisted prefix of the canonical chain.  Side chains and
\* blocks held in memory only are gone; the finalized mark survives if its block
\* does, or is forgotten.
Restarted(engine) ==
  UNION {{EngineAt(head, mark) :
            mark \in {f \in {Genesis, engine.finalized} : IsAncestor(f, head)}} :
         head \in Prefixes(engine.head)}
===============================================================================

---------------------------- MODULE ConsensusClient ----------------------------
(***************************************************************************)
(* The consensus client process: main.rs retries run_client; run_client    *)
(* builds a client (main_utils.rs), which resumes from its database, and   *)
(* runs it (client.rs) on the blocks the translator sends, feeding them to *)
(* the execution client.                                                   *)
(*                                                                         *)
(* A message of the loop of ConsensusClient::run is taken in steps, cut    *)
(* where the process awaits a call or writes to the database, so that a    *)
(* crash, a failed call or another process can come between any two.       *)
(***************************************************************************)
EXTENDS BlockStore, ExecutionEngine

CONSTANTS
  NoBlock,               \* no block taken yet in this run
  Translations,          \* contents the translator may give a block
  StartBlock,            \* config evm_start_block; prev_hash is its parent
  StopBlock,             \* config evm_stop_block (above MaxBlock: none)
  ValidateHash,          \* config validate_hash (NoHash: none)
  BatchSize,             \* config batch_size
  SafeHashLookup,        \* SAFE_HASH_LOOKUP, 50 in the code
  LatestBlocksInDb,      \* config latest_blocks_in_db_num
  CheckpointInterval,    \* config block_checkpoint_interval
  MaximumSyncRange,      \* config maximum_sync_range
  MaxRetry,              \* config max_retry
  Clean,                 \* the --clean flag
  IrreversibleOnly,      \* what raw_deserializer asks SHIP for: TRUE in the code
  ChannelCap,            \* capacity of the block channel, 1000 in the code
  InitialHeads,          \* hashes the executor may have as head when first met
  Faults, MaxFaults      \* kinds of fault the environment causes, and how many

ASSUME ClientAssumption ==
  /\ NoBlock \notin Block
  /\ Translations \in (SUBSET Content) \ {{}}
  /\ StartBlock \in 1..MaxBlock
  /\ StopBlock \in Nat /\ StartBlock <= StopBlock
  /\ ValidateHash \in Hash \cup {NoHash}
  /\ BatchSize \in Nat \ {0}
  /\ SafeHashLookup \in Nat
  /\ LatestBlocksInDb \in Nat
  /\ CheckpointInterval \in Nat \ {0}
  /\ MaximumSyncRange \in Nat
  /\ MaxRetry \in Nat
  /\ Clean \in BOOLEAN /\ IrreversibleOnly \in BOOLEAN
  /\ ChannelCap \in Nat \ {0}
  /\ \A h \in InitialHeads : h \in Hash /\ Number(h) >= StartBlock - 1
  /\ Faults \subseteq {"call", "errorAnswer", "response", "database", "crash", "stream",
                       "streamEnd", "executor", "executorUnnoticed"}
  /\ MaxFaults \in Nat

VARIABLES
  store,       \* the database, which outlives the process
  engine,      \* the execution client
  shipLib,     \* native LIB of the node that serves SHIP
  stream,      \* the translator: next block to send, its parent, how it ended
  channel,     \* blocks sent and not yet received
  pc,          \* where the process is
  attempt,     \* how many times this process has called run_client
  executor,    \* the executor's latest and finalized blocks, as read at start
  block,       \* the block being handled, or the last one handled
  lib,         \* "lib" of run(): the LIB last stored, 0 by default
  isNewLib,    \* is_new_lib of the block being handled
  batch,       \* blocks not sent yet
  lastLibHash, \* last_lib_hash of run()
  safeHash,    \* safe_hash of the batch being sent
  misread,     \* history: an error answer was read as "no such block" in this run
  misplaced,   \* history: some run has started from a finalized block so misread
  faults       \* how many faults the environment has caused

ship == <<shipLib, stream, channel>>
loop == <<executor, block, lib, isNewLib, batch, lastLibHash, safeHash, misread>>
vars == <<store, engine, ship, pc, attempt, loop, misplaced, faults>>

Running == pc \notin {"idle", "finished", "failed"}

-------------------------------------------------------------------------------
(***************************************************************************)
(* Starting and ending a run.                                              *)
(***************************************************************************)

\* ConsensusClient::new opens the database, or deletes and recreates it: the
\* flag is the same at every retry.
OpenedStore == IF Clean THEN EmptyStore ELSE store

\* Slip: the executor is not asked.
LastStored(opened, finalized) ==
  IF opened.lib = NoLib THEN {} ELSE GetBlockOrPrev(opened, opened.lib + BlockDelta)

\* The row to resume after: at most the stored LIB (to which the native offset
\* is added) and at most the finalized block that was read.
LastChecked(opened, finalized) ==
  IF opened.lib = NoLib \/ finalized = NoHash
  THEN {}
  ELSE LET lastLib == opened.lib + BlockDelta
           latest == Number(finalized)
       IN  GetBlockOrPrev(opened, IF lastLib < latest THEN lastLib ELSE latest)

InStartStopRange(n) == StartBlock <= n /\ n <= StopBlock

\* Keys from which the start block and prev_hash are overridden.
ResumeKeys(opened, finalized) ==
  {k \in LastChecked(opened, finalized) : InStartStopRange(k + 1)}

PrevHash(opened, finalized) ==
  HashOr(opened, ResumeKeys(opened, finalized), CanonHash(StartBlock - 1))

NextBlock(opened, finalized) ==
  IF ResumeKeys(opened, finalized) = {}
  THEN StartBlock
  ELSE 1 + CHOOSE k \in ResumeKeys(opened, finalized) : TRUE

\* sync_range is None when no finalized block was read, or one behind the start.
AboveMaximumRange(start, finalized) ==
  finalized # NoHash /\ Number(finalized) - start > MaximumSyncRange

\* get_latest_block and get_latest_finalized_block: a null result, which is what
\* an error answer leaves, makes them ask for block 0, and a second one gives None.
ReadAs(hash) == {hash, Genesis, NoHash}

\* Locals of run() before the first message.
ClearedLoop(stored, latest, finalized) ==
  /\ executor' = [latest |-> latest, finalized |-> finalized]
  /\ block' = NoBlock
  /\ lib' = IF stored = NoLib THEN 0 ELSE stored
  /\ isNewLib' = FALSE
  /\ batch' = << >>
  /\ lastLibHash' = NoHash
  /\ safeHash' = Genesis

NoStream ==
  [next |-> StartBlock, parent |-> Genesis, validated |-> FALSE, status |-> "off"]

NoRun ==
  /\ executor' = [latest |-> Genesis, finalized |-> Genesis]
  /\ block' = NoBlock
  /\ lib' = 0
  /\ isNewLib' = FALSE
  /\ batch' = << >>
  /\ lastLibHash' = NoHash
  /\ safeHash' = Genesis
  /\ misread' = FALSE
  /\ stream' = NoStream
  /\ channel' = << >>

\* run_client returned an error: main retries max_retry times, then exits.
AttemptFails ==
  /\ pc' = IF attempt > MaxRetry THEN "failed" ELSE "idle"
  /\ NoRun
  /\ UNCHANGED attempt

Fault(kind) ==
  /\ kind \in Faults
  /\ faults < MaxFaults
  /\ faults' = faults + 1

Init ==
  /\ store = EmptyStore
  /\ shipLib \in 0..MaxLib
  /\ \E head \in InitialHeads :
       \E n \in 0..Number(head) :
         /\ n > 0 => n + BlockDelta <= shipLib  \* what is finalized is irreversible
         /\ engine = EngineAt(head, AncestorAt(head, n))
  /\ stream = NoStream
  /\ channel = << >>
  /\ pc = "idle"
  /\ attempt = 0
  /\ executor = [latest |-> Genesis, finalized |-> Genesis]
  /\ block = NoBlock
  /\ lib = 0
  /\ isNewLib = FALSE
  /\ batch = << >>
  /\ lastLibHash = NoHash
  /\ safeHash = Genesis
  /\ misread = FALSE
  /\ misplaced = FALSE
  /\ faults = 0

\* run_client: build the client, pick the resume point from what the executor is
\* read to have, and spawn the client and the translator.
Launch(latest, finalized) ==
  /\ pc = "idle"
  /\ attempt' = attempt + 1
  /\ store' = OpenedStore
  /\ ~AboveMaximumRange(NextBlock(OpenedStore, finalized), finalized)
  /\ pc' = "recv"
  /\ ClearedLoop(OpenedStore.lib, latest, finalized)
  /\ stream' = [next |-> NextBlock(OpenedStore, finalized),
                parent |-> PrevHash(OpenedStore, finalized),
                validated |-> (ValidateHash = NoHash), status |-> "running"]
  /\ channel' = << >>
  /\ UNCHANGED <<engine, shipLib>>

StartAttempt ==
  /\ Launch(engine.head, engine.finalized)
  /\ misread' = FALSE
  /\ UNCHANGED <<misplaced, faults>>

\* "latest" or "finalized" is answered with an error, and the run goes on.
StartMisread ==
  /\ \E latest \in ReadAs(engine.head), finalized \in ReadAs(engine.finalized) :
       /\ latest # engine.head \/ finalized # engine.finalized
       /\ Launch(latest, finalized)
       /\ misplaced' = (misplaced \/ finalized # engine.finalized)
  /\ misread' = TRUE
  /\ Fault("errorAnswer")

\* Error::RangeAboveMaximum.
StartAboveMaximumRange ==
  /\ pc = "idle"
  /\ AboveMaximumRange(NextBlock(OpenedStore, engine.finalized), engine.finalized)
  /\ attempt' = attempt + 1
  /\ store' = OpenedStore
  /\ pc' = IF attempt' > MaxRetry THEN "failed" ELSE "idle"
  /\ UNCHANGED <<engine, ship, loop, misplaced, faults>>

\* The executor cannot be reached, or gives an answer that is no JSON-RPC.
StartUnreachable ==
  /\ pc = "idle"
  /\ Fault("call")
  /\ attempt' = attempt + 1
  /\ store' = OpenedStore
  /\ pc' = IF attempt' > MaxRetry THEN "failed" ELSE "idle"
  /\ UNCHANGED <<engine, ship, loop, misplaced>>

-------------------------------------------------------------------------------
(***************************************************************************)
(* The translator, seen from the client: consecutive blocks from the start *)
(* block to the stop block, each the child of the one before.              *)
(***************************************************************************)
CanTranslate ==
  /\ stream.status = "running"
  /\ stream.next <= StopBlock /\ stream.next <= MaxBlock
  /\ IrreversibleOnly => stream.next + BlockDelta <= shipLib

\* Slip: no block is compared.
ValidatesAnything(hash) == TRUE

\* The first block of every run is compared with validate_hash.
Validates(hash) == stream.validated \/ hash = ValidateHash

TranslatorSends ==
  /\ CanTranslate
  /\ Len(channel) < ChannelCap
  /\ \E content \in Translations :
       LET hash == Child(stream.parent, content)
       IN  /\ Validates(hash)
           /\ channel' = Append(channel, [num |-> stream.next, hash |-> hash, lib |-> shipLib])
           /\ stream' = [stream EXCEPT !.next = @ + 1, !.parent = hash, !.validated = TRUE]
  /\ UNCHANGED <<store, engine, shipLib, pc, attempt, loop, misplaced, faults>>

\* "Initial hash validation failed!": the translator ends with an error.
TranslatorRejects ==
  /\ CanTranslate
  /\ \E content \in Translations : ~Validates(Child(stream.parent, content))
  /\ stream' = [stream EXCEPT !.status = "error"]
  /\ UNCHANGED <<store, engine, shipLib, channel, pc, attempt, loop, misplaced, faults>>

\* After the stop block the final processor drops its sender.
TranslatorStops ==
  /\ stream.status = "running"
  /\ stream.next > StopBlock
  /\ stream' = [stream EXCEPT !.status = "ended"]
  /\ UNCHANGED <<store, engine, shipLib, channel, pc, attempt, loop, misplaced, faults>>

\* The SHIP connection closes: ship_reader breaks its loop and every task of the
\* translator ends with Ok.
StreamEnds ==
  /\ stream.status = "running"
  /\ Fault("streamEnd")
  /\ stream' = [stream EXCEPT !.status = "ended"]
  /\ UNCHANGED <<store, engine, shipLib, channel, pc, attempt, loop, misplaced>>

\* A task of the translator fails.
StreamFails ==
  /\ stream.status = "running"
  /\ Fault("stream")
  /\ stream' = [stream EXCEPT !.status = "error"]
  /\ UNCHANGED <<store, engine, shipLib, channel, pc, attempt, loop, misplaced>>

LibAdvances ==
  /\ shipLib < MaxLib
  /\ shipLib' \in (shipLib + 1)..MaxLib
  /\ UNCHANGED <<store, engine, stream, channel, pc, attempt, loop, misplaced, faults>>

-------------------------------------------------------------------------------
(***************************************************************************)
(* The loop of ConsensusClient::run.                                       *)
(***************************************************************************)

\* rx.recv() and put_block.
ReceiveBlock ==
  /\ pc = "recv"
  /\ channel # << >>
  /\ channel' = Tail(channel)
  /\ block' = Head(channel)
  /\ store' = PutBlock(store, block')
  /\ pc' = "prune"
  /\ UNCHANGED <<engine, shipLib, stream, attempt, executor, lib, isNewLib, batch,
                 lastLibHash, safeHash, misread, misplaced, faults>>

\* rx.recv() gives None: run() returns Ok whatever is still in "batch", and
\* run_client returns the translator's error if it has one.
EndOfStream ==
  /\ pc = "recv"
  /\ channel = << >>
  /\ \/ /\ stream.status = "ended"
        /\ pc' = "finished"
        /\ UNCHANGED <<stream, channel, attempt, loop>>
     \/ /\ stream.status = "error"
        /\ AttemptFails
  /\ UNCHANGED <<store, engine, shipLib, misplaced, faults>>

LatestStart ==
  IF block.num < LatestBlocksInDb THEN 0 ELSE block.num - LatestBlocksInDb

\* Slip: no checkpoint is kept.
PruneAlways ==
  /\ pc = "prune"
  /\ store' = IF LatestStart > 0 THEN DeleteBlock(store, LatestStart) ELSE store
  /\ pc' = "putLib"
  /\ UNCHANGED <<engine, ship, attempt, loop, misplaced, faults>>

\* Keep the latest blocks and every checkpoint.
PruneBlock ==
  /\ pc = "prune"
  /\ store' = IF LatestStart > 0 /\ LatestStart % CheckpointInterval # 0
              THEN DeleteBlock(store, LatestStart)
              ELSE store
  /\ pc' = "putLib"
  /\ UNCHANGED <<engine, ship, attempt, loop, misplaced, faults>>

StoreLib ==
  /\ pc = "putLib"
  /\ isNewLib' = (lib # block.lib)
  /\ store' = IF isNewLib' THEN PutLib(store, block) ELSE store
  /\ lib' = block.lib
  /\ pc' = "check"
  /\ UNCHANGED <<engine, ship, attempt, executor, block, batch, lastLibHash, safeHash,
                 misread, misplaced, faults>>

\* The block the executor was read to call finalized when the run started: any
\* block lies above it when none was read.
LatestEvmNum == IF executor.finalized = NoHash THEN -1 ELSE Number(executor.finalized)

Forked == block.num = LatestEvmNum /\ block.hash # executor.finalized

\* Slips: the executor's head is left out, or all blocks above its finalized one.
BelowHead ==
  /\ executor.latest # NoHash
  /\ LatestEvmNum <= block.num /\ block.num < Number(executor.latest)
AtFinalized ==
  /\ executor.latest # NoHash
  /\ LatestEvmNum <= block.num
  /\ executor.finalized # NoHash => block.num <= Number(executor.finalized)

\* is_in_check_range: up to the head, or below it when no finalized block was read.
InCheckRange ==
  /\ executor.latest # NoHash
  /\ LatestEvmNum <= block.num /\ block.num <= Number(executor.latest)
  /\ executor.finalized = NoHash => block.num < Number(executor.latest)

\* The executor has a block of that number: with another hash it is an error.
Stored == InCheckRange /\ HasBlockNumber(engine, block.num)

StoredMismatch == Stored /\ BlockByNumber(engine, block.num) # block.hash

\* The unreachable!() of is_in_check_range: a finalized block, and no latest one.
NoLatest == executor.finalized # NoHash /\ executor.latest = NoHash

\* run() panics, which run_client returns as an error of the task.
CheckPanics ==
  /\ pc = "check"
  /\ block.num > LatestEvmNum
  /\ NoLatest
  /\ AttemptFails
  /\ UNCHANGED <<store, engine, shipLib, misplaced, faults>>

\* Error::ExecutorHashMismatch, from the fork check or from the check range.
HashMismatch ==
  /\ pc = "check"
  /\ Forked \/ (block.num > LatestEvmNum /\ StoredMismatch)
  /\ AttemptFails
  /\ UNCHANGED <<store, engine, shipLib, misplaced, faults>>

\* Slip: the block after the finalized one is skipped as well.
SkipOneMore ==
  /\ pc = "check"
  /\ ~Forked
  /\ block.num <= LatestEvmNum + 1 \/ (Stored /\ ~StoredMismatch)
  /\ pc' = "recv"
  /\ UNCHANGED <<store, engine, ship, attempt, loop, misplaced, faults>>

\* The executor already has the block: nothing to send.
SkipBlock ==
  /\ pc = "check"
  /\ ~Forked
  /\ block.num <= LatestEvmNum \/ (Stored /\ ~StoredMismatch)
  /\ pc' = "recv"
  /\ UNCHANGED <<store, engine, ship, attempt, loop, misplaced, faults>>

\* Slip: the LIB block is no reason to send.
FlushWhenFull(queued) == ~IsFinal(block) \/ Len(queued) = BatchSize

Flush(queued) == ~IsFinal(block) \/ IsLib(block) \/ Len(queued) = BatchSize

\* finalized_hash: the block itself when final, else the stored block at the new
\* LIB, else the hash of the last batch.  NoHash stands for None.
FinalizedHash ==
  IF IsFinal(block) THEN block.hash
  ELSE IF isNewLib THEN HashOr(store, GetBlockOrPrev(store, LibEvmNum(block)), NoHash)
  ELSE lastLibHash

\* Slip: the safe block is looked up above the block.
SafeHashAbove ==
  LET n == block.num + SafeHashLookup
  IN  HashOr(store, GetBlockOrPrev(store, n), block.hash)

SafeHash ==
  LET n == IF block.num < SafeHashLookup THEN 0 ELSE block.num - SafeHashLookup
  IN  HashOr(store, GetBlockOrPrev(store, n), block.hash)

\* The batch with the new block is sent if it is due.
Queue(queued) ==
  /\ batch' = queued
  /\ \/ /\ Flush(queued)
        /\ safeHash' = SafeHash
        /\ lastLibHash' = FinalizedHash
        /\ pc' = "newPayload"
     \/ /\ ~Flush(queued)
        /\ pc' = "recv"
        /\ UNCHANGED <<safeHash, lastLibHash>>
  /\ UNCHANGED <<store, engine, ship, attempt, executor, block, lib, isNewLib, misplaced>>

\* Slip: the block goes to the front of the batch.
QueueInFront ==
  /\ pc = "check"
  /\ block.num > LatestEvmNum
  /\ ~NoLatest
  /\ ~Stored
  /\ Queue(<<block>> \o batch)
  /\ UNCHANGED <<misread, faults>>

\* The block is new to the executor.
QueueBlock ==
  /\ pc = "check"
  /\ block.num > LatestEvmNum
  /\ ~NoLatest
  /\ ~Stored
  /\ Queue(Append(batch, block))
  /\ UNCHANGED <<misread, faults>>

\* The executor has a block of that number, and answers get_block_by_number with an
\* error: its result is null, so that the block counts as missing.
QueueMisread ==
  /\ pc = "check"
  /\ block.num > LatestEvmNum
  /\ Stored
  /\ Queue(Append(batch, block))
  /\ misread' = TRUE
  /\ Fault("errorAnswer")

BatchHashes == {batch[i].hash : i \in 1..Len(batch)}

\* Slip: the batch is cleared before the forkchoice update.
SendPayloadsAndClear ==
  /\ pc = "newPayload"
  /\ engine' = NewPayloads(engine, BatchHashes)
  /\ batch' = << >>
  /\ pc' = IF lastLibHash = NoHash THEN "recv" ELSE "forkChoice"
  /\ UNCHANGED <<store, ship, attempt, executor, block, lib, isNewLib, lastLibHash,
                 safeHash, misread, misplaced, faults>>

\* send_batch: engine_newPayloadV1 for all blocks in one JSON-RPC batch; the
\* payload statuses in the answers are not looked at.
SendPayloads ==
  /\ pc = "newPayload"
  /\ engine' = NewPayloads(engine, BatchHashes)
  /\ \/ /\ lastLibHash = NoHash
        /\ batch' = << >>
        /\ pc' = "recv"
     \/ /\ lastLibHash # NoHash
        /\ pc' = "forkChoice"
        /\ UNCHANGED batch
  /\ UNCHANGED <<store, ship, attempt, executor, block, lib, isNewLib, lastLibHash,
                 safeHash, misread, misplaced, faults>>

\* send_batch: engine_forkchoiceUpdatedV1; VALID and SYNCING both continue.
SendForkChoice ==
  /\ pc = "forkChoice"
  /\ engine' = ForkChoiceUpdated(engine, batch[Len(batch)].hash, safeHash, lastLibHash)
  /\ batch' = << >>
  /\ pc' = "recv"
  /\ UNCHANGED <<store, ship, attempt, executor, block, lib, isNewLib, lastLibHash,
                 safeHash, misread, misplaced, faults>>

-------------------------------------------------------------------------------
(***************************************************************************)
(* What goes wrong.                                                        *)
(***************************************************************************)

\* A call is refused, or the call of a batch or of a forkchoice update is answered
\* with an error or INVALID: run() returns it.
CallFails ==
  /\ \/ pc = "check" /\ block.num > LatestEvmNum /\ InCheckRange
     \/ pc \in {"newPayload", "forkChoice"}
  /\ Fault("call")
  /\ AttemptFails
  /\ UNCHANGED <<store, engine, shipLib, misplaced>>

\* The executor acts on a call, or on some payloads of a batch, and the answer is
\* lost, or names an error of the others.
ResponseLost ==
  /\ \/ /\ pc = "newPayload"
        /\ \E executed \in SUBSET BatchHashes : engine' = NewPayloads(engine, executed)
     \/ /\ pc = "forkChoice"
        /\ engine' = ForkChoiceUpdated(engine, batch[Len(batch)].hash, safeHash, lastLibHash)
  /\ Fault("response")
  /\ AttemptFails
  /\ UNCHANGED <<store, shipLib, misplaced>>

\* A write to the database fails: run() returns Error::Database.
DatabaseFails ==
  /\ \/ pc = "recv" /\ channel # << >>
     \/ pc \in {"prune", "putLib"}
  /\ Fault("database")
  /\ AttemptFails
  /\ UNCHANGED <<store, engine, shipLib, misplaced>>

\* The process dies, or has exited, and its supervisor starts it again.
Restart ==
  /\ Fault("crash")
  /\ pc' = "idle"
  /\ attempt' = 0
  /\ NoRun
  /\ UNCHANGED <<store, engine, shipLib, misplaced>>

\* The executor restarts: between two runs, or without the client noticing.
ExecutorRestarts ==
  /\ \/ ~Running /\ Fault("executor")
     \/ Running /\ Fault("executorUnnoticed")
  /\ engine' \in {e \in Restarted(engine) : Number(e.head) >= StartBlock - 1}
  /\ UNCHANGED <<store, ship, pc, attempt, loop, misplaced>>

-------------------------------------------------------------------------------
Start == StartAttempt \/ StartAboveMaximumRange

Translator == TranslatorSends \/ TranslatorRejects \/ TranslatorStops

Loop ==
  \/ ReceiveBlock \/ EndOfStream \/ PruneBlock \/ StoreLib
  \/ CheckPanics \/ HashMismatch \/ SkipBlock \/ QueueBlock
  \/ SendPayloads \/ SendForkChoice

Environment ==
  \/ StartUnreachable \/ StartMisread \/ StreamEnds \/ StreamFails
  \/ QueueMisread \/ CallFails \/ ResponseLost \/ DatabaseFails \/ Restart \/ ExecutorRestarts

Next == Start \/ Translator \/ Loop \/ LibAdvances \/ Environment

Spec == Init /\ [][Next]_vars

\* The runtime polls every task that can move, the retry timer fires, and the
\* native chain goes on finalizing; nothing obliges a fault to happen.
Fairness ==
  /\ WF_vars(Start)
  /\ WF_vars(Translator)
  /\ WF_vars(Loop)
  /\ WF_vars(LibAdvances)

FairSpec == Spec /\ Fairness

-------------------------------------------------------------------------------
(***************************************************************************)
(* Properties.                                                             *)
(***************************************************************************)
ProcessStates == {"idle", "recv", "prune", "putLib", "check", "newPayload", "forkChoice",
                  "finished", "failed"}

Streams == [next : Nat, parent : Hash, validated : BOOLEAN,
            status : {"off", "running", "ended", "error"}]

\* Types of the variables; the block handled is there whenever a step needs it.
TypeOK ==
  /\ store \in Store
  /\ engine \in Engine
  /\ shipLib \in Nat
  /\ stream \in Streams
  /\ channel \in Seq(Block)
  /\ pc \in ProcessStates
  /\ attempt \in Nat
  /\ executor \in [latest : Hash \cup {NoHash}, finalized : Hash \cup {NoHash}]
  /\ block \in Block \cup {NoBlock}
  /\ lib \in Nat
  /\ isNewLib \in BOOLEAN
  /\ batch \in Seq(Block)
  /\ lastLibHash \in Hash \cup {NoHash}
  /\ safeHash \in Hash
  /\ misread \in BOOLEAN
  /\ misplaced \in BOOLEAN
  /\ faults \in Nat
  /\ pc \in {"prune", "putLib", "check", "newPayload", "forkChoice"} => block # NoBlock
  /\ pc \in {"newPayload", "forkChoice"} => batch # << >>
  /\ pc = "forkChoice" => lastLibHash # NoHash

\* A queued batch is part of one chain, in order, and what is sent ends in the block
\* just taken from the channel.  Skipped blocks and blocks of an earlier run never
\* end up inside a batch, and only an error answer, after which blocks the executor
\* has are queued beside others that are skipped, leaves a gap in it.
BatchIsChain ==
  batch # << >> =>
    /\ \A i \in 1..(Len(batch) - 1) :
         /\ batch[i].num < batch[i + 1].num
         /\ batch[i].hash = AncestorAt(batch[i + 1].hash, batch[i].num)
         /\ misread \/ batch[i + 1].num = batch[i].num + 1
    /\ pc \in {"newPayload", "forkChoice"} => batch[Len(batch)] = block
    /\ pc = "recv" => misread \/ batch[Len(batch)] = block

\* Every payload sent connects to a block the executor has executed or to one sent
\* before it: neither the resume point, nor the skipping of known blocks, nor an
\* error answer that leaves a gap in the batch ever leaves one in the chain.
PayloadsConnect ==
  pc = "newPayload" =>
    \A i \in 1..Len(batch) :
      AncestorAt(batch[i].hash, batch[i].num - 1)
        \in engine.known \cup {batch[j].hash : j \in 1..(i - 1)}

\* The client offers the executor no alternative to a block of its canonical chain:
\* what it sends lies above the executor's head, unless the executor answered with
\* an error when it was asked for what it has.
NeverReplacesExecutorBlock ==
  pc = "newPayload" => misread \/ batch[1].num > Number(engine.head)

\* The safe and the finalized hash of a forkchoice update are ancestors of its
\* head, though they are looked up in a database that survives runs and holds
\* rows of blocks translated by earlier runs; unless a run was started below the
\* rows of the finalized block, which an error answer had hidden.
ForkChoiceOnOneChain ==
  pc = "forkChoice" /\ ~misplaced =>
    LET head == batch[Len(batch)].hash
    IN  IsAncestor(safeHash, head) /\ IsAncestor(lastLibHash, head)

\* The rows at or below the block being handled are its ancestors: rows left by
\* an earlier run, above the resume point, are overwritten before they are read.
\* They stay only when an error answer made a run resume below the finalized block.
StoredRowsAreAncestors ==
  pc \in {"check", "newPayload", "forkChoice"} /\ ~misplaced =>
    \A n \in Keys(store) : n <= block.num => IsAncestor(store.blocks[n], block.hash)

\* Between two blocks, every block taken so far has been executed by the executor or
\* waits in the batch, with all its ancestors: what is skipped, resumed after, or left
\* out of the batch is there.
NothingLost ==
  pc = "recv" /\ block # NoBlock =>
    Prefixes(block.hash) \subseteq engine.known \cup BatchHashes

\* With a validate_hash configured, nothing that does not descend from the block
\* it names reaches the executor, through any number of retries.
OnlyValidatedChainSent ==
  pc = "newPayload" /\ ValidateHash # NoHash =>
    AncestorAt(batch[1].hash, StartBlock) = ValidateHash

\* A run that resumes from the database starts on the executor's own chain.
ResumesOnExecutorChain ==
  [][pc = "idle" /\ pc' = "recv" =>
       IsAncestor(stream'.parent, engine.head)]_vars

\* A run never resumes above the EVM block of the LIB that SHIP has reported,
\* although the LIB stored is a native number and the offset is added to it.
ResumesAtFinalBlock ==
  [][pc = "idle" /\ pc' = "recv" /\ stream'.next > StartBlock =>
       stream'.next - 1 + BlockDelta <= shipLib]_vars

\* Pruning keeps a row near every number a later run may look for: unless the
\* database is behind, or the finalized block was asked for in vain, a run resumes
\* less than one checkpoint interval below the LIB and the executor's finalized block.
ResumesNearFinalized ==
  [][pc = "idle" /\ pc' = "recv" /\ store'.lib # NoLib /\ executor'.finalized = engine.finalized =>
       LET lastLib == store'.lib + BlockDelta
           latest  == Number(engine.finalized)
           target  == IF lastLib < latest THEN lastLib ELSE latest
       IN  (target < StopBlock /\ \E n \in Keys(store') : n >= target)
             => \/ stream'.next > target + 1 - CheckpointInterval
                \/ stream'.next = StartBlock /\ target < StartBlock + CheckpointInterval]_vars

\* The stored LIB never moves back, across retries and restarts (run() notes
\* that a smaller LIB is not supported).
StoredLibNeverRegresses ==
  [][store.lib # NoLib /\ store'.lib # NoLib => store'.lib >= store.lib]_vars

\* Whatever is retried, resent, delayed or lost, the client only extends the
\* executor's canonical chain with canonical blocks and only moves its finalized
\* block forward.  A restart of the executor shortens the chain; and a run to which
\* it gave an error answer may name a block it has left behind, a canonical one still.
Follower == INSTANCE ChainFollower
              WITH chain <- engine.head, finalized <- engine.finalized, misled <- misread
FollowsCanonicalChain == Follower!Spec

\* The executor comes to follow the chain to the end, through failed calls and error
\* answers, lost answers, failed writes, crashes and restarts of the executor between
\* runs, which the retries outnumber: nothing stays in a batch or in a skipped range.
ExecutorCatchesUp == <>[](Number(engine.head) = MaxBlock)

-------------------------------------------------------------------------------
(***************************************************************************)
(* Statements of the repository that the code does not keep: the runs that *)
(* check them end in a counterexample.                                     *)
(***************************************************************************)

\* "Reached stop block/signal, consensus client run finished!": when the run ends
\* at the stop block, the executor has the stop block.  It does not when the
\* last batch is not full and its last block is not the LIB.
StopBlockDelivered ==
  pc = "finished" /\ stream.next > StopBlock => stream.parent \in engine.known

\* "Once a block is returned by this node, it cannot be subsequently reverted": the
\* executor's head never moves to another branch.  It does after an error answer to
\* get_block_by_number, when the translator computes another block than before.
NeverReorganized ==
  [][IsAncestor(engine.head, engine'.head) \/ IsAncestor(engine'.head, engine.head)]_vars
===============================================================================

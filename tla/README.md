# The Telos consensus client in TLA+

This directory is a verification development of the Telos consensus client
(`src/client`) and of the translator library it runs (`src/translator`). The
program reads native (Antelope) blocks from a state history node (SHIP),
translates each into a Telos EVM block, and feeds the blocks to an execution
client (reth) through the Engine API. Its state is a small RocksDB database; it
is stopped, restarted and retried at any moment, and so is everything around it.

The modules model the control of that program, TLC checks them on small
instances, and TLAPS proves the most important invariants for all instances.

    tlc -config ClientRestarts.cfg MCConsensusClient
    tlapm ResumeProofs.tla

## 1. Inventory

### Components, their state and their operations

| component | source | state | operations |
|---|---|---|---|
| process and retry loop | `client/src/main.rs` | attempts made | `RunClientAction::run`, `Retry::spawn` with `max_retry` fixed intervals |
| run_client and resume | `client/src/main_utils.rs` | none | `build_consensus_client` (resume point), `run_client` (spawn, wait, stop, join) |
| consensus client loop | `client/src/client.rs` | `batch`, `lib`, `last_lib_hash`; `latest_*_executor_block` read at start; files of extra fields in `/tmp/telos-extra-fields` | `new`, `run`, `send_batch`, `fork_choice_updated` |
| block database | `client/src/data.rs` | block rows, one `lib` row | `put_block`, `delete_block`, `put_lib`, `get_lib`, `get_block_or_prev` |
| execution API client | `client/src/execution_api_client.rs`, `json_rpc.rs` | none (HTTP client, JWT) | `rpc`, `rpc_batch`, `get_block_by_number`, `get_latest_*` |
| JWT authentication | `client/src/auth.rs` | secret | token generation |
| configuration | `client/src/config.rs` | the fields | parsing |
| translator launch | `translator/src/translator.rs` | channels, stop channel | `launch`, `Shutdown::shutdown`, `is_finished` |
| ship_reader | `translator/src/tasks/ship_reader.rs` | websocket read half | read, forward, stop |
| raw_deserializer | `translator/src/tasks/raw_deserializer.rs` | websocket write half, `unackd_blocks` | ABI, status, range request, blocks, acks |
| evm_block_processor | `translator/src/tasks/evm_block_processor.rs` | none | decode, forward |
| final_processor | `translator/src/tasks/final_processor.rs` | `BlockMap` (parent hashes), `validated` | translate in order, validate the first hash, send, stop |
| block builder | `translator/src/block.rs` | the block in hand: `transactions`, `tx_actions_seen`, `cumulative_gas_used`, `dyn_gas_limit`, `decoded_rows`, `new_gas_price`, ... | `handle_action`, `generate_evm_data`, `fetch_receipt_from_rpc`, `fetch_block_from_rpc` |
| transactions and receipts | `translator/src/transaction.rs`, `types/evm_types.rs`, `rlp/` | none | conversions |
| NameToAddressCache | `translator/src/types/translator_types.rs` | two caches | `get`, `get_index`, with retries |
| state dump, injection, tools | `translator/src/injection.rs`, `bin/`, `main.rs` | files | offline conversion |

### How they interact

    SHIP --ws--> ship_reader -> raw_deserializer -> evm_block_processor -> final_processor
      ^                |  ^            |                                        |
      |   status, range, acks          |             block_sender (mpsc 1000)   |
      +----------------|--|------------+                                        v
             stop channel (1): final_processor, run_client          ConsensusClient::run
                                                                     |            |
                                                       RocksDB, files     Engine API (reth)

    final_processor -> NameToAddressCache -> native node's API (accounts of the EVM)
    final_processor -> reference RPC (receipts, hashes, whole blocks)
    send_batch -> files of extra fields -> reth, when it handles the payload

The four tasks and the client run concurrently and share nothing but bounded
channels. A task that ends drops its channel ends, and its neighbours notice
that at their next `send`, `recv` or `is_closed`. `run_client` waits for the
client first, then asks `ship_reader` to stop and joins the tasks; `main` calls
`run_client` again when it returned an error, and only then. Between two
attempts the database survives, and so does the executor.

### What is hard here

* A crash, a failed call or a failed write can come between any two steps of
  handling one block; the row of a block is written **before** the block is
  compared with the executor's and long before it is sent.
* The resume point combines three sources: rows of earlier runs, the stored LIB
  (a *native* number) and what the executor calls finalized now.
* `latest` and `finalized` of the executor are read once per run, and the
  executor can move, or restart and lose blocks.
* An error the executor answers `eth_getBlockByNumber` with is read as "no such
  block" (`execution_api_client.rs:193`), and for `latest` and `finalized` as block 0:
  the client then works from a wrong picture of the executor.
* `safe_hash` and `finalized_hash` are looked up in rows of several runs.
* A partial batch waits for the next block; blocks already in the executor are
  skipped, so that batches must neither leave a gap nor overlap.
* The tasks can each stop for several reasons while an item is in a socket, in a
  channel or in hand; the stop channel has two writers and room for one message.
* An EVM block is built from what SHIP shows, with receipts from the console or a
  reference node, each of which can be missing; the block can be replaced as a
  whole by the reference's, whose parent may differ from the one sent before.
* A storage change passes a table delta, a deduplication, a lookup in caches that
  are never corrected and filled from replicas that lag, a file, and an executor
  that reads the file at a time of its own choosing, perhaps while the next
  attempt is writing it.
* On a stream with forks the parent of a block has to be among the blocks that
  `BlockMap` still holds.

`PROJECT.json` lists these as hazards, each at its line and with the properties
that would catch it going wrong.

### What makes each component correct

* **client loop**: nothing is lost or skipped (`NothingLost`), payloads connect
  (`PayloadsConnect`), batches are chains (`BatchIsChain`), the executor's blocks
  are not challenged (`NeverReplacesExecutorBlock`), forkchoice updates name
  one chain (`ForkChoiceOnOneChain`), and the whole follows the canonical chain
  (`FollowsCanonicalChain`, `ExecutorCatchesUp`). An error answer that is read as
  a missing block weakens some of these; each says how.
* **resume and database**: `ResumesOnExecutorChain`, `ResumesAtFinalBlock`,
  `ResumesNearFinalized`, `StoredRowsAreAncestors`, `StoredLibNeverRegresses`.
* **validation**: `OnlyValidatedChainSent`.
* **tasks and shutdown**: `DeliversInOrder`, `OkMeansDelivered`, `AcksAreOwed`,
  `NeverStuck`, `OneEndsAllEnd`, `ReachesStopBlock`.
* **block builder**: `SentIsCanonical`, `ExtraFieldsMatch`, `GasFits`,
  `PayloadsLink`.
* **address cache and state diffs**: `AddressesAreRight`,
  `StorageTracksContract`, `DropsAreEarned`, `ReachesLastBlock`.
* **files of extra fields**: `FilesAreWhole`, `PayloadHasItsFile`,
  `FileIsCurrent`.
* **BlockMap**: `BuiltOnNativeParent`, `ForkBasesAreKept`, `FailsOnlyAtStart`,
  `EndsOnHead`.

## 2. The modules

| module | what it is |
|---|---|
| `EvmChain` | blocks, hashes, and the `TelosEVMBlock` helpers (`IsFinal`, `IsLib`, `LibEvmNum`) |
| `BlockStore` | the database of `data.rs` |
| `ExecutionEngine` | the execution client, external: what the calls of the client can observe of it |
| `ConsensusClient` | process, resume and client loop, composed with the two above and with the translator as the client sees it |
| `ChainFollower` | abstract: what the client promises about the executor |
| `ConsensusClientInv` | inductive invariants, from which the proofs take their strength |
| `ConsensusClientProofs`, `FollowerProofs`, `ResumeProofs` | theorems and proofs, each extending the one before: the run as a chain; canonical blocks and the refinement; LIB, resume point, rows and checkpoints |
| `TranslatorPipeline` | the four tasks, their channels, the SHIP node, and `run_client` |
| `BlockStream` | abstract: what the client may rely on about the pipeline |
| `PipelineProofs` | theorems and proofs about the pipeline, which implements `BlockStream` |
| `BlockBuild` | how `final_processor` and `block.rs` build a block, or recover it |
| `BlockBuildProofs` | theorems and proofs about it: types and gas, order, the blocks sent, and their links |
| `AddressCache` | `NameToAddressCache`: its two caches, lookups and retries |
| `StateDiffs` | the way of a storage change from the table deltas of a block through the lookups and the file of extra fields to the executor; extends `AddressCache` |
| `StateDiffsProofs` | theorems and proofs about both |
| `ForkedStream` | `BlockMap` on a stream with forks |
| `ForkedStreamProofs` | theorems and proofs about it |
| `InductionFacts` | the least and the largest number of a set, induction up to a number, and recursion, as lemmas the proofs cite |
| `MCConsensusClient`, `MCTranslatorPipeline`, `MCBlockBuild`, `MCStateDiffs`, `MCForkedStream` | definitions for the TLC instances |

A few cuts keep these checkable. `ConsensusClient` sees the translator as a
source of consecutive blocks that may stop or fail; `TranslatorPipeline` shows
that four tasks on bounded channels are such a source (`DeliversInOrder`), with a
block reduced to its number; `BlockBuild` shows what is in a block, with the
tasks left out, and takes a lookup as one that succeeds or fails; `StateDiffs`
shows what the lookups return and what becomes of the storage changes;
`ForkedStream` shows on which block the next one is built, with what is in it
reduced to a label.

Operators whose comment starts with *Slip* are plausible mistakes in the
definition that follows them (a dropped guard, an off-by-one, a missing reset).
The specifications do not use them. Each is the replacement named by a `mutants`
entry of `PROJECT.json`: with it in place, the property of that entry is
violated, so that every property is known to tell right code from wrong.

### Hashes

A block hash commits to the block and to its ancestors, so a hash is the
*sequence of contents* from block 1 to the block; genesis is the empty sequence.
Equality, ancestry and "the canonical block at height n" are then what they are
in the program, and nothing is assumed of the hash function but that it has no
collisions.

### ConsensusClient and the code

The loop of `ConsensusClient::run` is cut where it awaits or writes, and `pc`
names the place:

| action | code |
|---|---|
| `StartAttempt`, `StartAboveMaximumRange`, `StartUnreachable` | `run_client` up to the two spawns: open (or with `--clean` recreate) the database, read the executor, compute the resume point, check `maximum_sync_range` |
| `StartMisread` | the same, with an error answer to `latest` or `finalized`: block 0 is read instead (`get_latest_block`, `get_latest_finalized_block`), or nothing after a second error |
| `ReceiveBlock` (`recv`) | `rx.recv()`, `put_block` |
| `EndOfStream` (`recv`) | `rx.recv()` is `None`: `run` returns `Ok`, `run_client` adds the translator's error |
| `PruneBlock` (`prune`) | `latest_start`, `delete_block` unless a checkpoint |
| `StoreLib` (`putLib`) | `is_new_lib`, `put_lib` |
| `HashMismatch`, `SkipBlock`, `QueueBlock` (`check`) | fork check, `get_block_by_number` in the check range, then error, `continue`, or push to the batch and decide whether to send it, with `safe_hash` and `finalized_hash` |
| `QueueMisread` (`check`) | the same push for a block the executor has, after an error answer to `get_block_by_number` |
| `CheckPanics` (`check`) | the `unreachable!()` of `is_in_check_range`: `finalized` was read and `latest` was not |
| `SendPayloads` (`newPayload`) | `rpc_batch` of `engine_newPayloadV1` |
| `SendForkChoice` (`forkChoice`) | `fork_choice_updated`; an unknown head answers SYNCING |
| `TranslatorSends`, `TranslatorRejects`, `TranslatorStops`, `StreamEnds`, `StreamFails` | the translator as seen from the channel |
| `CallFails`, `ResponseLost`, `DatabaseFails`, `Restart`, `ExecutorRestarts` | what goes wrong; each costs one of `MaxFaults` |

`AttemptFails` is the error path all of these share: `run_client` returns the
error, and `main` retries `max_retry` times. The variables keep the names of the
code where it has them (`lib`, `batch`, `lastLibHash`, `safeHash`); `store`,
`engine`, `shipLib` outlive the process. Two variables are history, which no action
reads: `misread` says that in this run an error answer was read as "no such block",
and `misplaced` that some run so far was started from a finalized block read that way.
The properties use them to say what such an answer can do and what it cannot:

| property | without an error answer | after one |
|---|---|---|
| `PayloadsConnect`, `NothingLost`, `ResumesOnExecutorChain`, `StoredLibNeverRegresses`, `ResumesAtFinalBlock`, `OnlyValidatedChainSent`, `ExecutorCatchesUp` | hold | hold: what is skipped is there, and what is read too low is translated again |
| `BatchIsChain` | consecutive blocks of one chain | blocks of one chain in order, with gaps where the executor has the block |
| `NeverReplacesExecutorBlock` | holds | fails: the comparison at `client.rs:212` is not made (`ClientErrorAnswer`) |
| `FollowsCanonicalChain` | the executor's chain only grows | it may go back, but stays canonical with a deterministic translator (`Repeat` of `ChainFollower`) |
| `ResumesNearFinalized` | holds | fails for the run that has misread `finalized`, which starts from the start block |
| `ForkChoiceOnOneChain`, `StoredRowsAreAncestors` | hold | hold, until a run resumes below the finalized block (`misplaced`) and meets rows of other chains above |

Error answers to the calls of `rpc_batch` and to the forkchoice update are seen by the
code and are `CallFails`, or `ResponseLost` where the executor has acted on a part of
the batch.

The executor is external. It is taken to follow every forkchoice update to a block it
knows. The Engine API lets it ignore one that names an ancestor of its head, so that a
head that goes back is the worst case. A restart keeps a prefix of its canonical chain and its
finalized mark if that block is still there; it is assumed not to fall below the
parent of `evm_start_block`, without which the client has nothing to build on.

### TranslatorPipeline and the code

One variable per channel, with the items and whether each end is still held, and
one variable per task, with its state and the item in hand. A `send` on a full
channel waits, on a channel whose receiver is gone fails; `recv` on an empty
channel whose sender is gone gives `None`. `ship.faults` is the set of failures
that may happen in a behaviour; the connection may close, a websocket read or write
may fail, a translation may fail, the client may fail, or `launch` cannot connect.
`ReaderFails` is the `Some(Err(e))` of `ship_reader.rs:38`, a reset connection or a
message over the size limit: the reader ends with `Ok`, and what the node has sent
stays unread (`ws.items`). `ship_reader` forwards Ping and Close frames as data too
(`ship_reader.rs:32`); what the decoder makes of them is external, and
`DeserializerStops` takes the case that it does not survive one (`frames`), at any
place between two messages. A frame that decodes to a result is one that changes nothing.
The SHIP node honours `max_messages_in_flight`.

### BlockBuild and the code

The native block is a list of action kinds; SHIP may show an action, show a raw
transaction without its receipt, or not show it. `HandleRaw`, `HandleTransfer`
and so on are the branches of `handle_action`; `RecoverBlock` and `BuildBlock`
are the two ends of `generate_evm_data` (an action failed, or all were handled,
followed by the sampled hash check); `FinishBlock` is the rest of
`final_processor`'s loop body. `AddTransaction` keeps the gas used and the dynamic
gas limit as the code does; a transaction has a gas limit and uses gas, both by
its kind, and a default limit that the larger blocks of the run exceed. `events`
holds the positions of gas price, revision and wallet changes. A missing delta
of the config row is the `expect` of `handle_action`: the task panics. `RawFails` is a
raw transaction that `from_raw_action` cannot decode, an error or a panic
(`transaction.rs:67-103`). `env` holds what does not change in a behaviour:
configuration, what SHIP shows and which answers may fail.

### AddressCache, StateDiffs and the code

`AddressCache` has the state and the operations of `NameToAddressCache`, for the
modules that use it: `Resolves` is a lookup that returns an address, from a cache
or from the native node, `Fails` one try of the loop that finds nothing,
`GivesUp` the last of `MAX_RETRY + 1`. The table "account" is a constant, since a
row never changes once it exists; that some rows are too young for the replica
that answers is the choice of `seen` in `get_account_address`. `cache` is keyed by
names and, as `get_index` has it, also by indexes.

In `StateDiffs`, `pc` follows one block through the code:

| action | code |
|---|---|
| `NativeBlock` | the chain: each slot of the table "accountstate" is left, written, cleared, or removed and created again |
| `Decode` | `generate_evm_data`: the deltas in any order, deduplicated by index, in the order of the `BTreeMap` |
| `ResolveTransfer`, `AbandonTransfers`, `ActionsHandled` | `handle_action` of withdrawals and deposits; the failed lookup that sends the block to the reference |
| `ResolveScope`, `DropRow`, `RowsResolved` | `final_processor`: the loop over `decoded_rows` |
| `ResolveWallet`, `BlockCompleted` | `final_processor`: the loop over `new_wallets`, the extra fields |
| `WriteTmp`, `Rename`, `SendPayload`, `Answered` | `send_batch` |
| `ExecutorApplies` | the executor (external) handles the payload, reading the file |
| `Restart` | the attempt ends at any point; a payload on its way may still arrive |

The client also passes the extra fields in the call itself; as the code says of
the files ("for the executor to pick up"), the executor takes them from the file.
That reader is not in this repository; the model has it read the file once, when
it handles a payload it does not know yet.

### ForkedStream and the code

The node's chain grows, moves its LIB, and changes to another fork above the LIB
(`ProduceBlock`, `AdvanceLib`, `SwitchFork`); `ProcessBlock` is the loop body of
`final_processor` for one block, with `BlockMap::parent_hash` (`ParentHash`) and
`BlockMap::next` (`Remember`), and `ParentIsMissing` its `expect`. The native hash
of a block is the sequence of labels up to it, the EVM hash the sequence the
translator has put together: the block is built on the right parent exactly when
the two are equal. `tests/mock_fork.rs` sends such a stream; the client itself
asks for irreversible blocks only, and never meets one.

## 3. What is model-checked

### Passing runs

| run | question | instance |
|---|---|---|
| `ClientRestarts` | does the client survive failed calls, error answers, lost answers, failed writes, crashes and executor restarts between runs, three of them in one behaviour, and still bring the executor to the end of the chain? `TypeOK`, `BatchIsChain`, `PayloadsConnect`, `NothingLost`, `ResumesOnExecutorChain`, `ResumesNearFinalized`, `FollowsCanonicalChain`, `ExecutorCatchesUp` | 5 blocks, LIB up to 6, batches of 2, one recent row kept, a checkpoint every 3, 3 faults, 3 retries |
| `ClientDivergence` | what is still true when two runs translate the same native block differently, and the executor holds any chain at all, restarts unnoticed and answers with errors? `NeverReplacesExecutorBlock`, `ForkChoiceOnOneChain`, `StoredRowsAreAncestors` | 2 contents, 3 blocks to the stop block, `maximum_sync_range` 0, 2 faults, 1 retry |
| `ClientValidation` | does `validate_hash` keep every other chain away from the executor, through retries, and are resume point and stored LIB right for blocks that are not final when they arrive? `OnlyValidatedChainSent`, `ResumesAtFinalBlock`, `StoredLibNeverRegresses` | 2 contents, 4 blocks, `IrreversibleOnly` off, 3 recent rows, 1 fault |
| `Pipeline` | do the tasks deliver in order, end together, and end at all, without waiting for one another? `TypeOK`, `OkMeansDelivered`, `AcksAreOwed`, `NeverStuck`, `DeliversInOrder`, `OneEndsAllEnd`, `ReachesStopBlock` | channels of one item, window of 3, ack after more than 1, 5 blocks; behaviours with all failures and with none |
| `Build` | is a block right, or refused, whatever SHIP and the reference leave out, and do blocks link? `TypeOK`, `SentIsCanonical`, `ExtraFieldsMatch`, `GasFits`, `PayloadsLink` | blocks of up to 2 actions of 8 kinds, 3 blocks (the first is the deploy block), sampling 1 or 2, with and without reference |
| `StateDiffs` | does a storage change reach the executor, under the right address, through lagging replicas, evictions, failed writes and attempts that end early? `TypeOK`, `AddressesAreRight`, `StorageTracksContract`, `DropsAreEarned`, `FilesAreWhole`, `PayloadHasItsFile`, `FileIsCurrent`, `ReachesLastBlock` | 2 accounts whose names and indexes are in opposite orders, 1 key each, 2 blocks, caches of one entry, 1 retry; behaviours with any number of early ends, and behaviours with a name to look up in each block |
| `ForkedStream` | is every block built on the block of its native parent? `TypeOK`, `BuiltOnNativeParent`, `ForkBasesAreKept`, `FailsOnlyAtStart`, `EndsOnHead` | 5 native blocks with 2 labels, start at 2, delta 1, 2 changes of fork |

`TypeOK` also carries, in each module, what the code relies on without checking
(`block # NoBlock` where a block is used, a batch that is not empty when it is
sent, channel bounds).

### Runs that end in a counterexample

Five statements of the repository are not kept by the code; each of these runs
shows one, and `PROJECT.json` quotes the statement.

| run | what happens |
|---|---|
| `ClientHashMismatch` | the row is stored before the comparison with the executor fails; the retry resumes above it with the mismatching hash as its parent, and the mismatch is never noticed again |
| `ClientErrorAnswer` | the executor answers `get_block_by_number` with an error, which is read as "no such block": the comparison is not made, a block translated differently is sent, and the executor, which was not to be reorganized, changes branches |
| `ClientStopBlock` | at the stop block the batch that was not full is dropped, and the run is reported as finished |
| `BuildDeposits` | a block with deposits only counts as one without transactions, and sampling may skip its validation |
| `BuildRecovered` | a block recovered from the reference is sent with the receipts of the failed local attempt |

Three more observations, which no run isolates:

* A closed SHIP connection and a websocket error end `ship_reader` with `Ok`
  (`ship_reader.rs:42` and 38), and with it every task: the process exits as finished,
  without a retry, and in the second case what the node has sent is lost
  (`StreamEnds` of `ConsensusClient`, `ShipCloses` and `ReaderFails` of
  `TranslatorPipeline`).
* After a resume `validate_hash` is compared with a block that is not the start
  block (`main_utils.rs:119`, `final_processor.rs:132`), and every attempt fails.
* On a stream with forks, a fork that replaces the first block of a run panics at
  `expect("Block parent hash can be found")`, as the block before the run is not in
  `BlockMap` (`FailsOnlyAtStart` shows it is the only such case). With
  `irreversible_only: true` it cannot happen.

### Bounds, and why they are enough

* *Blocks.* The decisions of the client compare a block with the executor's
  finalized block, its latest block, the LIB, the recent-rows limit and a
  checkpoint. Five blocks give each comparison both outcomes in one run, and
  again in the run after it. `MaxBlock` and `MaxLib` end the chain, the only
  bounds that stop an otherwise unbounded counter, together with `MaxFaults`
  (faults), `MaxRetry` (as in the code) and `MaxEmpty` (results without a block).
* *Faults.* One fault leaves a stale row or a half-sent batch, a second one
  interrupts the run that meets it, a third one the run that would repair it.
* *Channels.* The code's channels hold 1000 items; one item makes every `send`
  wait at some time, and the window of 3 with acks after more than 1 makes the
  node wait for acks. `MaxEmpty + AckThreshold < MaxInFlight` is assumed, as
  results without a block count for the window but never trigger an ack; in the
  code the numbers are 10 and 10000.
* *`SAFE_HASH_LOOKUP`* is 50 in the code and 1 in the runs, so that the looked-up
  row is sometimes there, sometimes pruned and sometimes from an earlier run.
* *State diffs.* Two blocks give a file of one block that stays while the next is
  translated, and a row that is created, then written, cleared or replaced; two
  accounts with one key each give two slots, so that the rows of a block can be
  mixed up; a cache of one entry evicts at every second insertion. `LastBlock`,
  `MaxRetry` and `Capacity` are the bounds, 3 and 10000 in the code for the last
  two. Attempts that end early and names to look up are in different behaviours of
  one run, which keeps it small: an early end empties the caches that the names
  fill.
* *Forks.* Two changes of fork give a fork of a fork and a return to the first
  fork; with five blocks a fork may begin at, below and above the block sent last,
  and at the first block of the run. `MaxBlock` and `MaxSwitches` are the bounds.
* *Non-final blocks.* `raw_deserializer.rs:75` asks SHIP for irreversible blocks
  only, and so do all client runs but `ClientValidation`, which also covers the
  branches of `run` for blocks that are not final, on a stream without forks. What
  the client promises of the executor's finalized block is claimed for irreversible
  blocks only.
* *Deadlock* is not checked: the process really stops, finished or failed, and a
  chain that ends leaves the client waiting.

### Fairness

`ConsensusClient` assumes weak fairness of starting (the retry timer fires), of
the translator, of the loop and of the LIB; nothing obliges a fault to happen.
tokio polls every task that is ready, and each of these is one task, so weak
fairness of each group is what the runtime gives. `ExecutorCatchesUp` needs the
faults to be no more than the retries, excludes an end or a failure of the stream,
and excludes executor restarts in the
middle of a run, from which the client does not recover (see the hazards).

`TranslatorPipeline` assumes weak fairness per task, and strong fairness of
`ReaderStops`: `ship_reader` selects over the stop channel and the socket, and
`select!` picks a ready branch at random, so that a stop message is taken even
when the socket is always ready. Nothing is assumed of the SHIP node in
`OneEndsAllEnd`; `ReachesStopBlock` has the node's fairness as its premise.

`StateDiffs` assumes weak fairness of the chain, of the client, which is one
sequence of awaits (a ready task is polled, a `sleep` ends), and of the executor.
Which of its alternatives a lookup takes is left open: `ReachesLastBlock` holds
also if no lookup ever succeeds, because the tries are counted. It is claimed for
behaviours without early ends of attempts, of which there may be infinitely many.
`ForkedStream` assumes only that the translator goes on; `EndsOnHead` follows once
the node stands still, and its changes are bounded.

## 4. What is proved

All theorems are about specifications with their constants left open. They rest on
the named assumptions of the modules (`ChainAssumption`, `StoreAssumption`,
`ClientAssumption`; `PipelineAssumption`; `BuildAssumption`; `CacheAssumption`,
`DiffsAssumption`; `StreamAssumption`), which
TLC evaluates in every run, and, where said, on a premise in the theorem itself.

| theorem | statement | premises |
|---|---|---|
| `TypeCorrect` | `Spec => []TypeOK` | none |
| `RunStaysChain` | `Spec => []RunIsChain` | none |
| `BatchesAreChains` | `Spec => []BatchIsChain` | none |
| `NothingIsReplaced` | `Spec => []NeverReplacesExecutorBlock` | none |
| `RunStaysCanonical` | `Spec => []RunIsCanonical` | the translator gives every block its canonical content |
| `ForkChoiceIsOneChain` | `Spec => []ForkChoiceOnOneChain` | the same |
| `RunStaysFinal` | `Spec => []RunIsFinal` | irreversible blocks only |
| `ClientFollowsChain` | `Spec => FollowsCanonicalChain` | both, and an executor that starts on the canonical chain |
| `LibStaysOrdered`, `LibNeverRegresses`, `ResumesBelowLib` | `Spec => []LibInv`, `StoredLibNeverRegresses`, `ResumesAtFinalBlock` | none |
| `PayloadsAreConnected`, `NothingIsLost`, `ResumesOnChain` | `Spec => []PayloadsConnect`, `[]NothingLost`, `ResumesOnExecutorChain` | those of `ClientFollowsChain`, and no restart of the executor during a run |
| `RowsAreAncestors`, `ForkChoiceStaysOnChain` | `Spec => []StoredRowsAreAncestors`, `[]ForkChoiceOnOneChain` | irreversible blocks only; the translator may compute anything |
| `OnlyValidatedIsSent` | `Spec => []OnlyValidatedChainSent` | `validate_hash` is the hash of the start block |
| `PipelineTypes` | `Spec => []TypeOK` (`TranslatorPipeline`) | none |
| `AcksOwed`, `NothingLostWhenOk` | `Spec => []AcksAreOwed`, `[]OkMeansDelivered` | none |
| `ReceivesInOrder` | `Spec => DeliversInOrder` | none |
| `PipelineNeverStuck` | `Spec => []NeverStuck` | none |
| `CheckpointsAreKept`, `ResumesNearEnough` | `Spec => []CheckpointInv`, `Spec => ResumesNearFinalized` | none |
| `BlocksLink` | `Spec => PayloadsLink` (`BlockBuild`) | none |
| `TranslationHolds`, `BuildTypesHold`, `BlocksCanRun` | `Spec => [](TranslationInv /\ PayloadInv)`, `[]TypeOK`, `[]GasFits` | none |
| `TranslationFollows`, `SentBlocksAreCanonical`, `ExtraFieldsFitPayload` | `Spec => [](OrderInv /\ SentInv)`, `[]SentIsCanonical`, `[]ExtraFieldsMatch` | none |
| `StreamInvariant`, `StreamTypesHold` | `Spec => []StreamInv`, `[]TypeOK` (`ForkedStream`) | none |
| `BuiltOnParent`, `BasesAreKept`, `PanicsOnlyAtStart` | `BuiltOnNativeParent`, `ForkBasesAreKept`, `FailsOnlyAtStart` | none |
| `LookupsAreRight`, `AnswersAreRight` | `Spec => []LookupInv`, `[]AddressesAreRight` (`StateDiffs`) | none |
| `FilesInvariant` | `Spec => []FileInv` | none |
| `WholeFiles`, `PayloadsHaveFiles`, `FilesAreCurrent` | `FilesAreWhole`, `PayloadHasItsFile`, `FileIsCurrent` | none |
| `PhasesInOrder`, `ChainInvariant`, `WorkInvariant`, `StorageInvariant` | `Spec => []PhaseInv`, `[]ChainInv`, `[]WorkInv`, `[]StorageInv` | none |
| `StorageFollowsContract`, `DiffsTypesHold` | `Spec => []StorageTracksContract`, `[]TypeOK` (`StateDiffs`) | none |
| `ChangesAreDroppedForCause` | `Spec => []DropsAreEarned` | none |

**The chain argument.** `NeverReplacesExecutorBlock` is not inductive: that the
first block of a batch lies above the executor's head depends on where the batch
was begun. `RunIsChain` says that the translator's next parent, the channel, the
block in hand form one chain numbered without gaps (`StreamNumbered`,
`ChannelLinked`, `BlockLinked`), that the batch holds ancestors of the block in hand,
in order (`BatchOrdered`), and that rows carry their own number. This much survives
error answers. A run without one is also exact (`RunIsExact`): the batch has no gap
(`BatchLinked`), and the executor's head either has not passed the
head read at the start of the run, or is a block this run has sent
(`HeadBelow`, `BatchIsNew`). A block is then skipped only while the batch is empty
(`SkipsBeforeQueueing`), which is why a batch has no gap. None of this uses what
the blocks contain: it holds for a translator that changes its mind and for any
executor, also one that restarts in the middle of a run.

**The canonical argument.** With a deterministic translator every row, the
stream's parent, the channel, the batch and the hashes of a forkchoice update are
canonical (`RunIsCanonical`), hence ordered by their numbers, and what is looked
up below the head is its ancestor.

**Refinement.** `ClientFollowsChain` maps `chain` and `finalized` of
`ChainFollower` to `head` and `finalized` of the executor. `ExecutorIsCanonical`,
`RunIsFinal` and the two invariants above make every forkchoice update an
`Extend` step: the head is new, and the finalized block named is the block in
hand, above the one before. In a run that was given an error answer the head need
not be new, and the update is a `Repeat`: a canonical block, which is its own
finalized block. A restart of the executor is `Lose`; everything else
is a stutter. `FollowerOperators` identifies the operators of `EvmChain` on the
two sides of the instance.

**The LIB argument.** A LIB passes from SHIP through the channel and the block in
hand to the database, and back into the next run as the number to resume at.
`LibInv` orders these places: what the database holds is at most the LIB of the
block in hand, that at most those in the channel (`ChannelLibs`),
and all are at most the LIB of the node. Since everything the executor has finalized
comes from the same source (`Irreversible`), the smaller of the two numbers a run
resumes at is irreversible too.

**The resume argument.** `PayloadsConnect` is about the first block of a batch, and
why the executor has its parent was decided long before: by the row the run resumed
after, by the blocks skipped since, or by the batch before. `RunKnown` states it at
every point between: before its first block the run is at a block below which the
executor has the canonical chain (`FirstNum`), and afterwards every block up to the
one in hand is with the executor or in the batch (`Covered`), wherever the gaps are;
`HeadKnown` says that it has the chain up to its own head. A run resumes at the
finalized block of the executor at most, so below its head, and an error answer only
lowers that; a block is skipped only where the executor answered with
its hash; and a batch is cleared only after its payloads were executed. An executor
that loses blocks during a run breaks this, and `PayloadsConnect` with it: hence the
premise; the client notices at its next attempt only.

**The row argument.** Runs that translate differently leave rows of several chains in
one database, pruned at different times, and `StoredRowsAreAncestors` says that none of
another chain is at or below the block in hand. Two things make it true. The LIB stored
is never behind the block the executor has finalized (`FinalizedIsStored`, from
`LibInv`), so that a run always resumes at the last row up to that finalized block; and
the finalized block only advances to a block up to which the run has just written its
rows. `RowsOnChain` therefore speaks of one row only, the one a run would resume after
(`ResumeRows`): the rows below it are its ancestors, and a run that has begun has no such
row ahead of it. The row of the stop block is the exception, since no run resumes
after it. With a LIB below the finalized block, as an executor synchronised from
elsewhere would have it, a run could resume at a row above one that another run wrote:
with one client for one executor that happens only when the finalized block was read
as block 0 after an error answer. `RowsInv` is `RowsOnChain` until then.

**The checkpoint argument.** How far back a run resumes is decided by pruning, one
row at a time and over many runs: `PruneBlock` deletes a row at a fixed distance
behind the block in hand, whatever the LIB is by then. `CheckpointInv` says what
always stays: every multiple of the interval from the start block up to any row, and
up to the block the run has come to (`CheckpointsUpTo`), so that a run that resumes
and prunes again leaves no hole. One of as many consecutive numbers as the interval is
such a multiple (`CheckpointBelow`), hence less than one interval below the smaller of
LIB and finalized block there is a row, and `get_block_or_prev` finds it or a later
one (`LastRowIsFound`). Nothing is assumed of the translator, of faults or of how many
recent rows are kept. The premises of `ResumesNearFinalized` are needed: with no row at or above that
number, an executor synchronised by other means is ahead of the database; and a run
that could not read the finalized block looks for the rows of block 0.

**The validation argument.** `RunIsValidated`: all that came out of a stream that has
passed the comparison descends from the block that `validate_hash` names. It needs
nothing of the resume point: a run that resumes above the start block compares the
hash of its own first block, never passes, and sends nothing.

**The pipeline argument.** That the client gets every block is about six places at
once: four channels or queues and the hands of the tasks between them.
`DeliveryInv` names the number of the last block at each place, from the client
upwards (`OutHi`, `FinHi`, ..., `DeserHi`): what is in a channel goes on where the
next place ends (`Numbers`), and what is on its way to the deserializer is the rest
up to the node's last block (`Run`), between messages that are not blocks. This
holds while blocks still go all the way to the client (`Flowing`). A task that ends
drops what it holds, so the invariant needs that none ends before its time:
`EndsInv` (the end of a channel is gone only when its task has ended) and `StopInv`
(`ship_reader` is stopped only by a client that has ended or after the stop block)
give `NothingDropped`. A websocket error leaves the rest unread: from the first block
that did not come through, all lie in the socket, because they came in order
(`LeftFrom`), and nobody reads there any more. When the final processor ends well,
`SettledInv` keeps what it has delivered, and `OkMeansDelivered` follows: what an `Ok`
run has not delivered is what `ws.failed` left unread. `PhaseInv` counts: what the
deserializer has not acknowledged, and what is on its way to it, is never more than
what the node has in flight, as the node counts neither the ABI nor the status.
`ReceivesInOrder` then maps a receipt of the client to `Receive` of `BlockStream`,
its end to `End`, and every other step to a stutter.

**The progress argument.** `NeverStuck` lists, next to the end of the run, when each
task can go on (`CanMove`: its channel has an item or room, or the other end is gone),
and when it is the node's turn (`AwaitsNode`). Suppose nobody can move. From the client
upwards, a task that waits to send has a neighbour that does not take what is in the
channel, and there is none (`NobodySends`); so every task waits to receive, or has
ended. One that waits to receive has a sender that has not ended, as an ended task has
dropped its ends (`GoneInv`); so if one task has ended, all above and below it have, or
somebody waits for the stop channel, which `ship_reader` reads or has left
(`AllWait`). What remains is a pipeline that waits as a whole, with nothing on its way.
Then `FlowInv` says that the client has everything, and three counts that it is the
node's turn. `CountInv`: every request has one answer on its way, and the node has in
flight what is on its way and what the deserializer has not acknowledged, now with
equality. `WindowInv`: that is at most the ack threshold, and the results without a
block, which never trigger an ack; `PipelineAssumption` keeps the sum below the window.
`HaltInv`: a final processor that waits has not seen the stop block, and one that has
seen it left nothing behind (`NoBlocksPending`) and has asked `ship_reader` to stop.

**The link of blocks.** `LinkInv` says that the parent carried over to the block in
hand is the hash of the block sent last; `FetchedNamesParent` that a block recovered
from the reference is given this parent too, so that `PayloadsLink` survives a
reference with another history.

**The translation argument.** `BlockBuild` has two descriptions of a block: the
reference's, a choice of positions among all actions of the block at once, and the
program's, which goes through what SHIP shows, one action at a time.
`TranslationInv` holds whatever SHIP hides: the traces left come from the actions of
the block, transactions and traces together are no more than the actions, each
transaction is that of an action and fits below the dynamic gas limit. From it
`PayloadInv` gives every transaction of a payload its room below the gas limit, in a
block recovered from the reference too, where the limit is the largest that any of
its transactions needs. `OrderInv` is about traces of which none is missing: there
is a number of actions up to which transactions, gas and events are what the
reference has for those actions (`InOrder`), so that handling the next one appends
exactly what the reference has next (`PickedAppends`). `SentInv` carries this across
blocks: the parent is the reference's as long as `CanBeRight`, because a block that
was not translated whole is recovered, repaired by the comparison, or not sent.

**The fork argument.** `BuiltOnNativeParent` needs the map to be right, and the map
is filled from blocks built on the map. `StreamInv` adds that every entry of
`map`, also of forks that were left, carries the number of its block and its native
hash as EVM hash (`EntriesAreRight`), that before the first block the parent is the
configured one (`AtStart`), and that afterwards the next block either follows the
one sent last or finds its parent in the map (`Underway`). A change of fork keeps `ForkBasesAreKept` because it may only
begin at the LIB or above and `Retained` keeps the LIB itself; and the first block
of the run is the only one whose parent was never sent.

**The lookup argument.** A row is found only between two bounds that are both the
key, so that it is the row asked for, on any replica (`FoundIsRight`). `CachesAreRight`
is then preserved by insertions and evictions, the entries of `cache` under an index
included, since no name is an index (`CacheAssumption`): this is where the shared
key space of `cache` would hurt. `LookupInv` adds that the lookups of a block are
of names and indexes.

**The file argument.** `FileInv` says which contents `tmp` and `file` may have at
each `pc`: `file` is never written but by a rename of a whole `tmp`, and from the
write of an attempt to the executor's answer it is missing or old only if a
warning was given.

**The storage argument.** A storage change passes five representations: deltas with
present and old rows, a deduplicated list, changes by address and key, a file, the
executor's storage. `PhaseInv` keeps chain, payload and executor at most one block
apart. `ChainInv` says what the deltas of a block mean: of those of a slot, the one
with the largest index says what the slot holds after the block. `WorkInv` says so of
every later representation, rows, changes and both files, without
regard to which attempt has written the file: a row resolved to the right address
(`LookupInv`) is a change of its own slot, as no two accounts share an index or an
address (`CacheAssumption`). `StorageInv` then relates the executor: but for the slots
of a block it has not applied, and those whose last change was lost, it holds what the
contract holds. `Applied` is a function of the slot, so that its last change decides.
`EarnedInv`, for `DropsAreEarned`, counts: every changed slot is still in the rows, in
the changes, or has cost `MaxRetry + 1` failed answers, and those of the row in hand
are counted by `tries`; for each file, its `misses` pay for what it lacks.

**Induction.** The induction theorems of the library take an operator as a parameter,
which the provers cannot instantiate. `InductionFacts` derives what is needed without
one, from the well-foundedness of strict inclusion among finite sets: a set of numbers
that is not empty has a least number, so a set that has 0 and with each number the
next one has all up to a bound (`InductionUpTo`).

**Model-checked only.** Every invariant and every action property without fairness
that a passing run checks is a theorem. Left to TLC are the liveness properties
(`ExecutorCatchesUp`, `OneEndsAllEnd`, `ReachesStopBlock`, `ReachesLastBlock`,
`EndsOnHead`), as the prover handles neither fairness nor `ENABLED`. For the two of the
pipeline `PipelineNeverStuck` leaves only that to TLC: `CanMove` stands for what would be
the `ENABLED` of the tasks' actions. Neither checked nor proved: `FollowsCanonicalChain` for blocks that are not final, and
`StoredRowsAreAncestors` and `ForkChoiceOnOneChain` for these together with a
translator that is not deterministic.

## 5. What is not modelled

* The shutdown branch of the `select!` in `run`: the handle is returned by
  `run_client` only after the run is over, so nothing can use it.
* HTTP, the layout of JSON-RPC answers (also that `rpc_batch` does not count them),
  JWT, TOML, logging, the RLP, receipt and signature conversions, header fields other
  than parent, hash and gas: data that no property here distinguishes. Which calls
  look at the `error` of an answer, and what the others read instead, is modelled.
* Rows of the table "account" in the deltas: they carry their address and are
  passed on one by one, without a lookup and without deduplication.
* The exception for the revision at native block 276210867 of the testnet, a fixed
  value for one block.
* The JSON state dump of the deploy block, beyond the fact that this block has no
  events of its own.
* `PriorityQueue`, which nothing uses, ship types and names, which are
  declarations, and the offline tools (`injection.rs`, `bin/`), which page through
  the tables of a node whose chain goes on, and take no part in following it; nor
  does the stand-alone translator, which waits for all its tasks
  (`translator.rs:147`) without anybody to stop `ship_reader` when another one fails.
* Native blocks before the EVM chain, for which `block_num - block_delta` underflows
  (`block.rs:805`): the request starts at `evm_start_block + block_delta`.
* A panic of a task is an error of that task: it ends the same way.

## 6. Plan

Done: the client with its database, executor and retries; the pipeline; the block
builder with gas and events; the address cache with the state diffs and the files of
extra fields; `BlockMap` on a stream with forks; and for each of them the proofs of
all safety properties its runs check.

Next, in this order:

1. For the client, the address cache and the stream with forks what
   `PipelineNeverStuck` says of the pipeline: that whoever waits has something to wait
   for, so that only fairness is left to TLC.
2. `StoredRowsAreAncestors` for blocks that are not final together with a translator
   that is not deterministic, if TLC finds a condition under which it holds.

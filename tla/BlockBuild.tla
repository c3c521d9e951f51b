------------------------------- MODULE BlockBuild -------------------------------
(***************************************************************************)
(* How final_processor turns the native blocks it receives into EVM blocks *)
(* (final_processor.rs, generate_evm_data and handle_action of block.rs):  *)
(* from the action traces SHIP shows, with receipts printed to the console *)
(* or fetched from a reference RPC, and with the whole block fetched from  *)
(* the reference when an action cannot be handled or the hash differs.     *)
(*                                                                         *)
(* The reference chain is chosen block by block.  A block hash commits to  *)
(* its parent and its transactions: it is the sequence of the transaction  *)
(* lists from the first block on.                                          *)
(***************************************************************************)
EXTENDS Integers, Sequences, FiniteSets, FiniteSetsExt

CONSTANTS
  Kinds,        \* kinds of actions the native blocks of an instance hold
  MaxActions,   \* actions in a native block
  LastBlock,    \* blocks translated, numbered from 1
  DeployBlock,  \* config evm_deploy_block (0: none)
  Endpoints,    \* values of "is an rpc_fallback_endpoint configured"
  DefaultGasLimit, \* DEFAULT_GAS_LIMIT
  Samples,      \* values of rpc_fallback_sample_every_n
  Shows,        \* what SHIP may show of an action, one set of these in a behaviour
  FaultSets     \* answers that may fail, one set of these in a behaviour

ASSUME BuildAssumption ==
  /\ Kinds \subseteq {"raw", "unsigned", "withdraw", "deposit", "gasPrice", "revision",
                  "wallet", "other"}
  /\ MaxActions \in Nat /\ LastBlock \in Nat \ {0} /\ DeployBlock \in Nat
  /\ DefaultGasLimit \in Nat \ {0}
  /\ Endpoints \in (SUBSET BOOLEAN) \ {{}}
  /\ Samples \in (SUBSET Nat) \ {{}}
  /\ Shows \in (SUBSET SUBSET {"full", "noReceipt", "missing"}) \ {{}}
  /\ \A shown \in Shows : "full" \in shown
  /\ FaultSets \in (SUBSET SUBSET {"receiptNull", "receiptFails", "address", "hashFails",
                                   "blockFails", "rawNull", "rawFails",
                                   "configRow"}) \ {{}}

VARIABLES
  env,         \* fixed: is an rpc_fallback_endpoint configured (endpoint), what is
               \* rpc_fallback_sample_every_n (sampleEvery), what SHIP shows of an
               \* action (shown) and which answers may fail (faults)
  pc,          \* where the task is
  num,         \* EVM number of the block in hand
  parent,      \* BlockMap.parent_hash: hash of the block sent before
  script,      \* the actions of the native block in hand, as the chain has them
  reference,   \* hash of the reference chain's block before it
  traces,      \* action traces not handled yet
  txs,         \* self.transactions, each with its receipt
  seen,        \* tx_actions_seen
  gas,         \* cumulative_gas_used (used) and dyn_gas_limit (limit, 0: None)
  events,      \* new_gas_price, new_revision, new_wallets: how many transactions
               \* precede each of them
  payload,     \* header and ExecutionPayload the block is sent with
  sent         \* the block sent last

work == <<script, traces, txs, seen, gas, events, payload>>
vars == <<env, pc, num, parent, reference, work, sent>>

NoChange == -1
NoGas == [used |-> 0, limit |-> 0]
NoEvents == [gasPrice |-> NoChange, revision |-> NoChange, wallets |-> << >>]
NoPayload == [parent |-> << >>, hash |-> << >>, txs |-> << >>, gas |-> NoGas,
              recovered |-> FALSE]
NoBlock == [num |-> 0, payload |-> NoPayload, receipts |-> << >>, events |-> NoEvents]

-------------------------------------------------------------------------------
(***************************************************************************)
(* The native block and its translation on the reference chain.            *)
(***************************************************************************)
Scripts == UNION {[1..n -> Kinds] : n \in 0..MaxActions}

IsTransaction(kind) == kind \in {"raw", "unsigned", "withdraw", "deposit"}

\* Gas a transaction may use, and uses: a withdrawal or a deposit costs what it is
\* given, 21000 (0x5208), here 1.
GasLimit(kind) == CASE kind = "raw" -> 3 [] kind = "unsigned" -> 2 [] OTHER -> 1
GasUsed(kind) == IF kind = "unsigned" THEN 2 ELSE 1

\* The transaction made of action number "of" after "used" gas, with its receipt.
\* The signature of a raw one is given.  That of a withdrawal, a deposit or a raw
\* one the native account has signed is derived from its index in the block.
Transaction(of, kind, index, used) ==
  [of |-> of, index |-> IF kind = "raw" THEN 0 ELSE index, used |-> used + GasUsed(kind)]

TransactionsBefore(actions, i) == {j \in 1..(i - 1) : IsTransaction(actions[j])}

\* The units of gas they use, each with its transaction.
GasBefore(actions, i) ==
  Cardinality(UNION {{j} \X (1..GasUsed(actions[j])) : j \in TransactionsBefore(actions, i)})

\* The elements of a sequence at some positions, in order.
Nth(positions, n) == CHOOSE i \in positions : Cardinality({j \in positions : j <= i}) = n
Picked(s, positions) == [n \in 1..Cardinality(positions) |-> s[Nth(positions, n)]]

TxOf(i) == Transaction(i, script[i], Cardinality(TransactionsBefore(script, i)),
                       GasBefore(script, i))

\* Transactions of a block: none up to the deploy block.
ReferenceTxs ==
  IF num <= DeployBlock THEN << >>
  ELSE Picked([i \in 1..Len(script) |-> TxOf(i)], TransactionsBefore(script, Len(script) + 1))

\* Gas limit and gas used in the header of a block.
HeaderGas(g) == [used |-> g.used, limit |-> Max({DefaultGasLimit, g.limit})]

\* What a transaction needs of the block's gas limit.
GasNeeded(tx) == tx.used - GasUsed(script[tx.of]) + GasLimit(script[tx.of])

ReferenceGas ==
  LET numbers == DOMAIN ReferenceTxs
  IN  HeaderGas([used |-> Max({0} \cup {ReferenceTxs[i].used : i \in numbers}),
                 limit |-> Max({0} \cup {GasNeeded(ReferenceTxs[i]) : i \in numbers})])

ReferenceHash == Append(reference, ReferenceTxs)

\* The traces SHIP sends: some may be missing, some raw ones without a receipt.
TracesOf(actions, shown) ==
  Picked([i \in 1..Len(actions) |-> [of |-> i, kind |-> actions[i], shown |-> shown[i]]],
         {i \in 1..Len(actions) : shown[i] # "missing"})

May(fault) == fault \in env.faults

Init ==
  /\ env \in [endpoint : Endpoints, sampleEvery : Samples, shown : Shows,
             faults : FaultSets]
  /\ pc = "take" /\ num = 1 /\ parent = << >> /\ reference = << >>
  /\ script = << >> /\ traces = << >> /\ txs = << >> /\ seen = 0
  /\ gas = NoGas /\ events = NoEvents /\ payload = NoPayload /\ sent = NoBlock

\* Slip: the counter of the block before is kept.
TakeBlockAndCountOn ==
  /\ pc = "take"
  /\ num <= LastBlock
  /\ \E actions \in Scripts : \E shown \in [1..Len(actions) -> env.shown] :
       /\ script' = actions
       /\ traces' = IF num <= DeployBlock THEN << >> ELSE TracesOf(actions, shown)
  /\ txs' = << >> /\ gas' = NoGas /\ events' = NoEvents
  /\ payload' = NoPayload
  /\ pc' = "actions"
  /\ UNCHANGED <<env, num, parent, reference, seen, sent>>

\* A native block arrives.  Its events are skipped up to the deploy block.
TakeBlock ==
  /\ pc = "take"
  /\ num <= LastBlock
  /\ \E actions \in Scripts : \E shown \in [1..Len(actions) -> env.shown] :
       /\ script' = actions
       /\ traces' = IF num <= DeployBlock THEN << >> ELSE TracesOf(actions, shown)
  /\ txs' = << >> /\ seen' = 0 /\ gas' = NoGas /\ events' = NoEvents
  /\ payload' = NoPayload
  /\ pc' = "actions"
  /\ UNCHANGED <<env, num, parent, reference, sent>>

-------------------------------------------------------------------------------
(***************************************************************************)
(* handle_action, for the first trace left.                                *)
(***************************************************************************)
Handling(kinds) ==
  /\ pc = "actions"
  /\ traces # << >>
  /\ Head(traces).kind \in kinds

\* Counted before anything can fail.  The account of a transfer that deposits is
\* eosio.token, so that the condition on the account leaves it out.
Counted(trace) == IF trace.kind \in {"raw", "unsigned", "withdraw"} THEN seen + 1 ELSE seen

\* Slip: the gas of the transactions before is forgotten.
AddTransactionOwnLimit ==
  LET trace == Head(traces)
      tx == Transaction(trace.of, trace.kind, Len(txs), gas.used)
  IN  /\ txs' = Append(txs, tx)
      /\ gas' = [used |-> tx.used, limit |-> Max({gas.limit, GasLimit(trace.kind)})]
      /\ traces' = Tail(traces)
      /\ UNCHANGED pc

AddTransaction ==
  LET trace == Head(traces)
      tx == Transaction(trace.of, trace.kind, Len(txs), gas.used)
  IN  /\ txs' = Append(txs, tx)
      /\ gas' = [used |-> tx.used, limit |-> Max({gas.limit, gas.used + GasLimit(trace.kind)})]
      /\ traces' = Tail(traces)
      /\ UNCHANGED pc

ActionFails ==
  /\ pc' = "recover"
  /\ UNCHANGED <<txs, gas, traces>>

\* from_raw_action cannot decode a transaction: an error, or, for a type it does
\* not know, a panic of the task.
RawFails ==
  /\ May("rawFails") /\ pc' \in {"recover", "failed"}
  /\ UNCHANGED <<txs, gas, traces>>

\* A transaction whose receipt is in the console output.
HandleRaw ==
  /\ Handling({"raw", "unsigned"}) /\ Head(traces).shown = "full"
  /\ AddTransaction \/ RawFails
  /\ seen' = Counted(Head(traces))
  /\ UNCHANGED <<env, num, parent, reference, script, events, payload, sent>>

\* Slip: a null answer drops the transaction.
HandleRawOrSkip ==
  /\ Handling({"raw", "unsigned"}) /\ Head(traces).shown = "noReceipt"
  /\ \/ env.endpoint /\ AddTransaction
     \/ ~env.endpoint /\ ActionFails
     \/ /\ env.endpoint /\ May("receiptNull")
        /\ traces' = Tail(traces) /\ UNCHANGED <<pc, txs, gas>>
     \/ env.endpoint /\ May("receiptFails") /\ ActionFails
  /\ seen' = Counted(Head(traces))
  /\ UNCHANGED <<env, num, parent, reference, script, events, payload, sent>>

\* Without a receipt: from the reference RPC.  A null answer is an error, since
\* the transaction may be unknown to a lagging replica only.
HandleRawWithoutReceipt ==
  /\ Handling({"raw", "unsigned"}) /\ Head(traces).shown = "noReceipt"
  /\ \/ env.endpoint /\ AddTransaction
     \/ ~env.endpoint /\ ActionFails
     \/ env.endpoint /\ (May("receiptNull") \/ May("receiptFails")) /\ ActionFails
     \/ env.endpoint /\ RawFails
  /\ seen' = Counted(Head(traces))
  /\ UNCHANGED <<env, num, parent, reference, script, events, payload, sent>>

\* A withdrawal or a deposit: the native account is resolved to an EVM address,
\* which fails after the retries of NameToAddressCache::get.
HandleTransfer ==
  /\ Handling({"withdraw", "deposit"})
  /\ \/ AddTransaction
     \/ May("address") /\ ActionFails
  /\ seen' = Counted(Head(traces))
  /\ UNCHANGED <<env, num, parent, reference, script, events, payload, sent>>

\* Slip: the transaction actions seen are taken for the transactions made.
HandleGasPriceAtSeen ==
  /\ Handling({"gasPrice"})
  /\ \/ events' = [events EXCEPT !.gasPrice = seen] /\ traces' = Tail(traces) /\ UNCHANGED pc
     \/ May("configRow") /\ pc' = "failed" /\ UNCHANGED <<events, traces>>
  /\ UNCHANGED <<env, num, parent, reference, script, txs, seen, gas, payload, sent>>

\* init and doresources.  The price is in the delta of the config row: when SHIP
\* does not show one the task panics.
HandleGasPrice ==
  /\ Handling({"gasPrice"})
  /\ \/ events' = [events EXCEPT !.gasPrice = Len(txs)] /\ traces' = Tail(traces) /\ UNCHANGED pc
     \/ May("configRow") /\ pc' = "failed" /\ UNCHANGED <<events, traces>>
  /\ UNCHANGED <<env, num, parent, reference, script, txs, seen, gas, payload, sent>>

\* setrevision: like the gas price, the last one counts.
HandleRevision ==
  /\ Handling({"revision"})
  /\ events' = [events EXCEPT !.revision = Len(txs)]
  /\ traces' = Tail(traces)
  /\ UNCHANGED <<env, pc, num, parent, reference, script, txs, seen, gas, payload, sent>>

\* openwallet and create: all of them are kept.
HandleWallet ==
  /\ Handling({"wallet"})
  /\ events' = [events EXCEPT !.wallets = Append(@, Len(txs))]
  /\ traces' = Tail(traces)
  /\ UNCHANGED <<env, pc, num, parent, reference, script, txs, seen, gas, payload, sent>>

HandleOther ==
  /\ Handling({"other"})
  /\ traces' = Tail(traces)
  /\ UNCHANGED <<env, pc, num, parent, reference, script, txs, seen, gas,
                 events, payload, sent>>

-------------------------------------------------------------------------------
(***************************************************************************)
(* The rest of generate_evm_data.                                          *)
(***************************************************************************)

\* Slip: the parent hash of the reference as well.
FetchedWhole ==
  {[parent |-> reference, hash |-> ReferenceHash, txs |-> ReferenceTxs, gas |-> ReferenceGas,
    recovered |-> TRUE]}

\* The transactions of the reference whose raw bytes are not null.
RawTxs ==
  IF May("rawNull")
  THEN {Picked(ReferenceTxs, given) : given \in SUBSET (1..Len(ReferenceTxs))}
  ELSE {ReferenceTxs}

\* fetch_block_from_rpc: hash, gas and transactions of the reference, parent_hash
\* our own.
Fetched ==
  {[parent |-> parent, hash |-> ReferenceHash, txs |-> given, gas |-> ReferenceGas,
    recovered |-> TRUE] : given \in RawTxs}

\* The header and payload built from the traces.
Built == [parent |-> parent, hash |-> Append(parent, txs), txs |-> txs, gas |-> HeaderGas(gas),
          recovered |-> FALSE]

\* An action failed: the whole block comes from the reference, or the translator
\* ends with an error.
RecoverBlock ==
  /\ pc = "recover"
  /\ \/ env.endpoint /\ payload' \in Fetched /\ pc' = "finish"
     \/ (~env.endpoint \/ May("blockFails")) /\ UNCHANGED payload /\ pc' = "failed"
  /\ UNCHANGED <<env, num, parent, reference, script, traces, txs, seen,
                 gas, events, sent>>

IsSampleBlock == env.sampleEvery <= 1 \/ num % env.sampleEvery = 0

\* Is the block compared with the reference?
Checked == env.endpoint /\ (seen > 0 \/ IsSampleBlock)

UseBuilt == payload' = Built /\ pc' = "finish"

\* All actions are handled.  A block that is not checked, or whose reference hash
\* is the same or not to be had, is sent as it was built; one that differs is
\* fetched, and sent as built if that fails.
BuildBlock ==
  /\ pc = "actions"
  /\ traces = << >>
  /\ \/ ~Checked /\ UseBuilt
     \/ Checked /\ May("hashFails") /\ UseBuilt
     \/ Checked /\ Built.hash = ReferenceHash /\ UseBuilt
     \/ /\ Checked /\ Built.hash # ReferenceHash
        /\ \/ payload' \in Fetched /\ pc' = "finish"
           \/ May("blockFails") /\ UseBuilt
  /\ UNCHANGED <<env, num, parent, reference, script, traces, txs, seen,
                 gas, events, sent>>

\* The wallets opened or created are told to the executor, but for those created
\* whose account cannot be resolved.
NewAddresses(wallets) ==
  IF May("address") THEN {Picked(wallets, found) : found \in SUBSET (1..Len(wallets))}
  ELSE {wallets}

\* The block is completed, remembered as the parent of the next one, and sent.
\* Receipts and events come from the actions handled here, above the deploy
\* block; the deploy block itself carries the dumped state.
FinishBlock ==
  /\ pc = "finish"
  /\ \E wallets \in NewAddresses(events.wallets) :
       sent' = [num |-> num, payload |-> payload,
                receipts |-> IF num > DeployBlock THEN txs ELSE << >>,
                events |-> IF num > DeployBlock THEN [events EXCEPT !.wallets = wallets]
                           ELSE NoEvents]
  /\ parent' = payload.hash
  /\ reference' = ReferenceHash
  /\ num' = num + 1
  /\ pc' = "take"
  /\ UNCHANGED <<env, work>>

-------------------------------------------------------------------------------
HandleAction ==
  \/ HandleRaw \/ HandleRawWithoutReceipt \/ HandleTransfer
  \/ HandleGasPrice \/ HandleRevision \/ HandleWallet \/ HandleOther

Next == TakeBlock \/ HandleAction \/ RecoverBlock \/ BuildBlock \/ FinishBlock

Spec == Init /\ [][Next]_vars

-------------------------------------------------------------------------------
(***************************************************************************)
(* Properties.                                                             *)
(***************************************************************************)
Tx == [of : 1..MaxActions, index : 0..MaxActions, used : 1..(2 * MaxActions)]
Txs == Seq(Tx)
Gas == [used : 0..(2 * MaxActions), limit : Nat]
Position == NoChange..MaxActions
Events == [gasPrice : Position, revision : Position, wallets : Seq(0..MaxActions)]
Payload == [parent : Seq(Txs), hash : Seq(Txs), txs : Txs, gas : Gas, recovered : BOOLEAN]

\* Types of the variables.
TypeOK ==
  /\ env \in [endpoint : BOOLEAN, sampleEvery : Nat, shown : Shows, faults : FaultSets]
  /\ pc \in {"take", "actions", "recover", "finish", "failed"}
  /\ num \in 1..(LastBlock + 1)
  /\ parent \in Seq(Txs) /\ reference \in Seq(Txs)
  /\ Len(parent) = num - 1 /\ Len(reference) = num - 1
  /\ script \in Seq(Kinds)
  /\ traces \in Seq([of : 1..MaxActions, kind : Kinds, shown : env.shown])
  /\ txs \in Txs
  /\ seen \in 0..MaxActions
  /\ gas \in Gas /\ events \in Events
  /\ payload \in Payload
  /\ sent \in [num : 0..LastBlock, payload : Payload, receipts : Txs,
               events : Events]

HasSent == sent # NoBlock

\* The block is sure to be compared and repaired: SHIP shows all of it, or every
\* block is compared with a reference that answers; and a recovered transaction
\* is never null.
CanBeRight ==
  /\ ~May("rawNull")
  /\ \/ "missing" \notin env.shown
     \/ env.endpoint /\ env.sampleEvery <= 1 /\ ~May("hashFails") /\ ~May("blockFails")

\* What is sent is the block of the reference chain, and hashes to the hash it
\* is sent under: missing receipts, null answers, unknown accounts and, when
\* every block is checked, missing traces end in a correct block or in an error,
\* never in a block that silently lacks a transaction.
SentIsCanonical ==
  CanBeRight /\ HasSent =>
    /\ sent.payload.hash = reference
    /\ sent.payload.hash = Append(sent.payload.parent, sent.payload.txs)

\* Where the events of the block sent are on the reference chain: each after as
\* many transactions as there are actions that make one before it.
ReferenceEvents ==
  LET Of(kind) == {i \in 1..Len(script) : script[i] = kind}
      At(i) == Cardinality(TransactionsBefore(script, i))
      LastOf(kind) == IF Of(kind) = {} THEN NoChange ELSE At(Max(Of(kind)))
  IN  IF sent.num <= DeployBlock THEN NoEvents
      ELSE [gasPrice |-> LastOf("gasPrice"), revision |-> LastOf("revision"),
            wallets |-> Picked([i \in 1..Len(script) |-> At(i)], Of("wallet"))]

\* When SHIP shows all actions, what a block that was not recovered tells the
\* executor beside the payload fits the payload: one receipt for each
\* transaction, in order, and gas price, revision and wallets after as many
\* transactions as on the reference chain; only a wallet may be missing, whose
\* account could not be resolved.
ExtraFieldsMatch ==
  "missing" \notin env.shown /\ HasSent /\ pc = "take" /\ ~sent.payload.recovered =>
    /\ sent.receipts = sent.payload.txs
    /\ sent.events.gasPrice = ReferenceEvents.gasPrice
    /\ sent.events.revision = ReferenceEvents.revision
    /\ sent.events.wallets \in NewAddresses(ReferenceEvents.wallets)

\* An executor can run the block: when a transaction's turn comes, what it may use
\* still fits below the block's gas limit, also in blocks that need more than
\* DEFAULT_GAS_LIMIT, and in recovered ones.
GasFits ==
  HasSent /\ pc = "take" =>
    \A i \in DOMAIN sent.payload.txs : GasNeeded(sent.payload.txs[i]) <= sent.payload.gas.limit

\* Every block names the block sent before as its parent, also one fetched from
\* the reference after an unchecked block differed from it.
PayloadsLink ==
  [][sent' # sent => /\ sent'.payload.parent = sent.payload.hash
                     /\ sent'.num = sent.num + 1]_vars

-------------------------------------------------------------------------------
(***************************************************************************)
(* Statements of the repository that the code does not keep.               *)
(***************************************************************************)

\* "Blocks with transactions are ALWAYS validated regardless of sampling".  One
\* that holds deposits only is not: a deposit is not counted in tx_actions_seen.
TransactionsAlwaysValidated ==
  pc = "actions" /\ traces = << >> /\ env.endpoint /\ txs # << >> => Checked

\* "fetch the full block from the reference RPC and use its data instead": the
\* receipts that go with a recovered block are those of its transactions.
RecoveredDataIsUsed ==
  HasSent /\ sent.payload.recovered /\ sent.num > DeployBlock =>
    sent.receipts = sent.payload.txs
===============================================================================

------------------------------- MODULE StateDiffs -------------------------------
(***************************************************************************)
(* How a change of EVM storage on the native chain reaches the executor:   *)
(* the table deltas of a block are decoded and deduplicated                *)
(* (generate_evm_data), the accounts they belong to are resolved           *)
(* (final_processor with AddressCache), the resulting extra fields are     *)
(* written to a file (send_batch), and the executor reads the file when it *)
(* gets the payload.  All blocks lie above the deploy block.               *)
(*                                                                         *)
(* A row of the table "accountstate" is a number that orders the rows of a *)
(* storage key by age, and a value; both are the number of the block that  *)
(* created the row, or wrote it last.                                      *)
(***************************************************************************)
EXTENDS AddressCache, Sequences, SequencesExt

CONSTANTS
  Keys,        \* storage keys, numbers
  LastBlock,   \* blocks of the chain, numbered from 1
  Behaviours   \* each with: may an attempt end early (restarts), and how many names
               \* a block may refer to (maxNames)

ASSUME DiffsAssumption ==
  /\ Keys \subseteq Nat /\ IsFiniteSet(Keys)
  /\ LastBlock \in Nat \ {0}
  /\ Behaviours \subseteq [restarts : BOOLEAN, maxNames : Nat]

VARIABLES
  env,         \* fixed: one of Behaviours
  num,         \* number of the native block in hand
  block,       \* its deltas, the names its transfers and its new wallets refer to
  contract,    \* rows of the EVM contract after it
  pc,          \* where its translation is
  rows,        \* decoded_rows not resolved yet
  names,       \* names not resolved yet
  diffs,       \* statediffs_accountstate
  answers,     \* addresses given for this translation
  misses,      \* tries that have failed for scopes in this translation
  tmp, file,   \* the files of extra fields under the block's hash
  warned,      \* has a write of them failed
  pending,     \* block whose payload is on its way to the executor (0: none)
  applied,     \* last block the executor has
  executor,    \* its storage
  lost         \* slots whose last change has not reached it

native == <<num, block, contract>>
work == <<rows, names, diffs, answers, misses>>
disk == <<tmp, file, warned>>
remote == <<applied, executor, lost>>
vars == <<env, native, pc, cacheVars, work, disk, pending, remote>>

Slots == Indexes \X Keys
NoRow == [index |-> 0, value |-> 0]
Nothing == [kind |-> "nothing"]
Partial == [kind |-> "partial"]

Init ==
  /\ env \in Behaviours
  /\ num = 0 /\ block = [deltas |-> {}, transfers |-> << >>, wallets |-> << >>]
  /\ contract = [s \in Slots |-> NoRow]
  /\ pc = "native"
  /\ CacheInit
  /\ rows = << >> /\ names = << >> /\ diffs = << >> /\ answers = {} /\ misses = 0
  /\ tmp = Nothing /\ file = Nothing /\ warned = FALSE
  /\ pending = 0
  /\ applied = 0 /\ executor = [s \in Address \X Keys |-> 0] /\ lost = {}

-------------------------------------------------------------------------------
(***************************************************************************)
(* The native chain.                                                       *)
(***************************************************************************)
Delta(slot, present, row) == [slot |-> slot, present |-> present, row |-> row]

\* The deltas of a slot, for what a block does to it.
DeltasOf(slot, effect, n) ==
  LET old == contract[slot]
      removed == Delta(slot, FALSE, old)
      created == Delta(slot, TRUE, [index |-> n, value |-> n])
  IN  CASE effect = "none"     -> {}
        [] effect = "write"    -> {IF old = NoRow THEN created
                                   ELSE Delta(slot, TRUE, [old EXCEPT !.value = n])}
        [] effect = "clear"    -> {removed}
        [] effect = "recreate" -> {removed, created}

RowAfter(deltas, slot) ==
  LET present == {d \in deltas : d.slot = slot /\ d.present}
      touched == {d \in deltas : d.slot = slot}
  IN  IF touched = {} THEN contract[slot]
      ELSE IF present = {} THEN NoRow
      ELSE (CHOOSE d \in present : TRUE).row

\* The accounts of a block's transfers and those of its new wallets.
NameLists ==
  {lists \in SeqOf(Names, env.maxNames) \X SeqOf(Names, env.maxNames) :
     Len(lists[1]) + Len(lists[2]) <= env.maxNames}

\* A block of the native chain.  Only rows that exist are cleared or replaced.
NativeBlock ==
  /\ pc = "native"
  /\ num < LastBlock
  /\ \E effect \in [Slots -> {"none", "write", "clear", "recreate"}] :
       LET deltas == UNION {DeltasOf(s, effect[s], num + 1) : s \in Slots}
       IN  /\ \A s \in Slots : effect[s] \in {"clear", "recreate"} => contract[s] # NoRow
           /\ \E lists \in NameLists :
                block' = [deltas |-> deltas, transfers |-> lists[1], wallets |-> lists[2]]
           /\ contract' = [s \in Slots |-> RowAfter(deltas, s)]
  /\ num' = num + 1
  /\ pc' = "decode"
  /\ tmp' = Nothing /\ file' = Nothing /\ warned' = FALSE
  /\ UNCHANGED <<env, cacheVars, work, pending, remote>>

-------------------------------------------------------------------------------
(***************************************************************************)
(* generate_evm_data: one row for each scope and key, the one with the     *)
(* largest index, in the order of scopes and keys.                         *)
(***************************************************************************)
Orders(set) == {s \in [1..Cardinality(set) -> set] : IsInjective(s)}

SlotBefore(d, e) ==
  \/ d.slot[1] < e.slot[1]
  \/ d.slot[1] = e.slot[1] /\ d.slot[2] < e.slot[2]

\* Slip: the first delta of a slot is kept.
KeepsFirst(deltas) ==
  {deltas[i] : i \in {i \in DOMAIN deltas :
                        \A j \in DOMAIN deltas : deltas[j].slot = deltas[i].slot => i <= j}}

\* Of the deltas of a slot the one with the largest index, the first of them if
\* several have it.
Deduplicated(deltas) ==
  {deltas[i] : i \in {i \in DOMAIN deltas :
                        \A j \in DOMAIN deltas :
                          deltas[j].slot = deltas[i].slot =>
                            \/ deltas[j].row.index < deltas[i].row.index
                            \/ deltas[j].row.index = deltas[i].row.index /\ i <= j}}

\* SHIP lists the deltas of a block in an order of its own.
Decode ==
  /\ pc = "decode"
  /\ \E order \in Orders(block.deltas) :
       \E sorted \in Orders(Deduplicated(order)) :
         /\ \A i, j \in DOMAIN sorted : i < j => SlotBefore(sorted[i], sorted[j])
         /\ rows' = sorted
  /\ names' = block.transfers
  /\ diffs' = << >> /\ answers' = {} /\ misses' = 0
  /\ pc' = "transfers"
  /\ UNCHANGED <<env, native, cacheVars, disk, pending, remote>>

-------------------------------------------------------------------------------
(***************************************************************************)
(* The lookups of a block: the accounts of its transfers while its actions *)
(* are handled, the scopes of its rows and the accounts of its new wallets *)
(* in final_processor.                                                     *)
(***************************************************************************)
Answer(key, position, address) ==
  answers' = answers \cup {[key |-> key, position |-> position, address |-> address]}

ResolveTransfer ==
  /\ pc = "transfers"
  /\ names # << >>
  /\ \E address \in Address :
       Resolves(Head(names), "TERTIARY", address) /\ Answer(Head(names), "TERTIARY", address)
  /\ names' = Tail(names)
  /\ UNCHANGED <<env, native, pc, rows, diffs, misses, disk, pending, remote>>

\* Slip: the account is looked up until it is found.
InsistOnTransfers ==
  /\ pc = "transfers"
  /\ names # << >>
  /\ GivesUp(Head(names), "TERTIARY")
  /\ UNCHANGED <<env, native, pc, work, disk, pending, remote>>

\* The action fails: the block is fetched from the reference, with the rows that
\* were decoded before (without a reference the attempt ends, see Restart).
AbandonTransfers ==
  /\ pc = "transfers"
  /\ names # << >>
  /\ GivesUp(Head(names), "TERTIARY")
  /\ names' = << >>
  /\ UNCHANGED <<env, native, pc, rows, diffs, answers, misses, disk, pending, remote>>

ActionsHandled ==
  /\ pc = "transfers"
  /\ names = << >>
  /\ pc' = "rows"
  /\ UNCHANGED <<env, native, cacheVars, work, disk, pending, remote>>

Scope == Head(rows).slot[1]

ResolveScope ==
  /\ pc = "rows"
  /\ rows # << >>
  /\ \E address \in Address :
       /\ Resolves(Scope, "PRIMARY", address)
       /\ Answer(Scope, "PRIMARY", address)
       /\ diffs' = Append(diffs, [address |-> address, key |-> Head(rows).slot[2],
                                  removed |-> ~Head(rows).present,
                                  value |-> Head(rows).row.value])
  /\ rows' = Tail(rows)
  /\ UNCHANGED <<env, native, pc, names, misses, disk, pending, remote>>

\* A storage change whose account cannot be resolved is dropped.
DropRow ==
  /\ pc = "rows"
  /\ rows # << >>
  /\ GivesUp(Scope, "PRIMARY")
  /\ misses' = misses + 1
  /\ rows' = Tail(rows)
  /\ UNCHANGED <<env, native, pc, names, diffs, answers, disk, pending, remote>>

RowsResolved ==
  /\ pc = "rows"
  /\ rows = << >>
  /\ names' = block.wallets
  /\ pc' = "wallets"
  /\ UNCHANGED <<env, native, cacheVars, rows, diffs, answers, misses, disk, pending,
                 remote>>

\* A new wallet, or one that is skipped because its account cannot be resolved.
ResolveWallet ==
  /\ pc = "wallets"
  /\ names # << >>
  /\ \/ \E address \in Address :
          Resolves(Head(names), "TERTIARY", address) /\ Answer(Head(names), "TERTIARY", address)
     \/ GivesUp(Head(names), "TERTIARY") /\ UNCHANGED answers
  /\ names' = Tail(names)
  /\ UNCHANGED <<env, native, pc, rows, diffs, misses, disk, pending, remote>>

\* A try fails and the lookup goes on.
TryAgain ==
  /\ \/ /\ pc \in {"transfers", "wallets"} /\ names # << >>
        /\ Fails(Head(names), "TERTIARY")
        /\ UNCHANGED misses
     \/ /\ pc = "rows" /\ rows # << >>
        /\ Fails(Scope, "PRIMARY")
        /\ misses' = misses + 1
  /\ UNCHANGED <<env, native, pc, rows, names, diffs, answers, disk, pending, remote>>

BlockCompleted ==
  /\ pc = "wallets"
  /\ names = << >>
  /\ pc' = "write"
  /\ UNCHANGED <<env, native, cacheVars, work, disk, pending, remote>>

-------------------------------------------------------------------------------
(***************************************************************************)
(* send_batch: the extra fields of a block are written to a temporary file *)
(* that is renamed.  Failures are logged, the temporary file is removed,   *)
(* and the payload is sent all the same.                                   *)
(***************************************************************************)
ExtraFields == [kind |-> "whole", diffs |-> diffs, misses |-> misses]

\* Slip: written in place.
WriteInPlace ==
  /\ pc = "write"
  /\ \/ file' = ExtraFields /\ UNCHANGED warned
     \/ file' = Partial /\ warned' = TRUE
  /\ pc' = "send"
  /\ UNCHANGED <<env, native, cacheVars, work, tmp, pending, remote>>

WriteTmp ==
  /\ pc = "write"
  /\ \/ tmp' = ExtraFields /\ pc' = "rename" /\ UNCHANGED warned
     \/ tmp' = Nothing /\ pc' = "send" /\ warned' = TRUE
  /\ UNCHANGED <<env, native, cacheVars, work, file, pending, remote>>

\* Slip: a file that exists is not replaced.
RenameNew ==
  /\ pc = "rename"
  /\ tmp' = Nothing
  /\ \/ file' = (IF file = Nothing THEN tmp ELSE file) /\ UNCHANGED warned
     \/ warned' = TRUE /\ UNCHANGED file
  /\ pc' = "send"
  /\ UNCHANGED <<env, native, cacheVars, work, pending, remote>>

Rename ==
  /\ pc = "rename"
  /\ tmp' = Nothing
  /\ \/ file' = tmp /\ UNCHANGED warned
     \/ warned' = TRUE /\ UNCHANGED file
  /\ pc' = "send"
  /\ UNCHANGED <<env, native, cacheVars, work, pending, remote>>

\* Slip: the payload overtakes the rename.
SendBeforeRename ==
  /\ pc \in {"rename", "send"}
  /\ pending' = num
  /\ pc' = "wait"
  /\ UNCHANGED <<env, native, cacheVars, work, disk, remote>>

SendPayload ==
  /\ pc = "send"
  /\ pending' = num
  /\ pc' = "wait"
  /\ UNCHANGED <<env, native, cacheVars, work, disk, remote>>

\* The executor answered: on to the next block.
Answered ==
  /\ pc = "wait"
  /\ pending = 0
  /\ pc' = "native"
  /\ rows' = << >> /\ names' = << >> /\ diffs' = << >> /\ answers' = {} /\ misses' = 0
  /\ UNCHANGED <<env, native, cacheVars, disk, pending, remote>>

-------------------------------------------------------------------------------
(***************************************************************************)
(* The executor (external).  It reads the file when it handles a payload   *)
(* it does not know yet, and has nothing to apply without one.             *)
(***************************************************************************)
Changed == {d.slot : d \in block.deltas}

AddressOf(index) == (CHOOSE a \in Accounts : a.index = index).address

\* What the changes make of a storage: of those of a key the last one counts.
Applied(storage, changes) ==
  [x \in DOMAIN storage |->
     LET ofKey == {i \in 1..Len(changes) : <<changes[i].address, changes[i].key>> = x}
         last == changes[Max(ofKey)]
     IN  IF ofKey = {} THEN storage[x] ELSE IF last.removed THEN 0 ELSE last.value]

Delivered(changes) ==
  {s \in Changed : \E i \in 1..Len(changes) : /\ changes[i].address = AddressOf(s[1])
                                              /\ changes[i].key = s[2]}

ExecutorApplies ==
  /\ pending # 0
  /\ pending' = 0
  /\ IF pending <= applied
     THEN UNCHANGED remote
     ELSE LET changes == IF file.kind = "whole" THEN file.diffs ELSE << >>
          IN  /\ applied' = pending
              /\ executor' = Applied(executor, changes)
              /\ lost' = (lost \cup Changed) \ Delivered(changes)
  /\ UNCHANGED <<env, native, pc, cacheVars, work, disk>>

\* The attempt ends early: an error, a crash, a call that does not arrive or whose
\* answer is lost.  What it leaves of the temporary file is taken for a part of it:
\* nothing reads it before the next write.  The next attempt translates the block
\* again, with empty caches, unless the executor has it.
Restart ==
  /\ env.restarts
  /\ pc # "native"
  /\ pc' = IF applied = num THEN "native" ELSE "decode"
  /\ cache' = Empty /\ index_cache' = [k \in Indexes |-> NoAddress] /\ tries' = 0
  /\ rows' = << >> /\ names' = << >> /\ diffs' = << >> /\ answers' = {} /\ misses' = 0
  /\ tmp' = Partial
  /\ pending' \in {pending, 0}
  /\ UNCHANGED <<env, native, file, warned, remote>>

-------------------------------------------------------------------------------
Lookups ==
  \/ ResolveTransfer \/ AbandonTransfers \/ ResolveScope \/ DropRow \/ ResolveWallet
  \/ TryAgain

Client ==
  \/ Decode \/ Lookups \/ ActionsHandled \/ RowsResolved \/ BlockCompleted
  \/ WriteTmp \/ Rename \/ SendPayload \/ Answered

Next == NativeBlock \/ Client \/ ExecutorApplies \/ Restart

Spec == Init /\ [][Next]_vars

\* The chain goes on, tokio polls a task that is ready, sleeps end, and the
\* executor answers.
FairSpec ==
  Spec /\ WF_vars(NativeBlock) /\ WF_vars(Client) /\ WF_vars(ExecutorApplies)

-------------------------------------------------------------------------------
(***************************************************************************)
(* Properties.                                                             *)
(***************************************************************************)
Row == [index : 0..LastBlock, value : 0..LastBlock]
Deltas == [slot : Slots, present : BOOLEAN, row : Row]
Diff == [address : Address, key : Keys, removed : BOOLEAN, value : 0..LastBlock]
File == [kind : {"whole"}, diffs : Seq(Diff), misses : Nat]

\* Types of the variables.
TypeOK ==
  /\ CacheTypeOK
  /\ env \in Behaviours
  /\ num \in 0..LastBlock /\ applied \in {num - 1, num}
  /\ block \in [deltas : SUBSET Deltas, transfers : Seq(Names), wallets : Seq(Names)]
  /\ contract \in [Slots -> Row]
  /\ pc \in {"native", "decode", "transfers", "rows", "wallets", "write", "rename", "send",
             "wait"}
  /\ rows \in Seq(Deltas) /\ names \in Seq(Names) /\ diffs \in Seq(Diff)
  /\ answers \subseteq [key : CacheKeys, position : {"PRIMARY", "TERTIARY"}, address : Address]
  /\ misses \in Nat
  /\ tmp \in File \cup {Nothing, Partial}
  /\ file \in File \cup {Nothing, Partial}
  /\ warned \in BOOLEAN /\ pending \in {0, num - 1, num}
  /\ executor \in [Address \X Keys -> 0..LastBlock]
  /\ lost \subseteq Slots

\* Every address a block is built with is that of the account asked for, whether
\* it comes from the caches, from a replica that lags or from one that does not,
\* and whatever has been evicted.
AddressesAreRight ==
  \A a \in answers : IsAddressOf(a.address, a.key, a.position)

\* Once a block is applied, the executor's storage is the contract's in every
\* slot whose last change has not been dropped: rows that were replaced within a
\* block, in whatever order their deltas come, files of an earlier attempt and
\* payloads that arrive late included.
StorageTracksContract ==
  pc = "native" =>
    \A s \in Slots \ lost : executor[<<AddressOf(s[1]), s[2]>>] = contract[s].value

\* A storage change is missing from the extra fields of a block only after
\* MAX_RETRY + 1 answers have failed for it.
DropsAreEarned ==
  file.kind = "whole" =>
    (MaxRetry + 1) * (Cardinality(Changed) - Len(file.diffs)) <= file.misses

\* The executor never finds a part of a file: neither after a crash in the middle
\* of a write nor when a late payload is handled while the next attempt writes.
FilesAreWhole == file # Partial

\* The executor handles a payload without its file only if writing it has failed
\* with a warning.
PayloadHasItsFile == pending > applied /\ file = Nothing => warned

\* The executor gets what the attempt in hand has computed, unless a warning says
\* that it could not be written: a file of an earlier attempt, which may lack
\* more, does not stay.
FileIsCurrent == pc = "wait" /\ pending > applied /\ ~warned => file = ExtraFields

\* An account nobody can resolve costs a change, never the stream: without
\* restarts every block gets to the executor.
ReachesLastBlock == ~env.restarts => <>(applied = LastBlock)
=============================================================================

--------------------------- MODULE ForkedStreamProofs ---------------------------
(***************************************************************************)
(* Theorems about ForkedStream, for every value of its constants: any      *)
(* number of labels, forks and blocks.                                     *)
(***************************************************************************)
EXTENDS ForkedStream, SequenceTheorems, TLAPS

-------------------------------------------------------------------------------
(***************************************************************************)
(* The inductive invariant.                                                *)
(***************************************************************************)

\* Every entry of the map belongs to the block it is found under.
EntriesAreRight == \A h \in DOMAIN map : map[h].num = Len(h) /\ map[h].hash = h

\* Before the first block: its parent is the configured one.
AtStart ==
  /\ next = StartBlock
  /\ parent_hash = BlockAt(fork, StartBlock - 1)
  /\ ~failed
  /\ DOMAIN map = {}

\* After it: the next block either follows the one sent last, which is its parent,
\* or comes from another fork, and its parent is in the map.  A later LIB does not
\* matter: the map is pruned only after the block is processed.
Underway ==
  /\ next <= prev_block_num + 1
  /\ next = prev_block_num + 1 => parent_hash = BlockAt(fork, next - 1)
  /\ next <= prev_block_num /\ next > StartBlock => BlockAt(fork, next - 1) \in DOMAIN map

StreamInv ==
  /\ TypeOK
  /\ EntriesAreRight
  /\ ~HasFinished => AtStart
  /\ HasFinished => Underway
  /\ BuiltOnNativeParent
  /\ ForkBasesAreKept
  /\ FailsOnlyAtStart

-------------------------------------------------------------------------------
(***************************************************************************)
(* Hashes.                                                                 *)
(***************************************************************************)

\* A hash is a sequence of labels of at most MaxBlock blocks.
LEMMA HashesAreSequences ==
  Hashes = {s \in Seq(Labels) : Len(s) <= MaxBlock}
<1>1. ASSUME NEW h \in Hashes
      PROVE  h \in Seq(Labels) /\ Len(h) <= MaxBlock
  <2>1. PICK n \in 0..MaxBlock : h \in [1..n -> Labels]
    BY <1>1 DEF Hashes, Chains
  <2>2. n \in Nat /\ n <= MaxBlock
    BY StreamAssumption
  <2>3. h \in Seq(Labels)
    BY <2>1, <2>2, SeqDef
  <2>4. Len(h) = n
    BY <2>1, <2>2, <2>3, LenProperties
  <2> QED
    BY <2>2, <2>3, <2>4
<1>2. ASSUME NEW s \in Seq(Labels), Len(s) <= MaxBlock
      PROVE  s \in Hashes
  <2>1. Len(s) \in 0..MaxBlock /\ s \in [1..Len(s) -> Labels]
    BY <1>2, LenProperties, StreamAssumption
  <2> QED
    BY <2>1 DEF Hashes, Chains
<1> QED
  BY <1>1, <1>2

\* The block at a height of a chain is a chain of that length.
LEMMA BlockAtProperties ==
  ASSUME NEW s \in Seq(Labels), NEW n \in 0..Len(s)
  PROVE  /\ BlockAt(s, n) \in Seq(Labels)
         /\ Len(BlockAt(s, n)) = n
         /\ \A i \in 1..n : BlockAt(s, n)[i] = s[i]
<1>1. \A i \in 1..n : s[i] \in Labels
  BY LenProperties, ElementOfSeq
<1> QED
  BY <1>1, LenProperties, SubSeqProperties DEF BlockAt

\* Blocks up to a height are not touched by what is appended.
LEMMA BlockAtOfAppend ==
  ASSUME NEW s \in Seq(Labels), NEW x \in Labels, NEW n \in 0..Len(s)
  PROVE  BlockAt(Append(s, x), n) = BlockAt(s, n)
<1> DEFINE t == Append(s, x)
<1>1. t \in Seq(Labels) /\ Len(t) = Len(s) + 1 /\ \A i \in 1..Len(s) : t[i] = s[i]
  BY AppendProperties
<1>2. n \in 0..Len(t) /\ n \in Nat /\ \A i \in 1..n : i \in 1..Len(s)
  BY <1>1, LenProperties
<1> HIDE DEF t
<1>3. /\ BlockAt(t, n) \in Seq(Labels) /\ Len(BlockAt(t, n)) = n
      /\ \A i \in 1..n : BlockAt(t, n)[i] = t[i]
  BY <1>1, <1>2, BlockAtProperties
<1>4. /\ BlockAt(s, n) \in Seq(Labels) /\ Len(BlockAt(s, n)) = n
      /\ \A i \in 1..n : BlockAt(s, n)[i] = s[i]
  BY BlockAtProperties
<1>5. \A i \in 1..n : BlockAt(t, n)[i] = BlockAt(s, n)[i]
  BY <1>1, <1>2, <1>3, <1>4
<1>6. BlockAt(t, n) = BlockAt(s, n)
  BY <1>3, <1>4, <1>5, SeqEqual
<1> QED
  BY <1>6 DEF t

\* A block of a block is a block of the chain.
LEMMA BlockAtOfBlockAt ==
  ASSUME NEW s \in Seq(Labels), NEW m \in 0..Len(s), NEW n \in 0..m
  PROVE  BlockAt(BlockAt(s, m), n) = BlockAt(s, n)
<1> DEFINE t == BlockAt(s, m)
<1>1. t \in Seq(Labels) /\ Len(t) = m /\ \A i \in 1..m : t[i] = s[i]
  BY BlockAtProperties
<1>2. n \in 0..Len(t) /\ n \in 0..Len(s) /\ \A i \in 1..n : i \in 1..m
  BY <1>1, LenProperties
<1> HIDE DEF t
<1>3. /\ BlockAt(t, n) \in Seq(Labels) /\ Len(BlockAt(t, n)) = n
      /\ \A i \in 1..n : BlockAt(t, n)[i] = t[i]
  BY <1>1, <1>2, BlockAtProperties
<1>4. /\ BlockAt(s, n) \in Seq(Labels) /\ Len(BlockAt(s, n)) = n
      /\ \A i \in 1..n : BlockAt(s, n)[i] = s[i]
  BY <1>2, BlockAtProperties
<1>5. \A i \in 1..n : BlockAt(t, n)[i] = BlockAt(s, n)[i]
  BY <1>1, <1>2, <1>3, <1>4
<1>6. BlockAt(t, n) = BlockAt(s, n)
  BY <1>3, <1>4, <1>5, SeqEqual
<1> QED
  BY <1>6 DEF t

\* A block is its parent and its own label.
LEMMA BlockAfterParent ==
  ASSUME NEW s \in Seq(Labels), NEW n \in 1..Len(s)
  PROVE  Append(BlockAt(s, n - 1), s[n]) = BlockAt(s, n)
<1>0. n - 1 \in 0..Len(s) /\ n \in 0..Len(s) /\ n \in Nat /\ s[n] \in Labels
  BY LenProperties, ElementOfSeq
<1> DEFINE p == BlockAt(s, n - 1)
<1> DEFINE t == Append(p, s[n])
<1>1. p \in Seq(Labels) /\ Len(p) = n - 1 /\ \A i \in 1..(n - 1) : p[i] = s[i]
  BY <1>0, BlockAtProperties
<1> HIDE DEF p
<1>2. t \in Seq(Labels) /\ Len(t) = n /\ t[n] = s[n]
  BY <1>0, <1>1, AppendProperties
<1>3. \A i \in 1..(n - 1) : t[i] = p[i]
  BY <1>0, <1>1, AppendProperties
<1> HIDE DEF t
<1>4. /\ BlockAt(s, n) \in Seq(Labels) /\ Len(BlockAt(s, n)) = n
      /\ \A i \in 1..n : BlockAt(s, n)[i] = s[i]
  BY <1>0, BlockAtProperties
<1>5. ASSUME NEW i \in 1..n PROVE t[i] = BlockAt(s, n)[i]
  <2>1. CASE i = n
    BY <1>2, <1>4, <2>1
  <2>2. CASE i \in 1..(n - 1)
    BY <1>1, <1>3, <1>4, <2>2
  <2> QED
    BY <1>0, <2>1, <2>2
<1>6. t = BlockAt(s, n)
  BY <1>2, <1>4, <1>5, SeqEqual
<1> QED
  BY <1>6 DEF t, p

-------------------------------------------------------------------------------
(***************************************************************************)
(* The steps.                                                              *)
(***************************************************************************)

\* Numbers below the next block of a shorter stream.
LEMMA NumbersBelow ==
  ASSUME NEW first \in Nat, NEW base \in Nat, NEW old \in Nat, NEW new \in Nat,
         new <= base + 1, new <= old, NEW n \in first..(new - 1)
  PROVE  n \in 0..base /\ n \in first..(old - 1)
OBVIOUS

\* What the type invariant says about numbers and hashes.
LEMMA StreamTypes ==
  ASSUME TypeOK
  PROVE  /\ fork \in Seq(Labels) /\ Len(fork) \in Nat /\ Len(fork) <= MaxBlock
         /\ MaxBlock \in Nat /\ StartBlock \in Nat /\ StartBlock >= 1
         /\ StartBlock <= MaxBlock /\ BlockDelta \in Nat /\ BlockDelta < StartBlock
         /\ Len(fork) >= StartBlock - 1
         /\ lib \in Nat /\ lib >= StartBlock - 1 /\ lib <= Len(fork)
         /\ next \in Nat /\ next >= StartBlock /\ next <= Len(fork) + 1
         /\ switches \in Nat /\ MaxSwitches \in Nat /\ switches <= MaxSwitches
         /\ prev_block_num \in Nat
         /\ prev_block_num # None => prev_block_num \in StartBlock..MaxBlock
         /\ finished \in [num : 0..MaxBlock, ship_hash : Hashes, block_hash : Hashes]
<1>1. fork \in Seq(Labels) /\ Len(fork) <= MaxBlock
  BY HashesAreSequences DEF TypeOK
<1>2. Len(fork) \in Nat
  BY <1>1, LenProperties
<1> QED
  BY <1>1, <1>2, StreamAssumption DEF TypeOK, None

\* The invariant holds initially.
LEMMA StreamInit == Init => StreamInv
<1> SUFFICES ASSUME Init PROVE StreamInv
  OBVIOUS
<1>1. PICK n \in (StartBlock - 1)..MaxBlock : fork \in Chains(n)
  BY DEF Init
<1>2. n \in Nat /\ n <= MaxBlock /\ n >= StartBlock - 1 /\ MaxBlock \in Nat
      /\ StartBlock \in 1..MaxBlock
  BY StreamAssumption
<1>3. fork \in Seq(Labels) /\ Len(fork) = n
  <2>1. fork \in [1..n -> Labels]
    BY <1>1 DEF Chains
  <2>2. fork \in Seq(Labels)
    BY <1>2, <2>1, SeqDef
  <2> QED
    BY <1>2, <2>1, <2>2, LenProperties
<1>4. fork \in Hashes
  BY <1>2, <1>3, HashesAreSequences
<1>5. BlockAt(fork, StartBlock - 1) \in Hashes
  <2>1. StartBlock - 1 \in 0..Len(fork)
    BY <1>2, <1>3
  <2>2. BlockAt(fork, StartBlock - 1) \in Seq(Labels)
        /\ Len(BlockAt(fork, StartBlock - 1)) = StartBlock - 1
    BY <1>3, <2>1, BlockAtProperties
  <2> QED
    BY <1>2, <2>2, HashesAreSequences
<1>6. NoHash \in Hashes
  BY <1>2, EmptySeq, HashesAreSequences DEF NoHash
<1>7. DOMAIN map = {}
  BY DEF Init
<1>8. TypeOK
  <2>1. lib \in (StartBlock - 1)..Len(fork) /\ next \in StartBlock..(Len(fork) + 1)
        /\ Len(fork) >= StartBlock - 1 /\ switches \in 0..MaxSwitches
    BY <1>2, <1>3, StreamAssumption DEF Init
  <2>2. finished \in [num : 0..MaxBlock, ship_hash : Hashes, block_hash : Hashes]
    BY <1>2, <1>6 DEF Init, None
  <2> QED
    BY <1>4, <1>5, <1>7, <2>1, <2>2 DEF Init, TypeOK
<1> QED
  BY <1>7, <1>8 DEF Init, StreamInv, EntriesAreRight, AtStart, HasFinished, BuiltOnNativeParent,
                    ForkBasesAreKept, FailsOnlyAtStart

\* A longer chain has the same blocks below.
LEMMA ProducePreserves ==
  ASSUME StreamInv, ProduceBlock
  PROVE  StreamInv'
<1>0. TypeOK
  BY DEF StreamInv
<1>1. PICK label \in Labels : fork' = Append(fork, label)
  BY DEF ProduceBlock
<1>2. Len(fork) < MaxBlock /\ UNCHANGED <<lib, next, switches, prev_block_num, parent_hash, map,
                                          finished, failed>>
  BY DEF ProduceBlock, blockMap
<1>3. fork' \in Seq(Labels) /\ Len(fork') = Len(fork) + 1
  BY <1>0, StreamTypes, <1>1, AppendProperties
<1>4. \A n \in 0..Len(fork) : BlockAt(fork', n) = BlockAt(fork, n)
  BY <1>0, StreamTypes, <1>1, BlockAtOfAppend
<1>5. fork' \in Hashes
  BY <1>0, StreamTypes, <1>2, <1>3, HashesAreSequences
<1>6. TypeOK'
  BY <1>0, StreamTypes, <1>2, <1>3, <1>5 DEF TypeOK
<1>7. EntriesAreRight' /\ BuiltOnNativeParent' /\ FailsOnlyAtStart' /\ HasFinished' = HasFinished
  BY <1>2 DEF StreamInv, EntriesAreRight, BuiltOnNativeParent, FailsOnlyAtStart, HasFinished
<1>8. ~HasFinished => AtStart'
  <2>1. StartBlock - 1 \in 0..Len(fork)
    BY <1>0, StreamTypes
  <2> QED
    BY <1>2, <1>4, <2>1 DEF StreamInv, AtStart
<1>9. HasFinished => Underway'
  <2>1. next - 1 \in 0..Len(fork)
    BY <1>0, StreamTypes
  <2> QED
    BY <1>2, <1>4, <2>1 DEF StreamInv, Underway
<1>10. ForkBasesAreKept'
  <2>1. \A n \in StartBlock..(next - 1) : n \in 0..Len(fork)
    BY <1>0, StreamTypes
  <2> QED
    BY <1>2, <1>4, <2>1 DEF StreamInv, ForkBasesAreKept, HasFinished
<1> QED
  BY <1>6, <1>7, <1>8, <1>9, <1>10 DEF StreamInv

\* A later LIB only asks for less of the map.
LEMMA AdvancePreserves ==
  ASSUME StreamInv, AdvanceLib
  PROVE  StreamInv'
<1>0. TypeOK
  BY DEF StreamInv
<1>1. lib' \in (lib + 1)..Len(fork)
      /\ UNCHANGED <<fork, next, switches, prev_block_num, parent_hash, map, finished, failed>>
  BY DEF AdvanceLib, blockMap
<1>2. lib' \in (StartBlock - 1)..Len(fork) /\ lib' >= lib /\ lib' \in Nat
  BY <1>0, StreamTypes, <1>1
<1>3. TypeOK'
  BY <1>0, StreamTypes, <1>1, <1>2 DEF TypeOK
<1>4. /\ EntriesAreRight' /\ BuiltOnNativeParent' /\ FailsOnlyAtStart'
      /\ HasFinished' = HasFinished /\ AtStart' = AtStart /\ Underway' = Underway
  BY <1>1 DEF StreamInv, EntriesAreRight, BuiltOnNativeParent, FailsOnlyAtStart, HasFinished,
              AtStart, Underway
<1>5. ForkBasesAreKept'
  <2>1. \A n \in StartBlock..(next - 1) : n >= lib' => n >= lib
    BY <1>0, StreamTypes, <1>2
  <2> QED
    BY <1>1, <2>1 DEF StreamInv, ForkBasesAreKept, HasFinished
<1> QED
  BY <1>3, <1>4, <1>5 DEF StreamInv

\* Another fork has the same blocks up to its base, which is not below the LIB: the
\* block the stream goes back to follows one that is in the map.
LEMMA SwitchPreserves ==
  ASSUME StreamInv, SwitchFork
  PROVE  StreamInv'
<1>0. TypeOK
  BY DEF StreamInv
<1>1. PICK base \in lib..(Len(fork) - 1) :
        /\ \E label \in Labels \ {fork[base + 1]} : fork' = Append(BlockAt(fork, base), label)
        /\ next' = IF next > base + 1 THEN base + 1 ELSE next
  BY DEF SwitchFork
<1>2. PICK label \in Labels : fork' = Append(BlockAt(fork, base), label)
  BY <1>1
<1>3. switches < MaxSwitches /\ switches' = switches + 1
      /\ UNCHANGED <<lib, prev_block_num, parent_hash, map, finished, failed>>
  BY DEF SwitchFork, blockMap
<1>4. base \in Nat /\ base >= StartBlock - 1 /\ base >= lib /\ base < Len(fork)
      /\ base \in 0..Len(fork)
  BY <1>0, StreamTypes
<1>5. BlockAt(fork, base) \in Seq(Labels) /\ Len(BlockAt(fork, base)) = base
  BY <1>0, StreamTypes, <1>4, BlockAtProperties
<1>6. fork' \in Seq(Labels) /\ Len(fork') = base + 1
  BY <1>2, <1>5, AppendProperties
<1>7. ASSUME NEW n \in 0..base
      PROVE  BlockAt(fork', n) = BlockAt(fork, n)
  <2>1. BlockAt(fork', n) = BlockAt(BlockAt(fork, base), n)
    BY <1>2, <1>5, BlockAtOfAppend
  <2>2. BlockAt(BlockAt(fork, base), n) = BlockAt(fork, n)
    BY <1>0, StreamTypes, <1>4, BlockAtOfBlockAt
  <2> QED
    BY <2>1, <2>2
<1>8. fork' \in Hashes
  BY <1>0, StreamTypes, <1>4, <1>6, HashesAreSequences
<1>9. next' \in Nat /\ next' >= StartBlock /\ next' <= base + 1 /\ next' <= next
  <2>1. next \in Nat /\ next >= StartBlock /\ StartBlock \in Nat
    BY <1>0, StreamTypes
  <2>2. next' = IF next > base + 1 THEN base + 1 ELSE next
    BY <1>1
  <2> QED
    BY <1>4, <2>1, <2>2
<1>10. TypeOK'
  BY <1>0, StreamTypes, <1>3, <1>4, <1>6, <1>8, <1>9 DEF TypeOK
<1>11. EntriesAreRight' /\ BuiltOnNativeParent' /\ HasFinished' = HasFinished
  BY <1>3 DEF StreamInv, EntriesAreRight, BuiltOnNativeParent, HasFinished
<1>12. FailsOnlyAtStart'
  BY <1>0, StreamTypes, <1>3, <1>9 DEF StreamInv, FailsOnlyAtStart
<1>13. ~HasFinished => AtStart'
  <2>1. StartBlock - 1 \in 0..base
    BY <1>0, StreamTypes, <1>4
  <2>2. AtStart => next' = StartBlock
    BY <1>0, StreamTypes, <1>9 DEF AtStart
  <2> QED
    BY <1>3, <1>7, <2>1, <2>2 DEF StreamInv, AtStart
<1>14. ASSUME HasFinished PROVE Underway'
  <2>0. Underway /\ ForkBasesAreKept /\ prev_block_num \in Nat
    BY <1>0, StreamTypes, <1>14 DEF StreamInv
  <2>1. CASE next > base + 1
    <3>1. next' = base + 1 /\ next' <= prev_block_num
      BY <1>0, StreamTypes, <1>1, <1>4, <2>0, <2>1 DEF Underway
    <3>2. base >= StartBlock => BlockAt(fork, base) \in DOMAIN map
      BY <1>0, StreamTypes, <1>4, <1>14, <2>0, <2>1 DEF ForkBasesAreKept
    <3>3. BlockAt(fork', base) = BlockAt(fork, base)
      BY <1>4, <1>7
    <3>4. next' # prev_block_num + 1
      BY <1>4, <2>0, <3>1
    <3>5. next' - 1 = base /\ (next' > StartBlock => base >= StartBlock)
          /\ next' <= prev_block_num + 1
      BY <1>0, StreamTypes, <1>4, <2>0, <3>1
    <3> QED
      BY <1>3, <3>1, <3>2, <3>3, <3>4, <3>5 DEF Underway
  <2>2. CASE ~(next > base + 1)
    <3>1. next' = next /\ next - 1 \in 0..base
      BY <1>0, StreamTypes, <1>1, <1>4, <2>2
    <3>2. BlockAt(fork', next - 1) = BlockAt(fork, next - 1)
      BY <1>7, <3>1
    <3> QED
      BY <1>3, <2>0, <3>1, <3>2 DEF Underway
  <2> QED
    BY <2>1, <2>2
<1>15. ForkBasesAreKept'
  <2>1. ASSUME NEW n \in StartBlock..(next' - 1)
        PROVE  n \in 0..base /\ n \in StartBlock..(next - 1)
    <3>1. /\ StartBlock \in Nat /\ next \in Nat /\ base \in Nat
          /\ next' \in Nat /\ next' <= base + 1 /\ next' <= next
      BY <1>0, <1>4, <1>9, StreamTypes
    <3> QED
      BY <3>1, NumbersBelow
  <2> QED
    BY <1>3, <1>7, <2>1 DEF StreamInv, ForkBasesAreKept, HasFinished
<1> QED
  BY <1>10, <1>11, <1>12, <1>13, <1>14, <1>15 DEF StreamInv

\* A parent that is found is the native parent.
LEMMA ParentIsNative ==
  ASSUME StreamInv, next <= Len(fork)
  PROVE  /\ \A parent \in ParentHash(Streamed) : parent = BlockAt(fork, next - 1)
         /\ ParentHash(Streamed) = {} => next = StartBlock /\ HasFinished
<1>0. TypeOK
  BY DEF StreamInv
<1>1. Streamed.num = next /\ Streamed.prev_block_hash = BlockAt(fork, next - 1)
  BY DEF Streamed
<1>2. CASE prev_block_num = None \/ next = prev_block_num + 1
  <2>1. ParentHash(Streamed) = {parent_hash}
    BY <1>1, <1>2 DEF ParentHash
  <2>2. parent_hash = BlockAt(fork, next - 1)
    BY <1>2 DEF StreamInv, HasFinished, AtStart, Underway
  <2> QED
    BY <2>1, <2>2
<1>3. CASE ~(prev_block_num = None \/ next = prev_block_num + 1)
  <2>1. ParentHash(Streamed) =
          {map[h].hash : h \in {h \in DOMAIN map : h = BlockAt(fork, next - 1)}}
    BY <1>1, <1>3 DEF ParentHash
  <2>2. \A h \in DOMAIN map : map[h].hash = h
    BY DEF StreamInv, EntriesAreRight
  <2>3. next <= prev_block_num /\ HasFinished /\ Underway
    BY <1>0, StreamTypes, <1>3 DEF StreamInv, HasFinished, Underway
  <2>4. next > StartBlock => BlockAt(fork, next - 1) \in DOMAIN map
    BY <2>3 DEF Underway
  <2>5. next > StartBlock \/ next = StartBlock
    BY <1>0, StreamTypes
  <2> QED
    BY <2>1, <2>2, <2>3, <2>4, <2>5
<1> QED
  BY <1>2, <1>3

\* A block is processed: it is built on its native parent, remembered, and what is
\* dropped from the map lies below the LIB.
LEMMA ProcessPreserves ==
  ASSUME StreamInv, ProcessBlock
  PROVE  StreamInv'
<1>0. TypeOK
  BY DEF StreamInv
<1>1. ~failed /\ next <= Len(fork) /\ next' = next + 1
      /\ UNCHANGED <<fork, lib, switches, failed>>
  BY DEF ProcessBlock
<1> DEFINE head == BlockAt(fork, next)
<1>2. /\ fork \in Seq(Labels) /\ Len(fork) \in Nat /\ Len(fork) <= MaxBlock
      /\ MaxBlock \in Nat /\ StartBlock \in Nat /\ StartBlock >= 1 /\ StartBlock <= MaxBlock
      /\ BlockDelta \in Nat /\ BlockDelta < StartBlock
      /\ next \in Nat /\ next >= StartBlock /\ lib \in Nat /\ lib <= Len(fork)
      /\ prev_block_num \in Nat
  BY <1>0, StreamTypes
<1>3. next \in 1..Len(fork) /\ next \in 0..Len(fork)
  BY <1>1, <1>2
<1>4. head \in Seq(Labels) /\ Len(head) = next
  BY <1>2, <1>3, BlockAtProperties
<1>5. head \in Hashes
  BY <1>1, <1>2, <1>4, HashesAreSequences
<1>6. PICK parent \in ParentHash(Streamed) :
        finished' = [num |-> Streamed.num - BlockDelta, ship_hash |-> Streamed.ship_hash,
                     block_hash |-> Append(parent, fork[next])]
  BY DEF ProcessBlock
<1>7. parent = BlockAt(fork, next - 1)
  BY <1>1, <1>6, ParentIsNative
<1>8. finished' = [num |-> next - BlockDelta, ship_hash |-> head, block_hash |-> head]
  BY <1>2, <1>3, <1>6, <1>7, BlockAfterParent DEF Streamed
<1>9. Remember(finished', lib)
  BY DEF ProcessBlock, Streamed
<1> DEFINE entry == [num |-> next, hash |-> head]
<1> DEFINE added == [h \in DOMAIN map \cup {head} |-> IF h = head THEN entry ELSE map[h]]
<1>10. WithDelta(finished'.num) = next
  BY <1>2, <1>8 DEF WithDelta
<1>11. prev_block_num' = next /\ parent_hash' = head /\ map' = Retained(added, lib)
  BY <1>8, <1>9, <1>10 DEF Remember
<1>12. DOMAIN added = DOMAIN map \cup {head} /\ \A h \in DOMAIN added :
         added[h].num = Len(h) /\ added[h].hash = h
  BY <1>4 DEF StreamInv, EntriesAreRight
<1>13. \A h \in DOMAIN added : added[h] \in [num : StartBlock..MaxBlock, hash : Hashes]
  BY <1>0, <1>1, <1>2, <1>5 DEF TypeOK
<1> HIDE DEF head, added
<1>14. DOMAIN map' = {h \in DOMAIN added : added[h].num >= lib}
       /\ \A h \in DOMAIN map' : map'[h] = added[h]
  BY <1>11 DEF Retained, Restrict
<1>15. DOMAIN map' \subseteq DOMAIN added
  BY <1>14
<1>16. EntriesAreRight'
  BY <1>12, <1>14, <1>15 DEF EntriesAreRight
<1>17. HasFinished'
  BY <1>2, <1>11 DEF HasFinished, None
<1>18. Underway'
  <2>1. next' = prev_block_num' + 1 /\ next' - 1 = next /\ ~(next' <= prev_block_num')
    BY <1>1, <1>2, <1>11
  <2> QED
    BY <1>1, <1>2, <1>11, <2>1 DEF Underway, head
<1>19. BuiltOnNativeParent'
  BY <1>8 DEF BuiltOnNativeParent
<1>20. ForkBasesAreKept'
  <2>1. ASSUME NEW n \in StartBlock..next, n >= lib
        PROVE  BlockAt(fork, n) \in DOMAIN map'
    <3>1. n \in 0..Len(fork) /\ n \in Nat
      BY <1>1, <1>2, <2>1
    <3>2. Len(BlockAt(fork, n)) = n
      BY <1>2, <3>1, BlockAtProperties
    <3>3. BlockAt(fork, n) \in DOMAIN added
      <4>1. CASE n = next
        BY <1>12, <4>1 DEF head
      <4>2. CASE n # next
        <5>1. n \in StartBlock..(next - 1)
          BY <1>2, <2>1, <4>2
        <5>2. HasFinished
          BY <1>2, <5>1 DEF StreamInv, AtStart
        <5> QED
          BY <1>12, <2>1, <5>1, <5>2 DEF StreamInv, ForkBasesAreKept
      <4> QED
        BY <4>1, <4>2
    <3> QED
      BY <1>12, <1>14, <2>1, <3>2, <3>3
  <2>2. next' - 1 = next
    BY <1>1, <1>2
  <2> QED
    BY <1>1, <2>1, <2>2 DEF ForkBasesAreKept
<1>21. FailsOnlyAtStart'
  BY <1>1 DEF FailsOnlyAtStart
<1>22. TypeOK'
  <2>1. next' \in StartBlock..(Len(fork) + 1) /\ prev_block_num' \in StartBlock..MaxBlock
    BY <1>1, <1>2, <1>11
  <2>2. DOMAIN map' \subseteq Hashes
    BY <1>0, <1>5, <1>12, <1>15 DEF TypeOK
  <2>3. \A h \in DOMAIN map' : map'[h] \in [num : StartBlock..MaxBlock, hash : Hashes]
    BY <1>13, <1>14, <1>15
  <2>4. next - BlockDelta \in 0..MaxBlock
    BY <1>1, <1>2
  <2>5. finished' \in [num : 0..MaxBlock, ship_hash : Hashes, block_hash : Hashes]
    BY <1>5, <1>8, <2>4
  <2> QED
    BY <1>0, <1>1, <1>5, <1>11, <2>1, <2>2, <2>3, <2>5 DEF TypeOK
<1> QED
  BY <1>16, <1>17, <1>18, <1>19, <1>20, <1>21, <1>22 DEF StreamInv

\* Without a parent the task panics, which can only be at the first block.
LEMMA MissingPreserves ==
  ASSUME StreamInv, ParentIsMissing
  PROVE  StreamInv'
<1>1. next <= Len(fork) /\ ParentHash(Streamed) = {} /\ failed' = TRUE
      /\ UNCHANGED <<fork, lib, next, switches, prev_block_num, parent_hash, map, finished>>
  BY DEF ParentIsMissing, node, blockMap
<1>2. next = StartBlock /\ HasFinished
  BY <1>1, ParentIsNative
<1>3. TypeOK'
  BY <1>1 DEF StreamInv, TypeOK
<1>4. EntriesAreRight' /\ BuiltOnNativeParent' /\ ForkBasesAreKept' /\ FailsOnlyAtStart'
      /\ HasFinished' /\ Underway'
  BY <1>1, <1>2 DEF StreamInv, EntriesAreRight, BuiltOnNativeParent, ForkBasesAreKept,
                    FailsOnlyAtStart, HasFinished, Underway
<1> QED
  BY <1>3, <1>4 DEF StreamInv

-------------------------------------------------------------------------------
(***************************************************************************)
(* The theorems.                                                           *)
(***************************************************************************)

\* The invariant holds in every reachable state.
THEOREM StreamInvariant == Spec => []StreamInv
<1>1. ASSUME StreamInv, [Next]_vars
      PROVE  StreamInv'
  <2>1. CASE ProduceBlock
    BY <1>1, <2>1, ProducePreserves
  <2>2. CASE AdvanceLib
    BY <1>1, <2>2, AdvancePreserves
  <2>3. CASE SwitchFork
    BY <1>1, <2>3, SwitchPreserves
  <2>4. CASE ProcessBlock
    BY <1>1, <2>4, ProcessPreserves
  <2>5. CASE ParentIsMissing
    BY <1>1, <2>5, MissingPreserves
  <2>6. CASE UNCHANGED vars
    <3>1. TypeOK'
      BY <1>1, <2>6 DEF StreamInv, TypeOK, vars, node, blockMap
    <3>2. EntriesAreRight' /\ HasFinished' = HasFinished /\ AtStart' = AtStart
          /\ Underway' = Underway
      BY <1>1, <2>6 DEF StreamInv, EntriesAreRight, HasFinished, AtStart, Underway, vars, node,
                        blockMap
    <3>3. BuiltOnNativeParent' /\ ForkBasesAreKept' /\ FailsOnlyAtStart'
      BY <1>1, <2>6 DEF StreamInv, BuiltOnNativeParent, ForkBasesAreKept, FailsOnlyAtStart,
                        HasFinished, vars, node, blockMap
    <3> QED
      BY <1>1, <3>1, <3>2, <3>3 DEF StreamInv
  <2> QED
    BY <1>1, <2>1, <2>2, <2>3, <2>4, <2>5, <2>6 DEF Next
<1> QED
  BY <1>1, StreamInit, PTL DEF Spec

\* The types of the variables, BlockMap's included.
THEOREM StreamTypesHold == Spec => []TypeOK
<1>1. StreamInv => TypeOK
  BY DEF StreamInv
<1> QED
  BY <1>1, StreamInvariant, PTL

\* BlockMap::parent_hash: through any forks, each block is built on the EVM block
\* of its native parent.
THEOREM BuiltOnParent == Spec => []BuiltOnNativeParent
<1>1. StreamInv => BuiltOnNativeParent
  BY DEF StreamInv
<1> QED
  BY <1>1, StreamInvariant, PTL

\* BlockMap::next: pruning never drops a block a fork may start from.
THEOREM BasesAreKept == Spec => []ForkBasesAreKept
<1>1. StreamInv => ForkBasesAreKept
  BY DEF StreamInv
<1> QED
  BY <1>1, StreamInvariant, PTL

\* expect("Block parent hash can be found") panics for no block but the first.
THEOREM PanicsOnlyAtStart == Spec => []FailsOnlyAtStart
<1>1. StreamInv => FailsOnlyAtStart
  BY DEF StreamInv
<1> QED
  BY <1>1, StreamInvariant, PTL
=============================================================================

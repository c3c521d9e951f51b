----------------------------- MODULE PipelineProofs -----------------------------
(***************************************************************************)
(* Theorems about TranslatorPipeline, for every value of its constants:    *)
(* any range of blocks, any size of the channels, of the node's window and *)
(* of the ack threshold, any failures.                                     *)
(***************************************************************************)
EXTENDS TranslatorPipeline, SequenceTheorems, FiniteSetTheorems, TLAPS

-------------------------------------------------------------------------------
(***************************************************************************)
(* The inductive invariant.                                                *)
(***************************************************************************)

\* What a task holds, and the messages on their way to the deserializer, in order.
Held(task) == IF task.at = "send" THEN 1 ELSE 0
InHand == IF reader.at = "send" THEN <<reader.msg>> ELSE << >>
Pending == (raw.items \o InHand) \o ws.items
Waiting == Len(raw.items) + Held(reader) + Len(ws.items)

\* The node answers one request after the other, so that it never counts the ABI or
\* the status, and everything counted and not acknowledged is on its way, or with
\* the deserializer.
KindsIn(kinds) ==
  /\ \A i \in 1..Len(raw.items) : raw.items[i].kind \in kinds
  /\ reader.at = "send" => reader.msg.kind \in kinds
  /\ \A i \in 1..Len(ws.items) : ws.items[i].kind \in kinds

PhaseInv ==
  /\ ship.phase \in {"abi", "status"} => Waiting = 0
  /\ ship.phase = "waiting" => Waiting <= 1
  /\ ship.phase # "blocks" => KindsIn({"abi", "status"}) /\ ship.inFlight = 0
                              /\ deserializer.unackd = 0
  /\ ship.phase = "blocks" => /\ KindsIn({"block", "empty"})
                              /\ Waiting + deserializer.unackd <= ship.inFlight
  /\ deserializer.at = "abi" => ship.phase \in {"abi", "waiting"}

\* A channel end is gone only when the task that holds it has ended, and reading the
\* websocket fails only once.
EndsInv ==
  /\ raw.tx \/ Ended(reader)
  /\ ws.failed => Ended(reader)
  /\ raw.rx \/ Ended(deserializer)
  /\ blocks.tx \/ Ended(deserializer)
  /\ blocks.rx \/ Ended(processor)
  /\ final.tx \/ Ended(processor)
  /\ final.rx \/ Ended(finalizer)
  /\ out.tx \/ Ended(finalizer)
  /\ out.rx \/ Ended(client)

\* ship_reader is told to stop only once the client has ended or the stop block is
\* through.
StopInv ==
  /\ stop > 0 => Ended(client) \/ finalizer.at \in {"drain", "ok", "err"}
  /\ main # "client" => Ended(client)
  /\ main = "ok" => client.at = "ok" /\ TasksEnded /\ TasksSucceeded

\* The number of the last block at each stage, from the client upwards.
OutHi == client.last + Len(out.items)
FinHi == OutHi + Held(finalizer)
FinalHi == FinHi + Len(final.items)
ProcHi == FinalHi + Held(processor)
BlocksHi == ProcHi + Len(blocks.items)
DeserHi == BlocksHi + Held(deserializer)

\* A sequence of blocks that goes on after a number.
Numbers(s, base) == \A k \in 1..Len(s) : s[k] = base + k

\* A sequence of messages whose blocks are lo + 1, ..., hi, in order.
Run(q, lo, hi) ==
  /\ \A i \in 1..Len(q) : q[i].kind = "block" => q[i].num \in (lo + 1)..hi
  /\ \A i, j \in 1..Len(q) :
       i < j /\ q[i].kind = "block" /\ q[j].kind = "block" => q[i].num < q[j].num
  /\ \A n \in (lo + 1)..hi : \E i \in 1..Len(q) : q[i].kind = "block" /\ q[i].num = n

\* Blocks still go all the way to the client.
Flowing == client.at = "recv" /\ finalizer.at \in {"recv", "send"}

\* The blocks after a number are those that were left on a websocket whose reading
\* failed.
LeftFrom(num) == ws.failed /\ num <= ship.next - 1 /\ Run(ws.items, num, ship.next - 1)

\* Then no task has left anything behind.
NothingDropped ==
  /\ reader.at # "err"
  /\ Ended(processor) => Ended(deserializer) /\ blocks.items = << >>
  /\ deserializer.at = "ok" => (~ws.open /\ DeserHi = ship.next - 1) \/ LeftFrom(DeserHi)
  /\ ~Ended(deserializer) /\ Ended(reader) => (~ws.open /\ ws.items = << >>) \/ ws.failed

FlowInv ==
  /\ finalizer.at = "send" => finalizer.block = FinHi
  /\ Numbers(final.items, FinHi)
  /\ processor.at = "send" => processor.block = ProcHi
  /\ Numbers(blocks.items, ProcHi)
  /\ deserializer.at = "send" => deserializer.block = DeserHi
  /\ DeserHi <= ship.next - 1
  /\ ~Ended(deserializer) => Run(Pending, DeserHi, ship.next - 1)

DeliveryInv ==
  /\ ship.next <= StopBlock + 1
  /\ client.at = "recv" => Numbers(out.items, client.last) /\ OutHi <= ship.next - 1
  /\ Flowing => NothingDropped /\ FlowInv
  /\ finalizer.at \in {"stop", "drain"} /\ client.at = "recv" => OutHi = StopBlock

\* The final processor has ended well: nothing is missing, and nothing more comes,
\* but for what reading the websocket failed to take.
SettledInv ==
  /\ client.at = "ok" => Ended(finalizer)
  /\ finalizer.at = "ok" /\ client.at \in {"recv", "ok"} /\ TasksSucceeded =>
       \/ OutHi = ship.next - 1 /\ (~ws.open \/ ship.next > StopBlock)
       \/ LeftFrom(OutHi)

PipelineInv ==
  TypeOK /\ PhaseInv /\ EndsInv /\ StopInv /\ DeliveryInv /\ SettledInv

-------------------------------------------------------------------------------
(***************************************************************************)
(* Channels.                                                               *)
(***************************************************************************)

\* What putting an item does to a channel with room for it.
LEMMA PutChannel ==
  ASSUME NEW S, NEW cap \in Nat, NEW ch \in Channel(S, cap), NEW x \in S
  PROVE  /\ HasRoom(ch, cap) => Put(ch, x) \in Channel(S, cap) /\ ch.rx
         /\ Put(ch, x).items = Append(ch.items, x)
         /\ Len(Put(ch, x).items) = Len(ch.items) + 1
         /\ Put(ch, x).tx = ch.tx /\ Put(ch, x).rx = ch.rx
BY AppendProperties DEF Put, Channel, HasRoom

\* What taking an item does to a channel that has one.
LEMMA TakenChannel ==
  ASSUME NEW S, NEW cap \in Nat, NEW ch \in Channel(S, cap), Ready(ch)
  PROVE  /\ Head(ch.items) \in S
         /\ Taken(ch) \in Channel(S, cap)
         /\ Taken(ch).items = Tail(ch.items)
         /\ Len(Taken(ch).items) = Len(ch.items) - 1
         /\ Taken(ch).tx = ch.tx /\ Taken(ch).rx = ch.rx
<1>1. ch \in [items : Seq(S), tx : BOOLEAN, rx : BOOLEAN] /\ Len(ch.items) <= cap
  BY DEF Channel
<1>2. /\ Head(ch.items) \in S /\ Tail(ch.items) \in Seq(S)
      /\ Len(Tail(ch.items)) = Len(ch.items) - 1 /\ Len(ch.items) \in Nat
  BY <1>1, HeadTailProperties, LenProperties DEF Ready
<1> QED
  BY <1>1, <1>2 DEF Taken, Channel

\* What a dropped end does to a channel.
LEMMA DroppedChannel ==
  ASSUME NEW S, NEW cap \in Nat, NEW ch \in Channel(S, cap)
  PROVE  /\ DropTx(ch) \in Channel(S, cap)
         /\ DropTx(ch).items = ch.items /\ ~DropTx(ch).tx /\ DropTx(ch).rx = ch.rx
         /\ DropRx(ch) \in Channel(S, cap)
         /\ DropRx(ch).items = << >> /\ ~DropRx(ch).rx /\ DropRx(ch).tx = ch.tx
         /\ Len(DropRx(ch).items) = 0
<1>1. ch \in [items : Seq(S), tx : BOOLEAN, rx : BOOLEAN] /\ Len(ch.items) <= cap
  BY DEF Channel
<1>2. << >> \in Seq(S) /\ Len(<< >>) = 0
  BY EmptySeq
<1>3. DropTx(ch) \in Channel(S, cap) /\ DropTx(ch).items = ch.items /\ ~DropTx(ch).tx
      /\ DropTx(ch).rx = ch.rx
  BY <1>1 DEF DropTx, Channel
<1>4. DropRx(ch) \in [items : Seq(S), tx : BOOLEAN, rx : BOOLEAN] /\ DropRx(ch).items = << >>
      /\ ~DropRx(ch).rx /\ DropRx(ch).tx = ch.tx
  BY <1>1, <1>2 DEF DropRx
<1> QED
  BY <1>2, <1>3, <1>4 DEF Channel

\* The items of a channel.
LEMMA ChannelFields ==
  ASSUME NEW S, NEW cap \in Nat, NEW ch \in Channel(S, cap)
  PROVE  /\ ch.items \in Seq(S) /\ Len(ch.items) \in Nat
         /\ ch.tx \in BOOLEAN /\ ch.rx \in BOOLEAN
BY LenProperties DEF Channel

\* Sizes are numbers.
LEMMA Capacities ==
  RawCap \in Nat /\ BlockCap \in Nat /\ FinalCap \in Nat /\ OutCap \in Nat
BY PipelineAssumption

-------------------------------------------------------------------------------
(***************************************************************************)
(* Type correctness.                                                       *)
(***************************************************************************)
\* The placeholders have the types of what they stand for.
LEMMA NoneIsInt == None \in Int /\ NoMessage \in Messages
BY PipelineAssumption DEF None, NoMessage, Message, Messages

\* Types at the start.
LEMMA TypeInit == Init => TypeOK
<1> SUFFICES ASSUME Init PROVE TypeOK
  OBVIOUS
<1>1. \A S : \A cap \in Nat : NewChannel \in Channel(S, cap)
  BY EmptySeq DEF NewChannel, Channel
<1>2. ws \in [items : Seq(Messages), open : BOOLEAN, failed : BOOLEAN]
  BY EmptySeq DEF Init
<1>3. ship \in Ships
  BY PipelineAssumption DEF Init, Ships
<1>4. reader \in Readers /\ deserializer \in Deserializers /\ processor \in Processors
      /\ finalizer \in Finalizers /\ client \in Clients
  BY NoneIsInt DEF Init, Readers, Deserializers, Processors, Finalizers, Clients
<1> QED
  BY <1>1, <1>2, <1>3, <1>4, Capacities DEF Init, TypeOK

\* The node.
LEMMA TypeShip ==
  ASSUME TypeOK, Ship \/ ShipEmptyResult \/ ShipCloses
  PROVE  TypeOK'
<1>1. ship \in Ships /\ ws \in [items : Seq(Messages), open : BOOLEAN, failed : BOOLEAN] /\ ship.next \in Nat
  BY DEF TypeOK, Ships
<1>2. /\ Message("abi", None) \in Messages
      /\ Message("status", None) \in Messages
      /\ Message("empty", None) \in Messages
      /\ Message("block", ship.next) \in Messages
  BY <1>1, NoneIsInt DEF Message, Messages
<1>3. ASSUME NEW m \in Messages
      PROVE  [ws EXCEPT !.items = Append(@, m)] \in [items : Seq(Messages), open : BOOLEAN, failed : BOOLEAN]
  BY <1>1, AppendProperties
<1>4. [ws EXCEPT !.open = FALSE] \in [items : Seq(Messages), open : BOOLEAN, failed : BOOLEAN]
  BY <1>1
<1>5. /\ [ship EXCEPT !.phase = "waiting"] \in Ships
      /\ [ship EXCEPT !.next = @ + 1, !.inFlight = @ + 1] \in Ships
      /\ [ship EXCEPT !.empty = @ + 1, !.inFlight = @ + 1] \in Ships
  <2>1. ship \in [phase : {"abi", "waiting", "status", "blocks"}, faults : FaultSets,
                  begin : Nat, next : Nat, inFlight : Int, empty : Nat]
    BY <1>1 DEF Ships
  <2>2. [ship EXCEPT !.phase = "waiting"] \in Ships
    BY <2>1 DEF Ships
  <2>3. ASSUME NEW n \in Nat, NEW m \in Int
        PROVE  /\ [ship EXCEPT !.next = n, !.inFlight = m] \in Ships
               /\ [ship EXCEPT !.empty = n, !.inFlight = m] \in Ships
    BY <2>1 DEF Ships
  <2>4. ship.next + 1 \in Nat /\ ship.empty + 1 \in Nat /\ ship.inFlight + 1 \in Int
    BY <2>1
  <2> QED
    BY <2>2, <2>3, <2>4, Zenon
<1>6. ws' \in [items : Seq(Messages), open : BOOLEAN, failed : BOOLEAN] /\ ship' \in Ships
  BY <1>1, <1>2, <1>3, <1>4, <1>5
  DEF Ship, ShipAbi, ShipStatus, ShipBlock, ShipEmptyResult, ShipCloses, ShipSends
<1>7. UNCHANGED <<channels, tasks, client, main>>
  BY DEF Ship, ShipAbi, ShipStatus, ShipBlock, ShipEmptyResult, ShipCloses
<1> QED
  BY <1>6, <1>7 DEF TypeOK, channels, tasks

\* ship_reader keeps the types.
LEMMA TypeReader ==
  ASSUME TypeOK, Reader
  PROVE  TypeOK'
<1> USE DEF channels, tasks
<1>0. /\ ws \in [items : Seq(Messages), open : BOOLEAN, failed : BOOLEAN] /\ reader \in Readers
      /\ raw \in Channel(Messages, RawCap)
  BY DEF TypeOK
<1>1. CASE ReaderReceives
  <2>1. Head(ws.items) \in Messages /\ Tail(ws.items) \in Seq(Messages)
    BY <1>0, <1>1, HeadTailProperties DEF ReaderReceives
  <2>2. ws' \in [items : Seq(Messages), open : BOOLEAN, failed : BOOLEAN] /\ reader' \in Readers
    BY <1>0, <1>1, <2>1 DEF ReaderReceives, Readers
  <2> QED
    BY <1>1, <2>2 DEF ReaderReceives, TypeOK
<1>2. CASE ReaderSends
  <2>1. reader.msg \in Messages /\ reader' \in Readers
    BY <1>0, <1>2, NoneIsInt DEF ReaderSends, Readers
  <2> QED
    BY <1>2, <2>1, PutChannel, Capacities DEF ReaderSends, TypeOK
<1>3. CASE ReaderStops
  <2>1. ws' \in [items : Seq(Messages), open : BOOLEAN, failed : BOOLEAN] /\ reader' \in Readers
    BY <1>0, <1>3, NoneIsInt, EmptySeq DEF ReaderStops, ReaderEnds, Readers
  <2> QED
    BY <1>3, <2>1, DroppedChannel, Capacities DEF ReaderStops, ReaderEnds, TypeOK
<1> QED
  BY <1>1, <1>2, <1>3 DEF Reader

\* raw_deserializer keeps the types.
LEMMA TypeDeserializer ==
  ASSUME TypeOK, Deserializer
  PROVE  TypeOK'
<1> USE DEF channels, tasks
<1>0. ship \in Ships /\ deserializer \in Deserializers /\ raw \in Channel(Messages, RawCap)
  BY DEF TypeOK
<1>r. \A phase \in {"status", "blocks"} : Requested(phase) \in Ships
  BY <1>0 DEF Requested, Ships
<1>1. CASE DeserializeAbi
  <2>1. deserializer' \in Deserializers
    BY <1>0, <1>1 DEF DeserializeAbi, Deserializers
  <2> QED
    BY <1>1, <1>r, <2>1, TakenChannel, Capacities DEF DeserializeAbi, TypeOK
<1>2. CASE DeserializeStatus
  BY <1>2, <1>r, TakenChannel, Capacities DEF DeserializeStatus, TypeOK
<1>3. CASE DeserializeBlock
  <2>1. Head(raw.items) \in Messages
    BY <1>0, <1>3, TakenChannel, Capacities DEF DeserializeBlock
  <2>2. deserializer' \in Deserializers
    BY <1>0, <1>3, <2>1 DEF DeserializeBlock, Deserializers, Messages
  <2> QED
    BY <1>3, <2>2, TakenChannel, Capacities DEF DeserializeBlock, TypeOK
<1>4. CASE DeserializeEmpty
  <2>1. deserializer' \in Deserializers
    BY <1>0, <1>4 DEF DeserializeEmpty, Deserializers
  <2> QED
    BY <1>4, <2>1, TakenChannel, Capacities DEF DeserializeEmpty, TypeOK
<1>5. CASE DeserializerSends
  <2>1. deserializer' \in Deserializers /\ deserializer.block \in Int
    BY <1>0, <1>5, NoneIsInt DEF DeserializerSends, Deserializers
  <2> QED
    BY <1>5, <2>1, PutChannel, Capacities DEF DeserializerSends, TypeOK
<1>6. CASE DeserializerAcks
  <2>1. deserializer' \in Deserializers /\ deserializer.unackd \in Nat
    BY <1>0, <1>6 DEF DeserializerAcks, Deserializers
  <2>2. [ship EXCEPT !.inFlight = @ - deserializer.unackd] \in Ships
    BY <1>0, <2>1 DEF Ships
  <2> QED
    BY <1>0, <1>6, <2>1, <2>2 DEF DeserializerAcks, TypeOK
<1>7. CASE DeserializerStops
  <2>1. PICK result \in {"ok", "err"} : DeserializerEnds(result)
    BY <1>7 DEF DeserializerStops
  <2>2. deserializer' \in Deserializers
    BY <2>1, NoneIsInt DEF DeserializerEnds, Deserializers
  <2> QED
    BY <2>1, <2>2, DroppedChannel, Capacities DEF DeserializerEnds, TypeOK
<1> QED
  BY <1>1, <1>2, <1>3, <1>4, <1>5, <1>6, <1>7 DEF Deserializer

\* evm_block_processor keeps the types.
LEMMA TypeProcessor ==
  ASSUME TypeOK, Processor
  PROVE  TypeOK'
<1> USE DEF channels, tasks
<1>0. processor \in Processors /\ processor.block \in Int /\ blocks \in Channel(Int, BlockCap)
  BY DEF TypeOK, Processors
<1>1. CASE ProcessorReceives
  <2>1. processor' \in Processors
    BY <1>0, <1>1, TakenChannel, Capacities DEF ProcessorReceives, Processors
  <2> QED
    BY <1>1, <2>1, TakenChannel, Capacities DEF ProcessorReceives, TypeOK
<1>2. CASE ProcessorSends
  <2>1. processor' \in Processors
    BY <1>2, NoneIsInt DEF ProcessorSends, Processors
  <2> QED
    BY <1>0, <1>2, <2>1, PutChannel, Capacities DEF ProcessorSends, TypeOK
<1>3. CASE ProcessorStops
  <2>1. processor' \in Processors
    BY <1>3, NoneIsInt DEF ProcessorStops, Processors
  <2> QED
    BY <1>3, <2>1, DroppedChannel, Capacities DEF ProcessorStops, TypeOK
<1> QED
  BY <1>1, <1>2, <1>3 DEF Processor

\* final_processor keeps the types.
LEMMA TypeFinalizer ==
  ASSUME TypeOK, Finalizer
  PROVE  TypeOK'
<1> USE DEF channels, tasks
<1>0. finalizer \in Finalizers /\ finalizer.block \in Int /\ final \in Channel(Int, FinalCap)
  BY DEF TypeOK, Finalizers
<1>1. CASE FinalizerReceives
  <2>1. finalizer' \in Finalizers
    BY <1>1, <1>0, TakenChannel, Capacities, NoneIsInt DEF FinalizerReceives, Finalizers
  <2> QED
    BY <1>1, <2>1, TakenChannel, Capacities DEF FinalizerReceives, TypeOK
<1>2. CASE FinalizerSends
  <2>1. finalizer' \in Finalizers
    BY <1>2, NoneIsInt DEF FinalizerSends, Finalizers
  <2> QED
    BY <1>0, <1>2, <2>1, PutChannel, Capacities DEF FinalizerSends, TypeOK
<1>3. CASE FinalizerSendFails
  <2>1. finalizer' \in Finalizers
    BY <1>3, NoneIsInt DEF FinalizerSendFails, Finalizers
  <2> QED
    BY <1>3, <2>1 DEF FinalizerSendFails, TypeOK
<1>4. CASE FinalizerRequestsStop
  <2>1. finalizer' \in Finalizers
    BY <1>0, <1>4 DEF FinalizerRequestsStop, Finalizers
  <2> QED
    BY <1>4, <2>1 DEF FinalizerRequestsStop, TypeOK
<1>5. CASE FinalizerDrains
  BY <1>5, TakenChannel, Capacities DEF FinalizerDrains, TypeOK
<1>6. CASE FinalizerStops
  <2>1. PICK result \in {"ok", "err"} : FinalizerEnds(result)
    BY <1>6 DEF FinalizerStops
  <2>2. finalizer' \in Finalizers
    BY <2>1, NoneIsInt DEF FinalizerEnds, Finalizers
  <2> QED
    BY <2>1, <2>2, DroppedChannel, Capacities DEF FinalizerEnds, TypeOK
<1> QED
  BY <1>1, <1>2, <1>3, <1>4, <1>5, <1>6 DEF Finalizer

\* The client and run_client keep the types.
LEMMA TypeClientMain ==
  ASSUME TypeOK, Client \/ Main \/ ConnectFails
  PROVE  TypeOK'
<1> USE DEF channels, tasks
<1>0. client \in Clients /\ out \in Channel(Int, OutCap)
  BY DEF TypeOK
<1>1. CASE ClientReceives
  <2>1. client' \in Clients
    BY <1>0, <1>1, TakenChannel, Capacities DEF ClientReceives, Clients
  <2> QED
    BY <1>1, <2>1, TakenChannel, Capacities DEF ClientReceives, TypeOK
<1>2. CASE ClientStops
  <2>1. PICK result \in {"ok", "err"} : ClientEnds(result)
    BY <1>2 DEF ClientStops
  <2>2. client' \in Clients
    BY <1>0, <2>1 DEF ClientEnds, Clients
  <2> QED
    BY <2>1, <2>2, DroppedChannel, Capacities DEF ClientEnds, TypeOK
<1>3. CASE Main
  BY <1>3 DEF Main, MainSeesClientEnd, MainRequestsStop, MainJoins, TypeOK
<1>4. CASE ConnectFails
  <2>1. ws' \in [items : Seq(Messages), open : BOOLEAN, failed : BOOLEAN]
    BY <1>4 DEF ConnectFails, TypeOK
  <2>2. reader' \in Readers
    BY <1>4 DEF ConnectFails, TypeOK, Readers
  <2>3. deserializer' \in Deserializers
    BY <1>4 DEF ConnectFails, TypeOK, Deserializers
  <2>4. processor' \in Processors /\ finalizer' \in Finalizers
    BY <1>4 DEF ConnectFails, TypeOK, Processors, Finalizers
  <2> QED
    BY <1>4, <2>1, <2>2, <2>3, <2>4, DroppedChannel, Capacities DEF ConnectFails, TypeOK
<1> QED
  BY <1>1, <1>2, <1>3, <1>4 DEF Client

\* What a failed read does: ship_reader ends, and the websocket is left as it is.
LEMMA ReadFailure ==
  ASSUME TypeOK, ReaderFails
  PROVE  /\ UNCHANGED <<ship, blocks, final, out, deserializer, processor, finalizer, client, main>>
         /\ ws'.items = ws.items /\ (ws'.open => ws.open) /\ ws'.failed
         /\ reader.at = "read" /\ reader'.at = "ok" /\ stop' = 0
         /\ raw'.items = raw.items /\ ~raw'.tx /\ raw'.rx = raw.rx
         /\ TypeOK'
<1>0. /\ ws \in [items : Seq(Messages), open : BOOLEAN, failed : BOOLEAN]
      /\ raw \in Channel(Messages, RawCap)
  BY DEF TypeOK
<1>1. PICK open \in {FALSE, ws.open} : ws' = [ws EXCEPT !.open = open, !.failed = TRUE]
  BY DEF ReaderFails
<1>2. /\ ws' \in [items : Seq(Messages), open : BOOLEAN, failed : BOOLEAN]
      /\ ws'.items = ws.items /\ (ws'.open => ws.open) /\ ws'.failed
  BY <1>0, <1>1
<1>3. reader' = [at |-> "ok", msg |-> NoMessage] /\ reader' \in Readers
  BY NoneIsInt DEF ReaderFails, Readers
<1>4. /\ raw' \in Channel(Messages, RawCap)
      /\ raw'.items = raw.items /\ ~raw'.tx /\ raw'.rx = raw.rx
  BY <1>0, DroppedChannel, Capacities DEF ReaderFails
<1>5. /\ UNCHANGED <<ship, blocks, final, out, deserializer, processor, finalizer, client, main>>
      /\ reader.at = "read" /\ stop' = 0
  BY DEF ReaderFails
<1>6. TypeOK'
  BY <1>2, <1>3, <1>4, <1>5 DEF TypeOK
<1> QED
  BY <1>2, <1>3, <1>4, <1>5, <1>6

\* A step keeps the types.
LEMMA TypePreserved ==
  ASSUME TypeOK, [Next]_vars
  PROVE  TypeOK'
<1>1. CASE UNCHANGED vars
  BY <1>1 DEF vars, channels, tasks, TypeOK
<1> QED
  BY <1>1, TypeShip, TypeReader, TypeDeserializer, TypeProcessor, TypeFinalizer, TypeClientMain,
     ReadFailure
  DEF Next

-------------------------------------------------------------------------------
(***************************************************************************)
(* The ends of the channels, and the stop channel.                         *)
(***************************************************************************)
\* Every step keeps EndsInv.
LEMMA EndsPreserved ==
  ASSUME TypeOK, EndsInv, [Next]_vars
  PROVE  EndsInv'
<1> USE Capacities DEF EndsInv, Ended, channels, tasks
<1>0. /\ raw \in Channel(Messages, RawCap) /\ blocks \in Channel(Int, BlockCap)
      /\ final \in Channel(Int, FinalCap) /\ out \in Channel(Int, OutCap)
      /\ reader \in Readers /\ deserializer \in Deserializers /\ processor \in Processors
      /\ finalizer \in Finalizers /\ client \in Clients
  BY DEF TypeOK
<1>1. CASE Ship \/ ShipEmptyResult \/ ShipCloses
  <2>1. ws'.failed = ws.failed
    <3>1. ws \in [items : Seq(Messages), open : BOOLEAN, failed : BOOLEAN]
      BY DEF TypeOK
    <3> QED
      BY <1>1, <3>1
      DEF Ship, ShipAbi, ShipStatus, ShipBlock, ShipEmptyResult, ShipCloses, ShipSends
  <2>2. UNCHANGED <<channels, tasks, client>>
    BY <1>1 DEF Ship, ShipAbi, ShipStatus, ShipBlock, ShipEmptyResult, ShipCloses
  <2> QED
    BY <2>1, <2>2
<1>2. CASE ReaderReceives
  BY <1>2 DEF ReaderReceives
<1>3. CASE ReaderSends
  BY <1>0, <1>3, PutChannel DEF ReaderSends, Readers
<1>4. CASE ReaderStops
  BY <1>0, <1>4, DroppedChannel DEF ReaderStops, ReaderEnds
<1>5. CASE DeserializeAbi
  BY <1>0, <1>5, TakenChannel DEF DeserializeAbi, Deserializers
<1>6. CASE DeserializeStatus
  BY <1>0, <1>6, TakenChannel DEF DeserializeStatus
<1>7. CASE DeserializeBlock
  BY <1>0, <1>7, TakenChannel DEF DeserializeBlock, Deserializers
<1>8. CASE DeserializeEmpty
  BY <1>0, <1>8, TakenChannel DEF DeserializeEmpty, Deserializers
<1>9. CASE DeserializerSends
  BY <1>0, <1>9, PutChannel DEF DeserializerSends, Deserializers
<1>10. CASE DeserializerAcks
  BY <1>0, <1>10 DEF DeserializerAcks, Deserializers
<1>11. CASE DeserializerStops
  <2>1. PICK result \in {"ok", "err"} : DeserializerEnds(result)
    BY <1>11 DEF DeserializerStops
  <2> QED
    BY <1>0, <2>1, DroppedChannel DEF DeserializerEnds
<1>12. CASE ProcessorReceives
  BY <1>0, <1>12, TakenChannel DEF ProcessorReceives
<1>13. CASE ProcessorSends
  BY <1>0, <1>13, PutChannel DEF ProcessorSends, Processors
<1>14. CASE ProcessorStops
  BY <1>0, <1>14, DroppedChannel DEF ProcessorStops
<1>15. CASE FinalizerReceives
  BY <1>0, <1>15, TakenChannel DEF FinalizerReceives
<1>16. CASE FinalizerSends
  BY <1>0, <1>16, PutChannel DEF FinalizerSends, Finalizers
<1>17. CASE FinalizerSendFails
  BY <1>17 DEF FinalizerSendFails
<1>18. CASE FinalizerRequestsStop
  BY <1>0, <1>18 DEF FinalizerRequestsStop, Finalizers
<1>19. CASE FinalizerDrains
  BY <1>0, <1>19, TakenChannel DEF FinalizerDrains
<1>20. CASE FinalizerStops
  <2>1. PICK result \in {"ok", "err"} : FinalizerEnds(result)
    BY <1>20 DEF FinalizerStops
  <2> QED
    BY <1>0, <2>1, DroppedChannel DEF FinalizerEnds
<1>21. CASE ClientReceives
  BY <1>0, <1>21, TakenChannel DEF ClientReceives, Clients
<1>22. CASE ClientStops
  <2>1. PICK result \in {"ok", "err"} : ClientEnds(result)
    BY <1>22 DEF ClientStops
  <2> QED
    BY <1>0, <2>1, DroppedChannel DEF ClientEnds, Clients
<1>23. CASE Main
  BY <1>23 DEF Main, MainSeesClientEnd, MainRequestsStop, MainJoins
<1>24. CASE ConnectFails
  BY <1>0, <1>24, DroppedChannel
  DEF ConnectFails, Readers, Deserializers, Processors, Finalizers
<1>25. CASE UNCHANGED vars
  BY <1>25 DEF vars
<1>26. CASE ReaderFails
  BY <1>26, ReadFailure
<1> QED
  BY <1>1, <1>2, <1>3, <1>4, <1>5, <1>6, <1>7, <1>8, <1>9, <1>10, <1>11, <1>12, <1>13, <1>14,
     <1>15, <1>16, <1>17, <1>18, <1>19, <1>20, <1>21, <1>22, <1>23, <1>24, <1>25, <1>26
  DEF Next, Reader, Deserializer, Processor, Finalizer, Client

\* An ended task never moves again, so that a run that is over stays over.
LEMMA StopPreserved ==
  ASSUME TypeOK, StopInv, [Next]_vars
  PROVE  StopInv'
<1> USE DEF StopInv, Ended, TasksEnded, TasksSucceeded, channels, tasks
<1>0. /\ reader \in Readers /\ deserializer \in Deserializers /\ processor \in Processors
      /\ finalizer \in Finalizers /\ client \in Clients
  BY DEF TypeOK
<1>1. CASE Ship \/ ShipEmptyResult \/ ShipCloses
  BY <1>1 DEF Ship, ShipAbi, ShipStatus, ShipBlock, ShipEmptyResult, ShipCloses
<1>2. CASE Reader
  BY <1>0, <1>2 DEF Reader, ReaderReceives, ReaderSends, ReaderStops, ReaderEnds
<1>3. CASE DeserializeAbi \/ DeserializeStatus \/ DeserializeBlock \/ DeserializeEmpty
           \/ DeserializerSends \/ DeserializerAcks
  BY <1>0, <1>3 DEF DeserializeAbi, DeserializeStatus, DeserializeBlock, DeserializeEmpty,
     DeserializerSends, DeserializerAcks
<1>4. CASE DeserializerStops
  BY <1>0, <1>4 DEF DeserializerStops, DeserializerEnds
<1>5. CASE Processor
  BY <1>0, <1>5 DEF Processor, ProcessorReceives, ProcessorSends, ProcessorStops
<1>6. CASE FinalizerReceives \/ FinalizerSends \/ FinalizerSendFails \/ FinalizerDrains
  BY <1>0, <1>6 DEF FinalizerReceives, FinalizerSends, FinalizerSendFails, FinalizerDrains
<1>7. CASE FinalizerRequestsStop
  BY <1>0, <1>7 DEF FinalizerRequestsStop, Finalizers
<1>8. CASE FinalizerStops
  BY <1>0, <1>8 DEF FinalizerStops, FinalizerEnds
<1>9. CASE ClientReceives
  BY <1>0, <1>9 DEF ClientReceives, Clients
<1>10. CASE ClientStops
  BY <1>0, <1>10 DEF ClientStops, ClientEnds, Clients
<1>11. CASE Main
  BY <1>11 DEF Main, MainSeesClientEnd, MainRequestsStop, MainJoins
<1>12. CASE ConnectFails
  BY <1>12 DEF ConnectFails
<1>13. CASE UNCHANGED vars
  BY <1>13 DEF vars
<1>14. CASE ReaderFails
  BY <1>14, ReadFailure
<1> QED
  BY <1>1, <1>2, <1>3, <1>4, <1>5, <1>6, <1>7, <1>8, <1>9, <1>10, <1>11, <1>12, <1>13, <1>14
  DEF Next, Deserializer, Finalizer, Client

-------------------------------------------------------------------------------
(***************************************************************************)
(* The messages on their way, and the node's window.                       *)
(***************************************************************************)
AllIn(s, kinds) == \A i \in 1..Len(s) : s[i].kind \in kinds

\* The kinds of a queue whose first message is taken, or that gets one more.
LEMMA KindsOfQueue ==
  ASSUME NEW s \in Seq(Messages), NEW kinds, AllIn(s, kinds)
  PROVE  /\ s # << >> => Head(s).kind \in kinds /\ AllIn(Tail(s), kinds)
         /\ \A m \in Messages : m.kind \in kinds => AllIn(Append(s, m), kinds)
         /\ AllIn(<< >>, kinds)
<1>1. ASSUME s # << >> PROVE Head(s).kind \in kinds /\ AllIn(Tail(s), kinds)
  BY <1>1, HeadTailProperties, LenProperties DEF AllIn
<1>2. ASSUME NEW m \in Messages, m.kind \in kinds PROVE AllIn(Append(s, m), kinds)
  BY <1>2, AppendProperties, LenProperties DEF AllIn
<1> QED
  BY <1>1, <1>2 DEF AllIn

\* KindsIn in terms of AllIn.
LEMMA KindsDef ==
  ASSUME NEW kinds
  PROVE  KindsIn(kinds) <=> /\ AllIn(raw.items, kinds) /\ AllIn(ws.items, kinds)
                            /\ reader.at = "send" => reader.msg.kind \in kinds
BY DEF KindsIn, AllIn

\* How many messages are on their way.
LEMMA WaitingSize ==
  ASSUME TypeOK
  PROVE  /\ raw.items \in Seq(Messages) /\ ws.items \in Seq(Messages)
         /\ Len(raw.items) \in Nat /\ Len(ws.items) \in Nat /\ Held(reader) \in {0, 1}
         /\ Waiting \in Nat /\ deserializer.unackd \in Nat /\ ship.inFlight \in Int
         /\ Ready(raw) => Len(raw.items) > 0
         /\ ws.items # << >> => Len(ws.items) > 0
         /\ Waiting = 0 => \A kinds : KindsIn(kinds)
<1>1. /\ raw.items \in Seq(Messages) /\ ws.items \in Seq(Messages)
      /\ Len(raw.items) \in Nat /\ Len(ws.items) \in Nat /\ Held(reader) \in {0, 1}
  BY ChannelFields, Capacities, LenProperties DEF TypeOK, Held
<1>2. Waiting \in Nat
  BY <1>1 DEF Waiting
<1>3. deserializer.unackd \in Nat /\ ship.inFlight \in Int
  BY DEF TypeOK, Deserializers, Ships
<1>4. /\ Ready(raw) => Len(raw.items) > 0
      /\ ws.items # << >> => Len(ws.items) > 0
  BY <1>1, EmptySeq DEF Ready
<1>5. ASSUME Waiting = 0, NEW kinds PROVE KindsIn(kinds)
  <2>1. Len(raw.items) = 0 /\ Len(ws.items) = 0 /\ Held(reader) = 0
    BY <1>1, <1>5 DEF Waiting
  <2> QED
    BY <2>1 DEF KindsIn, Held
<1> QED
  BY <1>1, <1>2, <1>3, <1>4, <1>5

\* The node.
LEMMA PhaseShip ==
  ASSUME TypeOK, PhaseInv, Ship \/ ShipEmptyResult \/ ShipCloses
  PROVE  PhaseInv'
<1>0. /\ ship \in Ships /\ ws \in [items : Seq(Messages), open : BOOLEAN, failed : BOOLEAN]
      /\ UNCHANGED <<raw, reader, deserializer>>
  BY DEF TypeOK, Ship, ShipAbi, ShipStatus, ShipBlock, ShipEmptyResult, ShipCloses, channels,
     tasks
<1>s. /\ Len(raw.items) \in Nat /\ Len(ws.items) \in Nat /\ Held(reader) \in Nat
      /\ Waiting = Len(raw.items) + Held(reader) + Len(ws.items)
      /\ Waiting' = Len(raw'.items) + Held(reader') + Len(ws'.items)
  BY WaitingSize DEF Waiting
<1>m. ASSUME NEW m \in Messages, ShipSends(m)
      PROVE  /\ Waiting' = Waiting + 1
             /\ \A kinds : KindsIn(kinds) /\ m.kind \in kinds => KindsIn(kinds)'
  <2>1. ws'.items = Append(ws.items, m) /\ Len(ws'.items) = Len(ws.items) + 1
    BY <1>0, <1>m, WaitingSize, AppendProperties DEF ShipSends
  <2>2. Waiting' = Waiting + 1
    <3>1. Len(raw'.items) = Len(raw.items) /\ Held(reader') = Held(reader)
      BY <1>0
    <3> QED
      BY <1>s, <2>1, <3>1
  <2>3. ASSUME NEW kinds, KindsIn(kinds), m.kind \in kinds PROVE KindsIn(kinds)'
    <3>1. AllIn(ws'.items, kinds)
      BY <2>1, <2>3, <1>m, KindsOfQueue, KindsDef, WaitingSize
    <3> QED
      BY <1>0, <2>3, <3>1 DEF KindsIn, AllIn
  <2> QED
    BY <2>2, <2>3
<1>t. /\ \A num \in Int : \A kind \in {"abi", "status", "block", "empty"} :
           Message(kind, num) \in Messages /\ Message(kind, num).kind = kind
      /\ None \in Int /\ ship.next \in Int
  BY <1>0, NoneIsInt DEF Message, Messages, Ships
<1>1. CASE ShipAbi \/ ShipStatus
  <2>1. PICK m \in Messages : ShipSends(m) /\ m.kind \in {"abi", "status"}
    BY <1>1, <1>t DEF ShipAbi, ShipStatus
  <2>2. ship.phase \in {"abi", "status"} /\ ship' = [ship EXCEPT !.phase = "waiting"]
    BY <1>1 DEF ShipAbi, ShipStatus
  <2>3. /\ ship'.phase = "waiting" /\ ship'.inFlight = ship.inFlight
        /\ ship.inFlight = 0 /\ deserializer.unackd = 0
    BY <1>0, <2>2 DEF Ships, PhaseInv
  <2>4. Waiting = 0 /\ KindsIn({"abi", "status"})
    BY <2>2, WaitingSize DEF PhaseInv
  <2>5. Waiting' = 1 /\ KindsIn({"abi", "status"})'
    BY <1>m, <2>1, <2>4
  <2> QED
    BY <1>0, <2>3, <2>5 DEF PhaseInv
<1>2. CASE ShipBlock \/ ShipEmptyResult
  <2>1. PICK m \in Messages : ShipSends(m) /\ m.kind \in {"block", "empty"}
    BY <1>2, <1>t DEF ShipBlock, ShipEmptyResult
  <2>2. /\ ship.phase = "blocks" /\ ship'.phase = "blocks"
        /\ ship'.inFlight = ship.inFlight + 1
    BY <1>0, <1>2 DEF ShipBlock, ShipEmptyResult, Ships
  <2>3. Waiting' = Waiting + 1 /\ KindsIn({"block", "empty"})'
    BY <1>m, <2>1, <2>2 DEF PhaseInv
  <2>4. Waiting' + deserializer'.unackd <= ship'.inFlight
    BY <1>0, <2>2, <2>3, WaitingSize DEF PhaseInv
  <2> QED
    BY <1>0, <2>2, <2>3, <2>4 DEF PhaseInv
<1>3. CASE ShipCloses
  <2>1. ws'.items = ws.items /\ ship' = ship
    BY <1>0, <1>3 DEF ShipCloses
  <2> QED
    BY <1>0, <2>1 DEF PhaseInv, Waiting, Held, KindsIn
<1> QED
  BY <1>1, <1>2, <1>3 DEF Ship

\* ship_reader and raw_deserializer only move messages on, or lose them.
LEMMA PhaseFewer ==
  ASSUME TypeOK, PhaseInv,
         ship'.phase = ship.phase, ship'.inFlight = ship.inFlight,
         Waiting' \in Nat, deserializer'.unackd \in Nat,
         Waiting' <= Waiting,
         Waiting' + deserializer'.unackd <= Waiting + deserializer.unackd,
         ship.phase # "blocks" => deserializer'.unackd = 0,
         deserializer'.at = "abi" => deserializer.at = "abi",
         \A kinds : KindsIn(kinds) => KindsIn(kinds)'
  PROVE  PhaseInv'
BY WaitingSize DEF PhaseInv

\* ship_reader only moves messages on, or drops them.
LEMMA PhaseReader ==
  ASSUME TypeOK, TypeOK', PhaseInv, Reader
  PROVE  PhaseInv'
<1>0. /\ ship' = ship /\ deserializer' = deserializer
      /\ raw \in Channel(Messages, RawCap) /\ ws \in [items : Seq(Messages), open : BOOLEAN, failed : BOOLEAN]
      /\ reader \in Readers
  BY DEF TypeOK, Reader, ReaderReceives, ReaderSends, ReaderStops, channels
<1>s. /\ Len(raw.items) \in Nat /\ Len(ws.items) \in Nat /\ Held(reader) \in Nat
      /\ Waiting = Len(raw.items) + Held(reader) + Len(ws.items)
      /\ Waiting' = Len(raw'.items) + Held(reader') + Len(ws'.items)
  BY WaitingSize DEF Waiting
<1>w. Waiting' \in Nat /\ deserializer'.unackd \in Nat
  BY WaitingSize, <1>0 DEF Waiting, TypeOK, Held, Channel, Readers, Deserializers
<1>1. CASE ReaderReceives
  <2>1. /\ reader.at = "read" /\ ws.items # << >> /\ raw' = raw
        /\ ws'.items = Tail(ws.items)
        /\ reader' = reader \/ reader' = [at |-> "send", msg |-> Head(ws.items)]
    BY <1>0, <1>1 DEF ReaderReceives, channels
  <2>2. Len(ws'.items) = Len(ws.items) - 1 /\ Len(raw'.items) = Len(raw.items)
        /\ Held(reader) = 0 /\ Held(reader') \in {0, 1}
    BY <2>1, WaitingSize, HeadTailProperties DEF Held
  <2>3. Waiting' <= Waiting
    <3>1. Waiting = Len(raw.items) + Len(ws.items)
      BY <1>s, <2>2
    <3>2. Waiting' = Len(raw.items) + Held(reader') + (Len(ws.items) - 1)
      BY <1>s, <2>2
    <3>3. Len(raw.items) \in Nat /\ Len(ws.items) \in Nat
      BY <1>s
    <3>4. \A r, w \in Nat : \A h \in {0, 1} : r + h + (w - 1) <= r + w
      OBVIOUS
    <3> QED
      BY <2>2, <3>1, <3>2, <3>3, <3>4
  <2>4. ASSUME NEW kinds, KindsIn(kinds) PROVE KindsIn(kinds)'
    <3>1. Head(ws.items).kind \in kinds /\ AllIn(ws'.items, kinds)
      BY <2>1, <2>4, KindsOfQueue, KindsDef, WaitingSize
    <3> QED
      BY <2>1, <2>4, <3>1 DEF KindsIn, AllIn
  <2> QED
    BY <1>0, <1>w, <2>3, <2>4, WaitingSize, PhaseFewer DEF PhaseInv
<1>2. CASE ReaderSends
  <2>1. /\ reader.at = "send" /\ reader'.at = "read" /\ ws' = ws /\ reader.msg \in Messages
        /\ raw'.items = Append(raw.items, reader.msg)
        /\ Len(raw'.items) = Len(raw.items) + 1
    BY <1>0, <1>2, PutChannel, Capacities DEF ReaderSends, Readers
  <2>3. Waiting' = Waiting
    <3>1. Held(reader) \in {0, 1} /\ Held(reader') = 0 /\ (reader.at = "send" => Held(reader) = 1)
      BY <2>1 DEF Held
    <3> QED
      BY <1>s, <2>1, <3>1
  <2>4. ASSUME NEW kinds, KindsIn(kinds) PROVE KindsIn(kinds)'
    <3>1. AllIn(raw'.items, kinds)
      BY <2>1, <2>4, KindsOfQueue, KindsDef, WaitingSize
    <3> QED
      BY <2>1, <2>4, <3>1 DEF KindsIn, AllIn
  <2> QED
    BY <1>0, <1>w, <2>3, <2>4, WaitingSize, PhaseFewer DEF PhaseInv
<1>3. CASE ReaderStops
  <2>1. /\ reader'.at = "ok" /\ ws'.items = << >> /\ raw'.items = raw.items
        /\ Len(ws'.items) = 0
    BY <1>0, <1>3, DroppedChannel, Capacities DEF ReaderStops, ReaderEnds
  <2>3. Waiting' <= Waiting
    <3>1. Held(reader) \in {0, 1} /\ Held(reader') = 0 /\ (reader.at = "send" => Held(reader) = 1)
      BY <2>1 DEF Held
    <3> QED
      BY <1>s, <2>1, <3>1
  <2>4. ASSUME NEW kinds, KindsIn(kinds) PROVE KindsIn(kinds)'
    BY <2>1, <2>4 DEF KindsIn
  <2> QED
    BY <1>0, <1>w, <2>3, <2>4, WaitingSize, PhaseFewer DEF PhaseInv
<1> QED
  BY <1>1, <1>2, <1>3 DEF Reader

LEMMA PhaseDeserializer ==
  ASSUME TypeOK, TypeOK', PhaseInv, Deserializer
  PROVE  PhaseInv'
<1>0. /\ ws' = ws /\ reader' = reader /\ deserializer \in Deserializers /\ ship \in Ships
      /\ raw \in Channel(Messages, RawCap)
  BY DEF TypeOK, Deserializer, DeserializeAbi, DeserializeStatus, DeserializeBlock,
     DeserializeEmpty, DeserializerSends, DeserializerAcks, DeserializerStops,
     DeserializerEnds, channels, tasks
<1>s. /\ Len(raw.items) \in Nat /\ Len(ws.items) \in Nat /\ Held(reader) \in Nat
      /\ deserializer.unackd \in Nat /\ ship.inFlight \in Int
      /\ Waiting = Len(raw.items) + Held(reader) + Len(ws.items)
      /\ Waiting' = Len(raw'.items) + Held(reader) + Len(ws.items)
  BY <1>0, WaitingSize DEF Waiting
<1>u. deserializer'.unackd \in Nat
  BY DEF TypeOK, Deserializers
\* The first message is taken.
<1>t. ASSUME Ready(raw), raw' = Taken(raw)
      PROVE  /\ Waiting' = Waiting - 1 /\ Waiting' \in Nat
             /\ \A kinds : KindsIn(kinds) => Head(raw.items).kind \in kinds /\ KindsIn(kinds)'
  <2>1. raw'.items = Tail(raw.items) /\ Len(raw'.items) = Len(raw.items) - 1
    BY <1>0, <1>t, TakenChannel, Capacities
  <2>2. Len(raw'.items) \in Nat /\ raw.items # << >> /\ Len(raw'.items) = Len(raw.items) - 1
    BY <1>s, <1>t, <2>1, WaitingSize DEF Ready
  <2>3. Waiting' = Waiting - 1 /\ Waiting' \in Nat
    BY <1>s, <2>2, SMTT(40)
  <2>4. ASSUME NEW kinds, KindsIn(kinds)
        PROVE  Head(raw.items).kind \in kinds /\ KindsIn(kinds)'
    <3>1. Head(raw.items).kind \in kinds /\ AllIn(raw'.items, kinds)
      BY <2>1, <2>2, <2>4, KindsOfQueue, KindsDef, WaitingSize
    <3> QED
      BY <1>0, <2>4, <3>1 DEF KindsIn, AllIn
  <2> QED
    BY <2>3, <2>4
\* The request after the message reaches the node, or the connection is gone.
<1>r. ASSUME NEW phase \in {"status", "blocks"}, Ready(raw), raw' = Taken(raw),
             ship' = Requested(phase), deserializer'.unackd = deserializer.unackd,
             deserializer'.at # "abi", ship.phase = "waiting"
      PROVE  PhaseInv'
  <2>1. Waiting = 1 /\ Waiting' = 0
    BY <1>r, <1>s, <1>t DEF PhaseInv
  <2>2. ship.inFlight = 0 /\ deserializer.unackd = 0
    BY <1>r DEF PhaseInv
  <2>3. ship'.inFlight = 0 /\ ship'.phase \in {"waiting", phase}
    BY <1>0, <1>r, <2>2 DEF Requested, Ships
  <2>4. \A kinds : KindsIn(kinds)'
    <3>1. Len(raw'.items) \in Nat
      BY Capacities, ChannelFields DEF TypeOK
    <3>2. Len(raw'.items) = 0 /\ Held(reader) = 0 /\ Len(ws.items) = 0
      BY <1>s, <2>1, <3>1
    <3> QED
      BY <1>0, <3>2 DEF KindsIn, Held
  <2> QED
    BY <1>r, <2>1, <2>2, <2>3, <2>4 DEF PhaseInv
<1>1. CASE DeserializeAbi
  <2>1. /\ Ready(raw) /\ raw' = Taken(raw) /\ ship' = Requested("status")
        /\ deserializer.at = "abi" /\ deserializer'.at = "recv"
        /\ deserializer'.unackd = deserializer.unackd
    BY <1>0, <1>1 DEF DeserializeAbi, Deserializers
  <2>2. ship.phase = "waiting"
    BY <1>s, <1>t, <2>1 DEF PhaseInv
  <2> QED
    BY <1>r, <2>1, <2>2
<1>2. CASE DeserializeStatus
  <2>1. /\ Ready(raw) /\ raw' = Taken(raw) /\ ship' = Requested("blocks")
        /\ deserializer.at = "recv" /\ deserializer' = deserializer
        /\ Head(raw.items).kind = "status"
    BY <1>2 DEF DeserializeStatus, tasks
  <2>2. ship.phase = "waiting"
    <3>1. ship.phase \in {"abi", "waiting", "status", "blocks"}
      BY <1>0 DEF Ships
    <3>2. Waiting # 0
      BY <1>s, <1>t, <2>1
    <3>3. ship.phase # "blocks"
      BY <1>t, <2>1 DEF PhaseInv
    <3> QED
      BY <3>1, <3>2, <3>3 DEF PhaseInv
  <2> QED
    BY <1>r, <2>1, <2>2
<1>3. CASE DeserializeBlock \/ DeserializeEmpty
  <2>1. /\ Ready(raw) /\ raw' = Taken(raw) /\ ship' = ship
        /\ deserializer.at = "recv" /\ deserializer'.at \in {"recv", "send"}
        /\ deserializer'.unackd = deserializer.unackd + 1
        /\ Head(raw.items).kind \in {"block", "empty"}
    BY <1>0, <1>3 DEF DeserializeBlock, DeserializeEmpty, Deserializers
  <2>2. ship.phase = "blocks"
    BY <1>0, <1>t, <2>1 DEF PhaseInv
  <2>3. Waiting' = Waiting - 1 /\ Waiting' \in Nat
    BY <1>t, <2>1
  <2>4. Waiting' + deserializer'.unackd = Waiting + deserializer.unackd
    BY <1>s, <2>1, <2>3
  <2>5. Waiting' <= Waiting
    BY <1>s, <2>3
  <2> QED
    BY <1>t, <1>u, <2>1, <2>2, <2>3, <2>4, <2>5, PhaseFewer
<1>4. CASE DeserializerSends
  <2>1. /\ raw' = raw /\ ship' = ship /\ deserializer'.at # "abi"
        /\ deserializer'.unackd = deserializer.unackd
    BY <1>0, <1>4 DEF DeserializerSends, Deserializers
  <2> QED
    BY <1>0, <2>1 DEF PhaseInv, Waiting, KindsIn, Held
<1>5. CASE DeserializerAcks
  <2>1. /\ raw' = raw /\ deserializer'.at = "recv" /\ deserializer'.unackd = 0
        /\ ship'.phase = ship.phase
        /\ ship'.inFlight = ship.inFlight \/ ship'.inFlight = ship.inFlight - deserializer.unackd
    BY <1>0, <1>5 DEF DeserializerAcks, Deserializers, Ships, channels
  <2>2. Waiting' = Waiting /\ Waiting \in Nat
    BY <1>s, <2>1
  <2>3. ASSUME ship.phase = "blocks" PROVE Waiting' + deserializer'.unackd <= ship'.inFlight
    <3>1. Waiting + deserializer.unackd <= ship.inFlight
      BY <2>3 DEF PhaseInv
    <3> QED
      BY <1>s, <2>1, <2>2, <3>1
  <2>4. ASSUME ship.phase # "blocks" PROVE ship'.inFlight = 0
    BY <2>1, <2>4 DEF PhaseInv
  <2>5. \A kinds : KindsIn(kinds)' <=> KindsIn(kinds)
    BY <1>0, <2>1 DEF KindsIn
  <2> QED
    BY <2>1, <2>2, <2>3, <2>4, <2>5 DEF PhaseInv
<1>6. CASE DeserializerStops
  <2>1. PICK result \in {"ok", "err"} : DeserializerEnds(result)
    BY <1>6 DEF DeserializerStops
  <2>2. /\ raw'.items = << >> /\ Len(raw'.items) = 0 /\ ship' = ship
        /\ deserializer'.at # "abi" /\ deserializer'.unackd = 0
    BY <1>0, <2>1, DroppedChannel, Capacities DEF DeserializerEnds
  <2>3. Waiting' <= Waiting /\ Waiting' \in Nat
    BY <1>s, <2>2, SMTT(40)
  <2>4. Waiting' + deserializer'.unackd <= Waiting + deserializer.unackd
    BY <1>s, <2>2, <2>3
  <2>5. \A kinds : KindsIn(kinds) => KindsIn(kinds)'
    BY <1>0, <2>2 DEF KindsIn
  <2> QED
    BY <1>u, <2>2, <2>3, <2>4, <2>5, PhaseFewer
<1> QED
  BY <1>1, <1>2, <1>3, <1>4, <1>5, <1>6 DEF Deserializer

\* The rest of the pipeline does not touch what PhaseInv is about.
LEMMA PhasePreserved ==
  ASSUME TypeOK, TypeOK', PhaseInv, [Next]_vars
  PROVE  PhaseInv'
<1>1. CASE Processor \/ Finalizer \/ Client \/ Main \/ UNCHANGED vars
  <2>1. UNCHANGED <<ship, ws, raw, reader, deserializer>>
    BY <1>1 DEF Processor, ProcessorReceives, ProcessorSends, ProcessorStops, Finalizer,
       FinalizerReceives, FinalizerSends, FinalizerSendFails, FinalizerRequestsStop,
       FinalizerDrains, FinalizerStops, FinalizerEnds, Client, ClientReceives, ClientStops,
       ClientEnds, Main, MainSeesClientEnd, MainRequestsStop, MainJoins, vars, channels, tasks
  <2> QED
    BY <2>1 DEF PhaseInv, Waiting, KindsIn, Held
<1>2. CASE ConnectFails
  <2>1. /\ ship' = ship /\ raw' = raw /\ ws'.items = ws.items
        /\ reader.at = "read" /\ reader'.at = "err"
        /\ deserializer'.at = "ok" /\ deserializer'.unackd = deserializer.unackd
    BY <1>2 DEF ConnectFails, TypeOK, Readers, Deserializers
  <2> QED
    BY <2>1 DEF PhaseInv, Waiting, KindsIn, Held
<1>3. CASE ReaderFails
  BY <1>3, ReadFailure DEF PhaseInv, Waiting, KindsIn, Held
<1> QED
  BY <1>1, <1>2, <1>3, PhaseShip, PhaseReader, PhaseDeserializer DEF Next

-------------------------------------------------------------------------------
(***************************************************************************)
(* Blocks in a row.                                                        *)
(***************************************************************************)

\* A row gets one more block, or its first one is taken.
LEMMA NumbersInRow ==
  ASSUME NEW s \in Seq(Int), NEW base \in Int, Numbers(s, base)
  PROVE  /\ Numbers(Append(s, base + Len(s) + 1), base)
         /\ s # << >> => Head(s) = base + 1 /\ Numbers(Tail(s), base + 1)
         /\ Numbers(<< >>, base)
<1>1. Numbers(Append(s, base + Len(s) + 1), base)
  BY AppendProperties, LenProperties DEF Numbers
<1>2. ASSUME s # << >> PROVE Head(s) = base + 1 /\ Numbers(Tail(s), base + 1)
  <2>1. Len(s) \in Nat /\ Len(s) > 0
    BY <1>2, EmptySeq
  <2>2. Head(s) = s[1]
    BY <1>2
  <2>3. /\ Len(Tail(s)) = Len(s) - 1
        /\ \A i \in 1..Len(Tail(s)) : Tail(s)[i] = s[i + 1]
    BY <1>2, HeadTailProperties
  <2> QED
    BY <2>1, <2>2, <2>3 DEF Numbers
<1>3. Numbers(<< >>, base)
  BY DEF Numbers
<1> QED
  BY <1>1, <1>2, <1>3

\* A run of messages gets the next block, or another message.
LEMMA RunAppend ==
  ASSUME NEW q \in Seq(Messages), NEW lo \in Int, NEW hi \in Int, Run(q, lo, hi), lo <= hi,
         NEW m \in Messages
  PROVE  /\ m.kind # "block" => Run(Append(q, m), lo, hi)
         /\ m.kind = "block" /\ m.num = hi + 1 => Run(Append(q, m), lo, hi + 1)
<1> DEFINE r == Append(q, m)
<1>1. /\ Len(q) \in Nat /\ Len(r) = Len(q) + 1
      /\ \A i \in 1..Len(q) : r[i] = q[i]
      /\ r[Len(r)] = m
  BY AppendProperties, LenProperties
<1>2. ASSUME NEW i \in 1..Len(q) PROVE q[i].num \in Int
  <2>1. q[i] \in Messages
    BY ElementOfSeq
  <2> QED
    BY <2>1 DEF Messages
<1> HIDE DEF r
<1>3. \A i \in 1..Len(r) : i \in 1..Len(q) \/ i = Len(r)
  BY <1>1
<1>4. ASSUME m.kind # "block" PROVE Run(r, lo, hi)
  <2>1. \A i \in 1..Len(r) : r[i].kind = "block" => i \in 1..Len(q) /\ r[i] = q[i]
    BY <1>1, <1>3, <1>4
  <2>2. 1..Len(q) \subseteq 1..Len(r)
    BY <1>1
  <2> QED
    BY <1>1, <2>1, <2>2 DEF Run
<1>5. ASSUME m.kind = "block", m.num = hi + 1 PROVE Run(r, lo, hi + 1)
  <2>1. ASSUME NEW i \in 1..Len(r), r[i].kind = "block" PROVE r[i].num \in (lo + 1)..(hi + 1)
    <3>1. CASE i \in 1..Len(q)
      BY <1>1, <2>1, <3>1 DEF Run
    <3>2. CASE i = Len(r)
      BY <1>1, <1>5, <3>2
    <3> QED
      BY <1>3, <3>1, <3>2
  <2>2. ASSUME NEW i \in 1..Len(r), NEW j \in 1..Len(r), i < j,
               r[i].kind = "block", r[j].kind = "block"
        PROVE  r[i].num < r[j].num
    <3>1. i \in 1..Len(q) /\ r[i] = q[i]
      BY <1>1, <2>2
    <3>2. r[i].num <= hi /\ r[i].num \in Int
      BY <1>2, <2>2, <3>1 DEF Run
    <3>3. CASE j \in 1..Len(q)
      BY <1>1, <2>2, <3>1, <3>3 DEF Run
    <3>4. CASE j = Len(r)
      BY <1>1, <1>5, <3>2, <3>4
    <3> QED
      BY <1>3, <3>3, <3>4
  <2>3. ASSUME NEW n \in (lo + 1)..(hi + 1)
        PROVE  \E i \in 1..Len(r) : r[i].kind = "block" /\ r[i].num = n
    <3>1. CASE n = hi + 1
      <4>1. Len(r) \in 1..Len(r)
        BY <1>1
      <4> QED
        BY <1>1, <1>5, <3>1, <4>1
    <3>2. CASE n \in (lo + 1)..hi
      <4>1. PICK i \in 1..Len(q) : q[i].kind = "block" /\ q[i].num = n
        BY <3>2 DEF Run
      <4> QED
        BY <1>1, <4>1
    <3> QED
      BY <3>1, <3>2
  <2> QED
    BY <2>1, <2>2, <2>3 DEF Run
<1> QED
  BY <1>4, <1>5 DEF r

\* The first message of a run is taken: if it is a block, it is the next one.
LEMMA RunTail ==
  ASSUME NEW q \in Seq(Messages), NEW lo \in Int, NEW hi \in Int, Run(q, lo, hi), q # << >>
  PROVE  /\ Head(q).kind # "block" => Run(Tail(q), lo, hi)
         /\ Head(q).kind = "block" => /\ Head(q).num = lo + 1 /\ lo + 1 <= hi
                                      /\ Run(Tail(q), lo + 1, hi)
<1> DEFINE t == Tail(q)
<1>1. /\ Len(q) \in Nat /\ Len(t) = Len(q) - 1 /\ Len(q) > 0
      /\ \A i \in 1..Len(t) : t[i] = q[i + 1] /\ i + 1 \in 1..Len(q)
      /\ Head(q) = q[1]
  BY HeadTailProperties, LenProperties, EmptySeq
<1>2. ASSUME NEW i \in 1..Len(q) PROVE q[i].num \in Int
  <2>1. q[i] \in Messages
    BY ElementOfSeq
  <2> QED
    BY <2>1 DEF Messages
<1>3. \A i \in 1..Len(q) : i = 1 \/ (i - 1 \in 1..Len(t) /\ t[i - 1] = q[i])
  BY <1>1
<1> HIDE DEF t
<1>o. \A i, j \in 1..Len(t) :
         i < j /\ t[i].kind = "block" /\ t[j].kind = "block" => t[i].num < t[j].num
  <2> SUFFICES ASSUME NEW i \in 1..Len(t), NEW j \in 1..Len(t), i < j,
                      t[i].kind = "block", t[j].kind = "block"
               PROVE  t[i].num < t[j].num
    OBVIOUS
  <2>1. i + 1 \in 1..Len(q) /\ j + 1 \in 1..Len(q) /\ i + 1 < j + 1
    BY <1>1
  <2>2. t[i] = q[i + 1] /\ t[j] = q[j + 1]
    BY <1>1
  <2>3. q[i + 1].num < q[j + 1].num
    BY <2>1, <2>2 DEF Run
  <2> QED
    BY <2>2, <2>3
<1>4. ASSUME Head(q).kind # "block" PROVE Run(t, lo, hi)
  <2>1. \A i \in 1..Len(t) : t[i].kind = "block" => t[i].num \in (lo + 1)..hi
    BY <1>1 DEF Run
  <2>2. ASSUME NEW n \in (lo + 1)..hi
        PROVE  \E i \in 1..Len(t) : t[i].kind = "block" /\ t[i].num = n
    <3>1. PICK i \in 1..Len(q) : q[i].kind = "block" /\ q[i].num = n
      BY DEF Run
    <3>2. i - 1 \in 1..Len(t) /\ t[i - 1] = q[i]
      BY <1>1, <1>3, <1>4, <3>1
    <3> QED
      BY <3>1, <3>2
  <2> QED
    BY <1>o, <2>1, <2>2 DEF Run
<1>5. ASSUME Head(q).kind = "block"
      PROVE  Head(q).num = lo + 1 /\ lo + 1 <= hi /\ Run(t, lo + 1, hi)
  <2>1. 1 \in 1..Len(q) /\ q[1].kind = "block" /\ q[1].num \in (lo + 1)..hi
    BY <1>1, <1>5 DEF Run
  <2>2. lo + 1 \in (lo + 1)..hi
    BY <2>1
  <2>3. PICK i \in 1..Len(q) : q[i].kind = "block" /\ q[i].num = lo + 1
    BY <2>2 DEF Run
  <2>4. i > 1 => q[1].num < q[i].num
    BY <2>1, <2>3 DEF Run
  <2>5. i = 1
    BY <1>1, <2>1, <2>3, <2>4
  <2>6. q[1].num = lo + 1
    BY <2>3, <2>5
  <2>7. ASSUME NEW j \in 1..Len(t), t[j].kind = "block" PROVE t[j].num \in (lo + 2)..hi
    <3>1. j + 1 \in 1..Len(q) /\ t[j] = q[j + 1] /\ 1 < j + 1
      BY <1>1
    <3>2. q[1].num < q[j + 1].num /\ q[j + 1].num \in (lo + 1)..hi
      BY <2>1, <2>7, <3>1 DEF Run
    <3> QED
      BY <2>6, <3>1, <3>2
  <2>8. ASSUME NEW n \in (lo + 2)..hi
        PROVE  \E j \in 1..Len(t) : t[j].kind = "block" /\ t[j].num = n
    <3>1. n \in (lo + 1)..hi /\ n # lo + 1
      OBVIOUS
    <3>2. PICK j \in 1..Len(q) : q[j].kind = "block" /\ q[j].num = n
      BY <3>1 DEF Run
    <3>3. j - 1 \in 1..Len(t) /\ t[j - 1] = q[j]
      BY <1>3, <2>6, <3>1, <3>2
    <3> QED
      BY <3>2, <3>3
  <2>9. (lo + 1) + 1 = lo + 2
    OBVIOUS
  <2>10. Run(t, lo + 1, hi)
    BY <1>o, <2>7, <2>8, <2>9 DEF Run
  <2> QED
    BY <1>1, <2>2, <2>6, <2>10
<1> QED
  BY <1>4, <1>5 DEF t

\* Nothing is on its way: the last block sent has arrived.
LEMMA RunEmpty ==
  ASSUME NEW lo \in Int, NEW hi \in Int, Run(<< >>, lo, hi)
  PROVE  hi <= lo
<1>1. \A n \in (lo + 1)..hi : FALSE
  BY DEF Run
<1> QED
  BY <1>1

-------------------------------------------------------------------------------
(***************************************************************************)
(* What is pending, and the numbers of the stages.                         *)
(***************************************************************************)

\* Three queues after one another.
LEMMA QueuesMove ==
  ASSUME NEW r \in Seq(Messages), NEW w \in Seq(Messages), NEW m \in Messages
  PROVE  /\ (r \o << >>) \o w \in Seq(Messages)
         /\ (r \o <<m>>) \o w \in Seq(Messages)
         /\ (Append(r, m) \o << >>) \o w = (r \o <<m>>) \o w
         /\ w # << >> => (r \o <<Head(w)>>) \o Tail(w) = (r \o << >>) \o w
<1>1. << >> \in Seq(Messages) /\ \A x \in Messages : <<x>> \in Seq(Messages)
  BY EmptySeq
<1>2. Append(r, m) = r \o <<m>> /\ Append(r, m) \in Seq(Messages)
  BY AppendIsConcat, AppendProperties
<1>3. (r \o <<m>>) \in Seq(Messages) /\ (r \o << >>) = r
  BY <1>1, <1>2, ConcatProperties, ConcatEmptySeq
<1>4. ASSUME w # << >> PROVE (r \o <<Head(w)>>) \o Tail(w) = r \o w
  <2>1. Head(w) \in Messages /\ Tail(w) \in Seq(Messages) /\ <<Head(w)>> \in Seq(Messages)
    BY <1>1, <1>4, HeadTailProperties
  <2>2. <<Head(w)>> \o Tail(w) = w
    <3>1. /\ <<Head(w)>> \o Tail(w) \in Seq(Messages)
          /\ Len(<<Head(w)>> \o Tail(w)) = 1 + Len(Tail(w))
          /\ \A i \in 1..(1 + Len(Tail(w))) :
               (<<Head(w)>> \o Tail(w))[i] = IF i <= 1 THEN Head(w) ELSE Tail(w)[i - 1]
      BY <2>1, ConcatProperties
    <3>2. /\ Len(w) \in Nat /\ Len(w) > 0 /\ Len(Tail(w)) = Len(w) - 1 /\ Head(w) = w[1]
          /\ \A i \in 1..Len(Tail(w)) : Tail(w)[i] = w[i + 1]
      BY <1>4, HeadTailProperties, LenProperties, EmptySeq
    <3>3. \A i \in 1..Len(w) : (<<Head(w)>> \o Tail(w))[i] = w[i]
      BY <3>1, <3>2
    <3> QED
      BY <3>1, <3>2, <3>3, SeqEqual
  <2> QED
    BY <2>1, <2>2, ConcatAssociative
<1>5. (r \o << >>) \o w \in Seq(Messages) /\ (r \o <<m>>) \o w \in Seq(Messages)
  BY <1>3, ConcatProperties
<1>6. Append(r, m) \o << >> = r \o <<m>>
  BY <1>2, ConcatEmptySeq
<1> QED
  BY <1>3, <1>4, <1>5, <1>6

\* A message is put behind.
LEMMA AppendBehind ==
  ASSUME NEW x \in Seq(Messages), NEW w \in Seq(Messages), NEW m \in Messages
  PROVE  x \o Append(w, m) = Append(x \o w, m)
<1>1. <<m>> \in Seq(Messages) /\ x \o w \in Seq(Messages)
  BY ConcatProperties
<1>2. Append(w, m) = w \o <<m>> /\ Append(x \o w, m) = (x \o w) \o <<m>>
  BY <1>1, AppendIsConcat
<1> QED
  BY <1>1, <1>2, ConcatAssociative

\* A message is taken in front.
LEMMA TailInFront ==
  ASSUME NEW r \in Seq(Messages), NEW h \in Seq(Messages), NEW w \in Seq(Messages)
  PROVE  /\ r # << >> => /\ (r \o h) \o w # << >>
                         /\ Head((r \o h) \o w) = Head(r)
                         /\ (Tail(r) \o h) \o w = Tail((r \o h) \o w)
<1>3. ASSUME r # << >>
      PROVE  /\ (r \o h) \o w # << >>
             /\ Head((r \o h) \o w) = Head(r)
             /\ (Tail(r) \o h) \o w = Tail((r \o h) \o w)
  <2> DEFINE q == h \o w
  <2>0. q \in Seq(Messages) /\ Tail(r) \in Seq(Messages)
    BY <1>3, ConcatProperties, HeadTailProperties
  <2>1. (r \o h) \o w = r \o q /\ (Tail(r) \o h) \o w = Tail(r) \o q
    <3>1. ASSUME NEW u \in Seq(Messages) PROVE (u \o h) \o w = u \o (h \o w)
      BY ConcatAssociative
    <3> QED
      BY <2>0, <3>1
  <2> HIDE DEF q
  <2>2. /\ r \o q \in Seq(Messages) /\ Len(r \o q) = Len(r) + Len(q)
        /\ \A i \in 1..(Len(r) + Len(q)) :
             (r \o q)[i] = IF i <= Len(r) THEN r[i] ELSE q[i - Len(r)]
    BY <2>0, ConcatProperties
  <2>3. Len(r) \in Nat /\ Len(r) > 0 /\ Len(q) \in Nat
    BY <1>3, <2>0, LenProperties, EmptySeq
  <2>4. r \o q # << >>
    BY <2>2, <2>3, EmptySeq
  <2>5. Head(r \o q) = Head(r)
    <3>1. Head(r \o q) = (r \o q)[1] /\ Head(r) = r[1]
      BY <1>3, <2>2, <2>4
    <3> QED
      BY <2>2, <2>3, <3>1
  <2>6. Tail(r) \o q = Tail(r \o q)
    <3>1. /\ Tail(r) \o q \in Seq(Messages)
          /\ Len(Tail(r) \o q) = Len(Tail(r)) + Len(q)
          /\ \A i \in 1..(Len(Tail(r)) + Len(q)) :
               (Tail(r) \o q)[i] = IF i <= Len(Tail(r)) THEN Tail(r)[i] ELSE q[i - Len(Tail(r))]
      BY <2>0, ConcatProperties
    <3>2. /\ Len(Tail(r)) = Len(r) - 1
          /\ \A i \in 1..Len(Tail(r)) : Tail(r)[i] = r[i + 1]
      BY <1>3, HeadTailProperties
    <3>3. /\ Tail(r \o q) \in Seq(Messages) /\ Len(Tail(r \o q)) = Len(r \o q) - 1
          /\ \A i \in 1..Len(Tail(r \o q)) : Tail(r \o q)[i] = (r \o q)[i + 1]
      BY <2>2, <2>4, HeadTailProperties
    <3>4. Len(Tail(r) \o q) = Len(Tail(r \o q))
      BY <2>2, <2>3, <3>1, <3>2, <3>3
    <3>5. ASSUME NEW i \in 1..Len(Tail(r) \o q) PROVE (Tail(r) \o q)[i] = Tail(r \o q)[i]
      <4>1. i \in 1..(Len(r) - 1 + Len(q)) /\ i + 1 \in 1..(Len(r) + Len(q))
        BY <2>3, <3>1, <3>2
      <4>2. Tail(r \o q)[i] = IF i + 1 <= Len(r) THEN r[i + 1] ELSE q[i + 1 - Len(r)]
        BY <2>2, <3>3, <3>4, <4>1
      <4>3. (Tail(r) \o q)[i] = IF i <= Len(r) - 1 THEN r[i + 1] ELSE q[i - (Len(r) - 1)]
        BY <2>3, <3>1, <3>2, <4>1
      <4>4. (i + 1 <= Len(r) <=> i <= Len(r) - 1) /\ i + 1 - Len(r) = i - (Len(r) - 1)
        BY <2>3, <4>1
      <4>5. CASE i + 1 <= Len(r)
        BY <4>2, <4>3, <4>4, <4>5
      <4>6. CASE ~(i + 1 <= Len(r))
        BY <4>2, <4>3, <4>4, <4>6
      <4> QED
        BY <4>5, <4>6
    <3> QED
      BY <3>1, <3>3, <3>4, <3>5, SeqEqual
  <2> QED
    BY <2>1, <2>4, <2>5, <2>6
<1> QED
  BY <1>3

\* The numbers of the stages, in order.
LEMMA Stages ==
  ASSUME TypeOK
  PROVE  /\ Len(out.items) \in Nat /\ Len(final.items) \in Nat /\ Len(blocks.items) \in Nat
         /\ Held(finalizer) \in {0, 1} /\ Held(processor) \in {0, 1}
         /\ Held(deserializer) \in {0, 1}
         /\ client.last \in Int /\ ship.next \in Int
         /\ OutHi \in Int /\ FinHi \in Int /\ FinalHi \in Int /\ ProcHi \in Int
         /\ BlocksHi \in Int /\ DeserHi \in Int
         /\ client.last <= OutHi /\ OutHi <= FinHi /\ FinHi <= FinalHi /\ FinalHi <= ProcHi
         /\ ProcHi <= BlocksHi /\ BlocksHi <= DeserHi
<1>1. Len(out.items) \in Nat /\ Len(final.items) \in Nat /\ Len(blocks.items) \in Nat
  BY ChannelFields, Capacities DEF TypeOK
<1>2. /\ Held(finalizer) \in {0, 1} /\ Held(processor) \in {0, 1}
      /\ Held(deserializer) \in {0, 1}
  BY DEF Held
<1>3. client.last \in Int /\ ship.next \in Int
  BY DEF TypeOK, Clients, Ships
<1>4. ASSUME NEW a \in Int, NEW b \in Nat PROVE a + b \in Int /\ a <= a + b
  OBVIOUS
<1>5. OutHi \in Int /\ client.last <= OutHi
  BY <1>1, <1>3, <1>4 DEF OutHi
<1>6. FinHi \in Int /\ OutHi <= FinHi
  BY <1>2, <1>4, <1>5 DEF FinHi
<1>7. FinalHi \in Int /\ FinHi <= FinalHi
  BY <1>1, <1>4, <1>6 DEF FinalHi
<1>8. ProcHi \in Int /\ FinalHi <= ProcHi
  BY <1>2, <1>4, <1>7 DEF ProcHi
<1>9. BlocksHi \in Int /\ ProcHi <= BlocksHi
  BY <1>1, <1>4, <1>8 DEF BlocksHi
<1>10. DeserHi \in Int /\ BlocksHi <= DeserHi
  BY <1>2, <1>4, <1>9 DEF DeserHi
<1> QED
  BY <1>1, <1>2, <1>3, <1>5, <1>6, <1>7, <1>8, <1>9, <1>10

\* Above the deserializer nothing but what is pending changes.
LEMMA UpstreamStep ==
  ASSUME TypeOK, DeliveryInv,
         UNCHANGED <<blocks, final, out, deserializer, processor, finalizer, client>>,
         ship'.next \in Int, ship'.next <= StopBlock + 1, ship.next <= ship'.next,
         Flowing => /\ NothingDropped'
                    /\ ~Ended(deserializer) => Run(Pending', DeserHi, ship'.next - 1)
  PROVE  DeliveryInv'
<1>1. /\ OutHi' = OutHi /\ FinHi' = FinHi /\ FinalHi' = FinalHi /\ ProcHi' = ProcHi
      /\ BlocksHi' = BlocksHi /\ DeserHi' = DeserHi /\ Flowing' = Flowing
  BY DEF OutHi, FinHi, FinalHi, ProcHi, BlocksHi, DeserHi, Held, Flowing
<1>2. client.at = "recv" => OutHi <= ship'.next - 1
  BY Stages DEF DeliveryInv
<1>3. Flowing => DeserHi <= ship'.next - 1
  BY Stages DEF DeliveryInv, FlowInv
<1>4. Flowing => FlowInv'
  BY <1>1, <1>3 DEF DeliveryInv, FlowInv, Ended
<1> QED
  BY <1>1, <1>2, <1>4 DEF DeliveryInv

\* What was left on a websocket whose reading failed stays there, and what the node
\* still sends comes behind it.
LEMMA LeftGrows ==
  ASSUME TypeOK, Ship \/ ShipEmptyResult \/ ShipCloses, NEW num \in Int, LeftFrom(num)
  PROVE  ws'.failed /\ num <= ship'.next - 1 /\ Run(ws'.items, num, ship'.next - 1)
<1>0. /\ ws \in [items : Seq(Messages), open : BOOLEAN, failed : BOOLEAN] /\ ship \in Ships
      /\ ws.items \in Seq(Messages) /\ ship.next \in Int /\ ship.next - 1 \in Int
  BY DEF TypeOK, Ships
<1>1. ws.failed /\ num <= ship.next - 1 /\ Run(ws.items, num, ship.next - 1)
  BY DEF LeftFrom
<1>t. /\ \A n \in Int : \A kind \in {"abi", "status", "block", "empty"} :
           /\ Message(kind, n) \in Messages /\ Message(kind, n).kind = kind
           /\ Message(kind, n).num = n
      /\ None \in Int
  BY NoneIsInt DEF Message, Messages
<1>m. ASSUME NEW m \in Messages, ShipSends(m)
      PROVE  ws'.items = Append(ws.items, m) /\ ws'.failed = ws.failed
  BY <1>0, <1>m DEF ShipSends
<1>2. CASE ShipAbi \/ ShipStatus \/ ShipEmptyResult
  <2>1. PICK m \in Messages : ShipSends(m) /\ m.kind # "block"
    BY <1>2, <1>t DEF ShipAbi, ShipStatus, ShipEmptyResult
  <2>2. ship'.next = ship.next
    BY <1>0, <1>2 DEF ShipAbi, ShipStatus, ShipEmptyResult, Ships
  <2> QED
    BY <1>0, <1>1, <1>m, <2>1, <2>2, RunAppend
<1>3. CASE ShipBlock
  <2>1. ShipSends(Message("block", ship.next)) /\ ship'.next = ship.next + 1
    BY <1>0, <1>3 DEF ShipBlock, Ships
  <2>2. ship.next = (ship.next - 1) + 1 /\ ship'.next - 1 = (ship.next - 1) + 1
    BY <1>0, <2>1
  <2>3. /\ Message("block", ship.next) \in Messages
        /\ Message("block", ship.next).kind = "block"
        /\ Message("block", ship.next).num = (ship.next - 1) + 1
    BY <1>0, <1>t, <2>2
  <2>4. ws'.items = Append(ws.items, Message("block", ship.next)) /\ ws'.failed = ws.failed
    BY <1>m, <2>1, <2>3
  <2>5. Run(ws'.items, num, (ship.next - 1) + 1)
    BY <1>0, <1>1, <2>3, <2>4, RunAppend
  <2>6. num <= (ship.next - 1) + 1
    BY <1>0, <1>1
  <2> QED
    BY <1>1, <2>2, <2>4, <2>5, <2>6
<1>4. CASE ShipCloses
  <2>1. ws'.items = ws.items /\ ws'.failed = ws.failed /\ ship' = ship
    BY <1>0, <1>4 DEF ShipCloses
  <2> QED
    BY <1>1, <2>1
<1> QED
  BY <1>2, <1>3, <1>4 DEF Ship

\* The node sends the next block behind the others.
LEMMA DeliveryShip ==
  ASSUME TypeOK, TypeOK', PhaseInv, DeliveryInv, Ship \/ ShipEmptyResult \/ ShipCloses
  PROVE  DeliveryInv'
<1>0. /\ UNCHANGED <<raw, blocks, final, out, reader, deserializer, processor, finalizer, client>>
      /\ ship \in Ships /\ ws \in [items : Seq(Messages), open : BOOLEAN, failed : BOOLEAN] /\ reader \in Readers
      /\ raw.items \in Seq(Messages) /\ ws.items \in Seq(Messages)
  BY WaitingSize DEF TypeOK, Ship, ShipAbi, ShipStatus, ShipBlock, ShipEmptyResult, ShipCloses,
     channels, tasks
<1>i. InHand \in Seq(Messages) /\ Pending \in Seq(Messages) /\ InHand' = InHand
  <2>1. reader.msg \in Messages
    BY <1>0 DEF Readers
  <2>2. InHand \in Seq(Messages)
    BY <2>1, EmptySeq DEF InHand
  <2> QED
    BY <1>0, <2>2, ConcatProperties DEF Pending, InHand
<1>m. ASSUME NEW m \in Messages, ShipSends(m)
      PROVE  Pending' = Append(Pending, m)
  <2>1. ws'.items = Append(ws.items, m)
    BY <1>0, <1>m DEF ShipSends
  <2>2. Pending' = (raw.items \o InHand) \o Append(ws.items, m)
    BY <1>0, <1>i, <2>1 DEF Pending
  <2> QED
    <3>1. (raw.items \o InHand) \o Append(ws.items, m)
            = Append((raw.items \o InHand) \o ws.items, m)
      <4>1. raw.items \o InHand \in Seq(Messages)
        BY <1>0, <1>i, ConcatProperties
      <4> QED
        BY <1>0, <4>1, AppendBehind
    <3>2. Pending = (raw.items \o InHand) \o ws.items
      BY DEF Pending
    <3> QED
      BY <2>2, <3>1, <3>2
<1>n. /\ ship.next \in Int /\ DeserHi \in Int /\ ship.next - 1 \in Int
      /\ ship.next <= StopBlock + 1 /\ StopBlock \in Nat
  BY Stages, PipelineAssumption DEF DeliveryInv
<1>t. /\ \A num \in Int : \A kind \in {"abi", "status", "block", "empty"} :
           /\ Message(kind, num) \in Messages /\ Message(kind, num).kind = kind
           /\ Message(kind, num).num = num
      /\ None \in Int
  BY NoneIsInt DEF Message, Messages
<1>f. Flowing /\ ~Ended(deserializer) =>
        DeserHi <= ship.next - 1 /\ Run(Pending, DeserHi, ship.next - 1)
  BY DEF DeliveryInv, FlowInv
<1>d. DeserHi' = DeserHi /\ (LeftFrom(DeserHi) => LeftFrom(DeserHi)')
  <2>1. DeserHi' = DeserHi
    BY <1>0 DEF OutHi, FinHi, FinalHi, ProcHi, BlocksHi, DeserHi, Held
  <2>2. ASSUME LeftFrom(DeserHi)
        PROVE  ws'.failed /\ DeserHi <= ship'.next - 1 /\ Run(ws'.items, DeserHi, ship'.next - 1)
    BY <1>n, <2>2, LeftGrows
  <2> QED
    BY <2>1, <2>2 DEF LeftFrom
<1>w. ws'.failed = ws.failed
  BY <1>0
  DEF Ship, ShipAbi, ShipStatus, ShipBlock, ShipEmptyResult, ShipCloses, ShipSends
<1>a. ASSUME ws.open \/ (ship' = ship /\ ws'.items = ws.items /\ ~ws'.open)
      PROVE  Flowing => NothingDropped'
  BY <1>0, <1>a, <1>d, <1>w DEF DeliveryInv, NothingDropped, Ended
<1>1. CASE ShipAbi \/ ShipStatus \/ ShipEmptyResult
  <2>1. PICK m \in Messages : ShipSends(m) /\ m.kind # "block"
    BY <1>1, <1>t DEF ShipAbi, ShipStatus, ShipEmptyResult
  <2>2. ship'.next = ship.next
    BY <1>0, <1>1 DEF ShipAbi, ShipStatus, ShipEmptyResult, Ships
  <2>3. Flowing /\ ~Ended(deserializer) => Run(Pending', DeserHi, ship'.next - 1)
    BY <1>f, <1>i, <1>m, <1>n, <2>1, <2>2, RunAppend
  <2>4. Flowing => NothingDropped'
    <3>1. ws.open
      BY <1>1 DEF ShipAbi, ShipStatus, ShipEmptyResult
    <3> QED
      BY <1>a, <3>1
  <2> QED
    BY <1>0, <1>n, <2>2, <2>3, <2>4, UpstreamStep
<1>2. CASE ShipBlock
  <2>1. /\ ShipSends(Message("block", ship.next)) /\ ws.open
        /\ ship'.next = ship.next + 1 /\ ship.next <= StopBlock
    BY <1>0, <1>2 DEF ShipBlock, Ships
  <2>2. Pending' = Append(Pending, Message("block", ship.next))
    BY <1>m, <1>n, <1>t, <2>1
  <2>3. Flowing /\ ~Ended(deserializer) => Run(Pending', DeserHi, (ship.next - 1) + 1)
    <3>1. ship.next = (ship.next - 1) + 1
      BY <1>n
    <3> QED
      BY <1>f, <1>i, <1>n, <1>t, <2>2, <3>1, RunAppend
  <2>4. ship'.next - 1 = (ship.next - 1) + 1 /\ ship'.next \in Int
        /\ ship'.next <= StopBlock + 1 /\ ship.next <= ship'.next
    BY <1>n, <2>1
  <2>5. Flowing => NothingDropped'
    BY <1>a, <2>1
  <2> QED
    BY <1>0, <2>3, <2>4, <2>5, UpstreamStep
<1>3. CASE ShipCloses
  <2>1. /\ ws'.items = ws.items /\ ws'.open = FALSE /\ ship' = ship
    BY <1>0, <1>3 DEF ShipCloses
  <2>2. Pending' = Pending
    BY <1>0, <1>i, <2>1 DEF Pending
  <2>3. Flowing => NothingDropped'
    BY <1>a, <2>1
  <2> QED
    BY <1>0, <1>f, <1>n, <2>1, <2>2, <2>3, UpstreamStep
<1> QED
  BY <1>1, <1>2, <1>3 DEF Ship

\* ship_reader keeps the messages in order, and drops some only when it is told to.
LEMMA DeliveryReader ==
  ASSUME TypeOK, EndsInv, StopInv, DeliveryInv, Reader
  PROVE  DeliveryInv'
<1>0. /\ UNCHANGED <<ship, blocks, final, out, deserializer, processor, finalizer, client>>
      /\ ws \in [items : Seq(Messages), open : BOOLEAN, failed : BOOLEAN] /\ reader \in Readers
      /\ raw \in Channel(Messages, RawCap)
      /\ raw.items \in Seq(Messages) /\ ws.items \in Seq(Messages) /\ reader.msg \in Messages
  BY WaitingSize DEF TypeOK, Reader, ReaderReceives, ReaderSends, ReaderStops, channels, Readers
<1>d. DeserHi' = DeserHi
  BY <1>0 DEF OutHi, FinHi, FinalHi, ProcHi, BlocksHi, DeserHi, Held
<1>n. ship'.next \in Int /\ ship'.next <= StopBlock + 1 /\ ship.next <= ship'.next
  BY <1>0, Stages DEF DeliveryInv
<1>f. Flowing => /\ NothingDropped
                 /\ ~Ended(deserializer) => Run(Pending, DeserHi, ship.next - 1)
  BY DEF DeliveryInv, FlowInv
<1> SUFFICES ASSUME Flowing
             PROVE  /\ NothingDropped'
                    /\ ~Ended(deserializer) => Pending' = Pending
  BY <1>0, <1>f, <1>n, UpstreamStep
<1>1. CASE ReaderReceives
  <2>1. /\ reader.at = "read" /\ ws.items # << >> /\ raw' = raw
        /\ ws'.items = Tail(ws.items) /\ ws'.open = ws.open
        /\ reader' = IF IsClosed(raw) THEN reader ELSE [at |-> "send", msg |-> Head(ws.items)]
    BY <1>0, <1>1 DEF ReaderReceives, channels
  <2>2. ~Ended(reader) /\ ~Ended(reader')
    BY <2>1 DEF Ended
  <2>3. NothingDropped'
    BY <1>0, <1>d, <1>f, <2>1, <2>2 DEF NothingDropped, LeftFrom, EndsInv, Ended
  <2>4. ASSUME ~Ended(deserializer) PROVE Pending' = Pending
    <3>1. InHand = << >> /\ InHand' = <<Head(ws.items)>>
      BY <2>1, <2>4 DEF InHand, EndsInv, IsClosed
    <3> QED
      BY <1>0, <2>1, <3>1, QueuesMove DEF Pending
  <2> QED
    BY <2>3, <2>4
<1>2. CASE ReaderSends
  <2>1. /\ reader.at = "send" /\ reader' = [at |-> "read", msg |-> NoMessage] /\ ws' = ws
        /\ raw'.items = Append(raw.items, reader.msg)
    BY <1>0, <1>2, PutChannel, Capacities DEF ReaderSends
  <2>2. ~Ended(reader) /\ ~Ended(reader')
    BY <2>1 DEF Ended
  <2>3. NothingDropped'
    BY <1>0, <1>d, <1>f, <2>1, <2>2 DEF NothingDropped, LeftFrom, EndsInv, Ended
  <2>4. InHand = <<reader.msg>> /\ InHand' = << >>
    BY <2>1 DEF InHand
  <2> QED
    BY <1>0, <2>1, <2>3, <2>4, QueuesMove DEF Pending
<1>3. CASE ReaderStops
  <2>1. /\ reader' = [at |-> "ok", msg |-> NoMessage] /\ raw'.items = raw.items
        /\ ws'.items = << >> /\ ws'.open = ws.open
    BY <1>0, <1>3, DroppedChannel, Capacities DEF ReaderStops, ReaderEnds
  <2>2. stop = 0
    BY DEF StopInv, Flowing, Ended, TypeOK
  <2>3. ~Ended(deserializer) => reader.at = "read" /\ ~ws.open /\ ws.items = << >>
    BY <1>3, <2>2 DEF ReaderStops, EndsInv, IsClosed
  <2>4. NothingDropped'
    <3>1. ~ws.failed
      BY <1>3 DEF ReaderStops, EndsInv, Ended
    <3> QED
      BY <1>0, <1>d, <1>f, <2>1, <2>3, <3>1 DEF NothingDropped, LeftFrom, Ended
  <2>5. ~Ended(deserializer) => Pending' = Pending
    BY <2>1, <2>3 DEF Pending, InHand
  <2> QED
    BY <2>4, <2>5
<1> QED
  BY <1>1, <1>2, <1>3 DEF Reader

\* After a failed read nothing on the way is lost yet, but the deserializer will see
\* only what is in its channel.
LEMMA DeliveryReadFails ==
  ASSUME TypeOK, EndsInv, DeliveryInv, ReaderFails
  PROVE  DeliveryInv'
<1>1. /\ UNCHANGED <<ship, blocks, final, out, deserializer, processor, finalizer, client>>
      /\ ws'.items = ws.items /\ ws'.failed /\ reader.at = "read" /\ reader'.at = "ok"
      /\ raw'.items = raw.items /\ raw.tx
  BY ReadFailure DEF EndsInv, Ended
<1>2. Pending' = Pending
  BY <1>1 DEF Pending, InHand
<1>3. DeserHi' = DeserHi
  BY <1>1 DEF OutHi, FinHi, FinalHi, ProcHi, BlocksHi, DeserHi, Held
<1>4. Flowing => NothingDropped'
  <2>1. Flowing => NothingDropped
    BY DEF DeliveryInv
  <2>2. LeftFrom(DeserHi) => LeftFrom(DeserHi)'
    BY <1>1, <1>3 DEF LeftFrom
  <2>3. ~Ended(reader) /\ ~ws.failed
    BY <1>1 DEF EndsInv, Ended
  <2>4. ~ws.open => ~ws'.open
    BY ReadFailure
  <2> QED
    BY <1>1, <1>3, <2>1, <2>2, <2>3, <2>4 DEF NothingDropped, Ended
<1>5. Flowing /\ ~Ended(deserializer) => Run(Pending', DeserHi, ship'.next - 1)
  BY <1>1, <1>2 DEF DeliveryInv, FlowInv
<1>6. ship'.next \in Int /\ ship'.next <= StopBlock + 1 /\ ship.next <= ship'.next
  BY <1>1, Stages DEF DeliveryInv
<1> QED
  BY <1>1, <1>4, <1>5, <1>6, UpstreamStep

LEMMA DeliveryDeserializer ==
  ASSUME TypeOK, TypeOK', PhaseInv, EndsInv, DeliveryInv, Deserializer
  PROVE  DeliveryInv'
<1>0. /\ UNCHANGED <<ws, final, out, reader, processor, finalizer, client>>
      /\ deserializer \in Deserializers /\ raw \in Channel(Messages, RawCap)
      /\ ship \in Ships /\ reader \in Readers /\ blocks \in Channel(Int, BlockCap)
      /\ raw.items \in Seq(Messages) /\ ws.items \in Seq(Messages) /\ reader.msg \in Messages
      /\ blocks.items \in Seq(Int)
  BY WaitingSize, ChannelFields, Capacities
  DEF TypeOK, Deserializer, DeserializeAbi, DeserializeStatus, DeserializeBlock,
     DeserializeEmpty, DeserializerSends, DeserializerAcks, DeserializerStops,
     DeserializerEnds, channels, tasks, Readers
<1>s. ship'.next = ship.next
  BY <1>0 DEF Deserializer, DeserializeAbi, DeserializeStatus, DeserializeBlock,
     DeserializeEmpty, DeserializerSends, DeserializerAcks, DeserializerStops,
     DeserializerEnds, Requested, Ships
<1>h. /\ OutHi' = OutHi /\ FinHi' = FinHi /\ FinalHi' = FinalHi /\ ProcHi' = ProcHi
      /\ Flowing' = Flowing
  BY <1>0 DEF OutHi, FinHi, FinalHi, ProcHi, Held, Flowing
<1>f. Flowing => NothingDropped /\ FlowInv
  BY DEF DeliveryInv
<1>n. /\ DeserHi \in Int /\ BlocksHi \in Int /\ ProcHi \in Int /\ ship.next - 1 \in Int
      /\ Len(blocks.items) \in Nat /\ BlocksHi <= DeserHi
  BY Stages
<1> SUFFICES ASSUME Flowing
             PROVE  /\ NothingDropped'
                    /\ Numbers(blocks'.items, ProcHi)
                    /\ deserializer'.at = "send" => deserializer'.block = DeserHi'
                    /\ DeserHi' <= ship.next - 1
                    /\ ~Ended(deserializer') => Run(Pending', DeserHi', ship.next - 1)
  <2>1. Flowing => NothingDropped' /\ FlowInv'
    BY <1>0, <1>f, <1>h, <1>s DEF FlowInv
  <2> QED
    BY <1>0, <1>h, <1>s, <2>1 DEF DeliveryInv
<1>p. InHand \in Seq(Messages) /\ InHand' = InHand /\ Pending \in Seq(Messages)
  <2>1. InHand \in Seq(Messages)
    BY <1>0, EmptySeq DEF InHand
  <2> QED
    BY <1>0, <2>1, ConcatProperties DEF Pending, InHand
\* The first message is taken.
<1>t. ASSUME Ready(raw), raw' = Taken(raw)
      PROVE  Pending # << >> /\ Head(Pending) = Head(raw.items) /\ Pending' = Tail(Pending)
  <2>1. raw.items # << >> /\ raw'.items = Tail(raw.items)
    BY <1>0, <1>t, TakenChannel, Capacities DEF Ready
  <2>2. Pending' = (Tail(raw.items) \o InHand) \o ws.items
    BY <1>0, <1>p, <2>1 DEF Pending
  <2> QED
    BY <1>0, <1>p, <2>1, <2>2, TailInFront DEF Pending
\* While the deserializer goes on, what was not dropped is still not dropped.
<1>k. ASSUME ~Ended(deserializer), ~Ended(deserializer'), blocks'.items = blocks.items
             \/ ~Ended(processor)
      PROVE  NothingDropped'
  BY <1>0, <1>f, <1>k DEF NothingDropped, Ended
\* A message without a block.
<1>e. ASSUME Ready(raw), raw' = Taken(raw), Head(raw.items).kind # "block", blocks' = blocks,
             deserializer.at # "send", ~Ended(deserializer), ~Ended(deserializer'),
             deserializer'.at # "send"
      PROVE  /\ NothingDropped'
             /\ Numbers(blocks'.items, ProcHi)
             /\ deserializer'.at = "send" => deserializer'.block = DeserHi'
             /\ DeserHi' <= ship.next - 1
             /\ ~Ended(deserializer') => Run(Pending', DeserHi', ship.next - 1)
  <2>1. DeserHi' = DeserHi
    BY <1>e, <1>h DEF DeserHi, BlocksHi, Held
  <2>2. Run(Pending', DeserHi, ship.next - 1)
    <3>1. Run(Pending, DeserHi, ship.next - 1)
      BY <1>e, <1>f DEF FlowInv
    <3>2. /\ Pending # << >> /\ Head(Pending).kind # "block" /\ Pending' = Tail(Pending)
      BY <1>e, <1>t
    <3> QED
      BY <1>n, <1>p, <3>1, <3>2, RunTail
  <2> QED
    BY <1>e, <1>f, <1>k, <2>1, <2>2 DEF FlowInv
<1>1. CASE DeserializeAbi
  <2>1. /\ Ready(raw) /\ raw' = Taken(raw) /\ blocks' = blocks
        /\ deserializer.at = "abi" /\ deserializer'.at = "recv"
    BY <1>0, <1>1 DEF DeserializeAbi, Deserializers
  <2>2. Head(raw.items).kind # "block"
    <3>1. KindsIn({"abi", "status"})
      BY <2>1 DEF PhaseInv
    <3>2. Head(raw.items) = raw.items[1] /\ 1 \in 1..Len(raw.items)
      BY <1>0, <2>1, WaitingSize DEF Ready
    <3> QED
      BY <3>1, <3>2 DEF KindsIn
  <2> QED
    BY <1>e, <2>1, <2>2 DEF Ended
<1>2. CASE DeserializeStatus
  <2>1. /\ Ready(raw) /\ raw' = Taken(raw) /\ blocks' = blocks
        /\ deserializer.at = "recv" /\ deserializer' = deserializer
        /\ Head(raw.items).kind = "status"
    BY <1>2 DEF DeserializeStatus, tasks
  <2> QED
    BY <1>e, <2>1 DEF Ended
<1>3. CASE DeserializeBlock
  <2>1. /\ Ready(raw) /\ raw' = Taken(raw) /\ blocks' = blocks
        /\ deserializer.at = "recv" /\ Head(raw.items).kind = "block"
    BY <1>3 DEF DeserializeBlock
  <2>2. ~IsClosed(blocks)
    BY <1>f, <2>1 DEF NothingDropped, EndsInv, IsClosed, Ended
  <2>3. deserializer'.at = "send" /\ deserializer'.block = Head(raw.items).num
    BY <1>3, <2>2 DEF DeserializeBlock
  <2>4. /\ Head(raw.items).num = DeserHi + 1 /\ DeserHi + 1 <= ship.next - 1
        /\ Run(Pending', DeserHi + 1, ship.next - 1)
    BY <1>f, <1>n, <1>p, <1>t, <2>1, RunTail DEF FlowInv, Ended
  <2>5. DeserHi' = DeserHi + 1
    <3>1. Held(deserializer) = 0 /\ Held(deserializer') = 1 /\ BlocksHi' = BlocksHi
      BY <1>h, <2>1, <2>3 DEF Held, BlocksHi
    <3> QED
      BY <1>n, <3>1 DEF DeserHi
  <2>6. NothingDropped'
    BY <1>k, <2>1, <2>3 DEF Ended
  <2> QED
    BY <1>f, <2>1, <2>3, <2>4, <2>5, <2>6 DEF FlowInv
<1>4. CASE DeserializeEmpty
  <2>1. /\ Ready(raw) /\ raw' = Taken(raw) /\ blocks' = blocks
        /\ deserializer.at = "recv" /\ deserializer'.at = "recv"
        /\ Head(raw.items).kind = "empty"
    BY <1>0, <1>4 DEF DeserializeEmpty, Deserializers
  <2> QED
    BY <1>e, <2>1 DEF Ended
<1>5. CASE DeserializerSends
  <2>1. /\ deserializer.at = "send" /\ deserializer'.at \in {"ack", "recv"} /\ raw' = raw
        /\ deserializer.block \in Int /\ HasRoom(blocks, BlockCap)
        /\ blocks'.items = Append(blocks.items, deserializer.block)
        /\ Len(blocks'.items) = Len(blocks.items) + 1
    <3>1. /\ deserializer.at = "send" /\ deserializer'.at \in {"ack", "recv"} /\ raw' = raw
          /\ deserializer.block \in Int
      BY <1>0, <1>5 DEF DeserializerSends, Deserializers
    <3>2. HasRoom(blocks, BlockCap) /\ blocks' = Put(blocks, deserializer.block)
      BY <1>5 DEF DeserializerSends
    <3> QED
      BY <1>0, <3>1, <3>2, PutChannel, Capacities
  <2>2. /\ DeserHi = BlocksHi + 1 /\ DeserHi' = BlocksHi'
    <3>1. Held(deserializer) = 1 /\ Held(deserializer') = 0
      BY <2>1 DEF Held
    <3>2. BlocksHi' \in Int
      <4>1. Len(blocks'.items) \in Nat
        BY <1>n, <2>1
      <4> QED
        BY <1>h, <1>n, <4>1 DEF BlocksHi
    <3> QED
      <4>1. DeserHi = BlocksHi + Held(deserializer) /\ DeserHi' = BlocksHi' + Held(deserializer')
        BY DEF DeserHi
      <4>2. DeserHi = BlocksHi + 1 /\ DeserHi' = BlocksHi' + 0
        BY <3>1, <4>1
      <4>3. \A b \in Int : b + 0 = b
        OBVIOUS
      <4> QED
        BY <3>2, <4>2, <4>3
  <2>3. BlocksHi' = BlocksHi + 1
    <3>1. BlocksHi' = ProcHi + (Len(blocks.items) + 1) /\ BlocksHi = ProcHi + Len(blocks.items)
      BY <1>h, <2>1 DEF BlocksHi
    <3> QED
      BY <1>n, <3>1
  <2>4. deserializer.block = ProcHi + Len(blocks.items) + 1
    BY <1>f, <2>1, <2>2 DEF FlowInv, BlocksHi
  <2>5. Numbers(blocks'.items, ProcHi)
    BY <1>0, <1>f, <1>n, <2>1, <2>4, NumbersInRow DEF FlowInv
  <2>6. ~Ended(processor)
    BY <1>f, <2>1 DEF NothingDropped, Ended
  <2>7. NothingDropped'
    BY <1>k, <2>1, <2>6 DEF Ended
  <2>8. Pending' = Pending
    BY <1>0, <1>p, <2>1 DEF Pending
  <2> QED
    BY <1>f, <2>1, <2>2, <2>3, <2>5, <2>7, <2>8 DEF FlowInv, Ended
<1>6. CASE DeserializerAcks
  <2>1. /\ deserializer.at = "ack" /\ deserializer'.at = "recv" /\ raw' = raw
        /\ blocks' = blocks
    BY <1>0, <1>6 DEF DeserializerAcks, Deserializers, channels
  <2>2. DeserHi' = DeserHi
    BY <1>h, <2>1 DEF DeserHi, BlocksHi, Held
  <2>3. Pending' = Pending
    BY <1>0, <1>p, <2>1 DEF Pending
  <2> QED
    BY <1>f, <1>k, <2>1, <2>2, <2>3 DEF FlowInv, Ended
<1>7. CASE DeserializerStops
  <2>1. PICK result \in {"ok", "err"} :
          DeserializerEnds(result) /\ (result = "ok" => deserializer.at = "recv" /\ Exhausted(raw))
    BY <1>7 DEF DeserializerStops
  <2>2. /\ deserializer'.at = result /\ blocks'.items = blocks.items
        /\ ship' = ship
    BY <1>0, <2>1, DroppedChannel, Capacities DEF DeserializerEnds
  <2>3. DeserHi' = BlocksHi
    <3>1. Held(deserializer') = 0 /\ BlocksHi' = BlocksHi
      BY <1>h, <2>2 DEF Held, BlocksHi
    <3> QED
      BY <1>n, <3>1 DEF DeserHi
  <2>4. DeserHi' <= ship.next - 1
    BY <1>f, <1>n, <2>3 DEF FlowInv
  <2>5. ASSUME result = "ok"
        PROVE  (~ws.open /\ DeserHi' = ship.next - 1) \/ LeftFrom(DeserHi)'
    <3>1. deserializer.at = "recv" /\ ~raw.tx /\ raw.items = << >>
      BY <2>1, <2>5 DEF Exhausted
    <3>2. Ended(reader) /\ ((~ws.open /\ ws.items = << >>) \/ ws.failed)
      BY <1>f, <3>1 DEF EndsInv, NothingDropped, Ended
    <3>3. Pending = ws.items
      <4>1. InHand = << >>
        BY <3>2 DEF InHand, Ended
      <4>2. << >> \o << >> = << >>
        BY EmptySeq, ConcatEmptySeq
      <4>3. << >> \o ws.items = ws.items
        BY <1>0, ConcatEmptySeq
      <4> QED
        BY <3>1, <4>1, <4>2, <4>3 DEF Pending
    <3>4. Run(ws.items, DeserHi, ship.next - 1) /\ DeserHi <= ship.next - 1
      BY <1>f, <3>1, <3>3 DEF FlowInv, Ended
    <3>5. DeserHi = BlocksHi
      BY <1>n, <3>1 DEF DeserHi, Held
    <3>6. CASE ~ws.open /\ ws.items = << >>
      <4>1. ship.next - 1 <= DeserHi
        BY <1>n, <3>4, <3>6, RunEmpty
      <4> QED
        BY <1>n, <2>3, <2>4, <3>5, <3>6, <4>1
    <3>7. CASE ws.failed
      <4>1. DeserHi' = DeserHi /\ ws' = ws
        BY <1>0, <2>3, <3>5
      <4> QED
        BY <2>2, <3>4, <3>7, <4>1 DEF LeftFrom
    <3> QED
      BY <3>2, <3>6, <3>7
  <2>6. NothingDropped'
    BY <1>0, <1>f, <2>1, <2>2, <2>5 DEF NothingDropped, Ended
  <2> QED
    BY <1>f, <2>1, <2>2, <2>4, <2>6 DEF FlowInv, Ended
<1> QED
  BY <1>1, <1>2, <1>3, <1>4, <1>5, <1>6, <1>7 DEF Deserializer

LEMMA DeliveryProcessor ==
  ASSUME TypeOK, TypeOK', EndsInv, DeliveryInv, Processor
  PROVE  DeliveryInv'
<1>0. /\ UNCHANGED <<ship, ws, raw, out, reader, deserializer, finalizer, client>>
      /\ processor \in Processors /\ processor.block \in Int
      /\ blocks \in Channel(Int, BlockCap) /\ final \in Channel(Int, FinalCap)
      /\ blocks.items \in Seq(Int) /\ final.items \in Seq(Int)
  BY ChannelFields, Capacities
  DEF TypeOK, Processor, ProcessorReceives, ProcessorSends, ProcessorStops, Processors
<1>h. /\ OutHi' = OutHi /\ FinHi' = FinHi /\ Flowing' = Flowing /\ Pending' = Pending
  BY <1>0 DEF OutHi, FinHi, Held, Flowing, Pending, InHand
<1>f. Flowing => NothingDropped /\ FlowInv
  BY DEF DeliveryInv
<1>n. /\ FinHi \in Int /\ FinalHi \in Int /\ ProcHi \in Int /\ BlocksHi \in Int
      /\ Len(final.items) \in Nat /\ Len(blocks.items) \in Nat
  BY Stages
<1>q. /\ FinalHi = FinHi + Len(final.items) /\ FinalHi' = FinHi + Len(final'.items)
      /\ ProcHi = FinalHi + Held(processor) /\ ProcHi' = FinalHi' + Held(processor')
      /\ BlocksHi = ProcHi + Len(blocks.items) /\ BlocksHi' = ProcHi' + Len(blocks'.items)
  BY <1>h DEF FinalHi, ProcHi, BlocksHi
<1> SUFFICES ASSUME Flowing
             PROVE  /\ Ended(processor') => Ended(deserializer) /\ blocks'.items = << >>
                    /\ Numbers(final'.items, FinHi)
                    /\ processor'.at = "send" => processor'.block = ProcHi'
                    /\ Numbers(blocks'.items, ProcHi')
                    /\ BlocksHi' = BlocksHi
  <2>1. BlocksHi' = BlocksHi => DeserHi' = DeserHi
    BY <1>0 DEF DeserHi
  <2>2. Flowing => NothingDropped' /\ FlowInv'
    BY <1>0, <1>f, <1>h, <2>1 DEF FlowInv, NothingDropped, LeftFrom, Ended
  <2> QED
    BY <1>0, <1>h, <2>2 DEF DeliveryInv
<1>g. ~Ended(finalizer)
  BY DEF Flowing, Ended
<1>1. CASE ProcessorReceives
  <2>1. /\ processor.at = "recv" /\ final' = final /\ Ready(blocks)
        /\ blocks'.items = Tail(blocks.items) /\ Len(blocks'.items) = Len(blocks.items) - 1
    BY <1>0, <1>1, TakenChannel, Capacities DEF ProcessorReceives
  <2>2. processor' = [at |-> "send", block |-> Head(blocks.items)]
    BY <1>1, <1>g DEF ProcessorReceives, EndsInv, IsClosed
  <2>3. Head(blocks.items) = ProcHi + 1 /\ Numbers(blocks'.items, ProcHi + 1)
    BY <1>0, <1>f, <1>n, <2>1, NumbersInRow DEF FlowInv, Ready
  <2>4. FinalHi' = FinalHi /\ Held(processor) = 0 /\ Held(processor') = 1
    BY <1>q, <2>1, <2>2 DEF Held
  <2>5. ProcHi' = ProcHi + 1
    BY <1>n, <1>q, <2>4
  <2>6. BlocksHi' = BlocksHi
    <3>1. \A p, l \in Int : (p + 1) + (l - 1) = p + l
      OBVIOUS
    <3> QED
      BY <1>n, <1>q, <2>1, <2>5, <3>1
  <2> QED
    BY <1>f, <2>1, <2>2, <2>3, <2>5, <2>6 DEF FlowInv, Ended
<1>2. CASE ProcessorSends
  <2>1. /\ processor.at = "send" /\ processor' = [at |-> "recv", block |-> None]
        /\ blocks' = blocks /\ HasRoom(final, FinalCap) /\ final' = Put(final, processor.block)
    BY <1>2 DEF ProcessorSends
  <2>2. /\ final'.items = Append(final.items, processor.block)
        /\ Len(final'.items) = Len(final.items) + 1
    BY <1>0, <2>1, PutChannel, Capacities
  <2>3. Held(processor) = 1 /\ Held(processor') = 0
    BY <2>1 DEF Held
  <2>4. FinalHi' = FinalHi + 1 /\ ProcHi = FinalHi + 1
    BY <1>n, <1>q, <2>2, <2>3
  <2>5. ProcHi' = ProcHi
    BY <1>n, <1>q, <2>3, <2>4
  <2>6. processor.block = FinHi + Len(final.items) + 1
    BY <1>f, <1>q, <2>1, <2>4 DEF FlowInv
  <2>7. Numbers(final'.items, FinHi)
    BY <1>0, <1>f, <1>n, <2>2, <2>6, NumbersInRow DEF FlowInv
  <2>8. BlocksHi' = BlocksHi
    BY <1>q, <2>1, <2>5
  <2> QED
    BY <1>f, <2>1, <2>5, <2>7, <2>8 DEF FlowInv, Ended
<1>3. CASE ProcessorStops
  <2>1. /\ processor' = [at |-> "ok", block |-> None] /\ final'.items = final.items
        /\ blocks'.items = << >>
    BY <1>0, <1>3, DroppedChannel, Capacities DEF ProcessorStops
  <2>2. processor.at = "recv" /\ ~blocks.tx /\ blocks.items = << >>
    BY <1>3, <1>g DEF ProcessorStops, EndsInv, IsClosed, Exhausted
  <2>3. Held(processor) = 0 /\ Held(processor') = 0
    BY <2>1, <2>2 DEF Held
  <2>4. ProcHi' = ProcHi /\ BlocksHi' = BlocksHi
    BY <1>q, <2>1, <2>2, <2>3
  <2>5. Ended(deserializer)
    BY <2>2 DEF EndsInv
  <2> QED
    BY <1>f, <2>1, <2>2, <2>4, <2>5 DEF FlowInv
<1> QED
  BY <1>1, <1>2, <1>3 DEF Processor

\* final_processor passes the blocks on in order, up to the stop block.
LEMMA DeliveryFinalizer ==
  ASSUME TypeOK, TypeOK', EndsInv, DeliveryInv, Finalizer
  PROVE  DeliveryInv'
<1>0. /\ UNCHANGED <<ship, ws, raw, blocks, reader, deserializer, processor, client>>
      /\ finalizer \in Finalizers /\ finalizer.block \in Int
      /\ final \in Channel(Int, FinalCap) /\ out \in Channel(Int, OutCap)
      /\ final.items \in Seq(Int) /\ out.items \in Seq(Int)
  BY ChannelFields, Capacities
  DEF TypeOK, Finalizer, FinalizerReceives, FinalizerSends, FinalizerSendFails,
     FinalizerRequestsStop, FinalizerDrains, FinalizerStops, FinalizerEnds, Finalizers, channels,
     tasks
<1>p. Pending' = Pending
  BY <1>0 DEF Pending, InHand
<1>f. Flowing => NothingDropped /\ FlowInv
  BY DEF DeliveryInv
<1>n. /\ client.last \in Int /\ OutHi \in Int /\ FinHi \in Int /\ FinalHi \in Int
      /\ DeserHi \in Int /\ OutHi <= FinHi /\ FinHi <= DeserHi
      /\ Len(final.items) \in Nat /\ Len(out.items) \in Nat
      /\ ship.next \in Int /\ ship.next <= StopBlock + 1 /\ StopBlock \in Nat
  BY Stages, PipelineAssumption DEF DeliveryInv
<1>q. /\ OutHi = client.last + Len(out.items) /\ OutHi' = client.last + Len(out'.items)
      /\ FinHi = OutHi + Held(finalizer) /\ FinHi' = OutHi' + Held(finalizer')
      /\ FinalHi = FinHi + Len(final.items) /\ FinalHi' = FinHi' + Len(final'.items)
  BY <1>0 DEF OutHi, FinHi, FinalHi
\* Nothing is left to show once the client has ended.
<1>c. ASSUME client.at # "recv" PROVE DeliveryInv'
  BY <1>0, <1>c DEF DeliveryInv, Flowing
\* What is behind the final processor follows from what it has taken and sent.
<1>w. ASSUME Flowing, FinalHi' = FinalHi,
             finalizer'.at = "send" => finalizer'.block = FinHi',
             Numbers(final'.items, FinHi')
      PROVE  NothingDropped' /\ FlowInv'
  <2>1. ProcHi' = ProcHi /\ BlocksHi' = BlocksHi /\ DeserHi' = DeserHi
    BY <1>0, <1>w DEF ProcHi, BlocksHi, DeserHi, Held
  <2> QED
    BY <1>0, <1>f, <1>p, <1>w, <2>1 DEF FlowInv, NothingDropped, LeftFrom, Ended
<1>o. client.at = "recv" => Numbers(out.items, client.last) /\ OutHi <= ship.next - 1
  BY DEF DeliveryInv
<1>1. CASE FinalizerReceives
  <2> SUFFICES ASSUME client.at = "recv" PROVE DeliveryInv'
    BY <1>c
  <2>1. /\ finalizer.at = "recv" /\ Ready(final) /\ out' = out
        /\ final'.items = Tail(final.items) /\ Len(final'.items) = Len(final.items) - 1
    BY <1>0, <1>1, TakenChannel, Capacities DEF FinalizerReceives
  <2>2. Flowing /\ FlowInv
    BY <1>f, <2>1 DEF Flowing
  <2>3. Head(final.items) = FinHi + 1 /\ Numbers(final'.items, FinHi + 1)
    BY <1>0, <1>n, <2>1, <2>2, NumbersInRow DEF FlowInv, Ready
  <2>4. FinHi + 1 <= FinalHi
    <3>1. Len(final.items) # 0
      BY <1>0, <2>1, EmptySeq DEF Ready
    <3> QED
      BY <1>n, <1>q, <3>1
  <2>5. ~(Head(final.items) > StopBlock)
    <3>1. FinalHi <= DeserHi /\ DeserHi <= ship.next - 1
      BY <2>2, Stages DEF FlowInv
    <3> QED
      BY <1>n, <2>3, <2>4, <3>1
  <2>6. finalizer' = [at |-> "send", block |-> FinHi + 1]
    BY <1>1, <2>3, <2>5 DEF FinalizerReceives
  <2>7. OutHi' = OutHi /\ Held(finalizer) = 0 /\ Held(finalizer') = 1
    BY <1>q, <2>1, <2>6 DEF Held
  <2>8. FinHi' = FinHi + 1
    BY <1>n, <1>q, <2>7
  <2>9. FinalHi' = FinalHi
    BY <1>n, <1>q, <2>1, <2>8
  <2>10. NothingDropped' /\ FlowInv'
    BY <1>w, <2>2, <2>3, <2>6, <2>8, <2>9
  <2> QED
    BY <1>0, <1>n, <1>o, <2>1, <2>6, <2>7, <2>10 DEF DeliveryInv
<1>2. CASE FinalizerSends
  <2> SUFFICES ASSUME client.at = "recv" PROVE DeliveryInv'
    BY <1>c
  <2>1. /\ finalizer.at = "send" /\ HasRoom(out, OutCap) /\ out' = Put(out, finalizer.block)
        /\ final' = final
        /\ finalizer' = [at |-> IF finalizer.block = StopBlock THEN "stop" ELSE "recv",
                         block |-> None]
    BY <1>2 DEF FinalizerSends
  <2>2. Flowing /\ FlowInv
    BY <1>f, <2>1 DEF Flowing
  <2>3. /\ out'.items = Append(out.items, finalizer.block)
        /\ Len(out'.items) = Len(out.items) + 1
    BY <1>0, <2>1, PutChannel, Capacities
  <2>4. Held(finalizer) = 1 /\ Held(finalizer') = 0
    BY <2>1 DEF Held
  <2>5. OutHi' = OutHi + 1 /\ FinHi = OutHi + 1
    <3>1. \A a, l \in Int : a + (l + 1) = (a + l) + 1
      OBVIOUS
    <3>2. OutHi' = client.last + (Len(out.items) + 1)
      BY <1>q, <2>3
    <3>3. OutHi' = OutHi + 1
      <4>1. client.last \in Int /\ Len(out.items) \in Int
        BY <1>n
      <4>2. client.last + (Len(out.items) + 1) = (client.last + Len(out.items)) + 1
        BY <3>1, <4>1
      <4>3. OutHi = client.last + Len(out.items)
        BY <1>q
      <4> QED
        BY <3>2, <4>2, <4>3, Zenon
    <3>4. FinHi = OutHi + 1
      BY <1>q, <2>4
    <3> QED
      BY <3>3, <3>4
  <2>6. FinHi' = FinHi /\ finalizer.block = FinHi
    BY <1>n, <1>q, <2>1, <2>2, <2>4, <2>5 DEF FlowInv
  <2>7. finalizer.block = client.last + Len(out.items) + 1
    BY <1>q, <2>5, <2>6
  <2>8. Numbers(out'.items, client.last)
    BY <1>0, <1>n, <1>o, <2>3, <2>7, NumbersInRow
  <2>9. FinalHi' = FinalHi /\ Numbers(final'.items, FinHi')
    BY <1>q, <2>1, <2>2, <2>6 DEF FlowInv
  <2>10. NothingDropped' /\ FlowInv'
    BY <1>w, <2>1, <2>2, <2>9
  <2>11. OutHi' <= ship.next - 1
    BY <1>n, <2>2, <2>5 DEF FlowInv
  <2> QED
    BY <1>0, <1>n, <2>1, <2>5, <2>6, <2>8, <2>10, <2>11 DEF DeliveryInv
<1>3. CASE FinalizerSendFails
  BY <1>3, <1>c DEF FinalizerSendFails, EndsInv, IsClosed, Ended
<1>4. CASE FinalizerRequestsStop \/ FinalizerDrains
  <2>1. /\ finalizer.at \in {"stop", "drain"} /\ finalizer'.at = "drain" /\ out' = out
    BY <1>0, <1>4 DEF FinalizerRequestsStop, FinalizerDrains, Finalizers, tasks
  <2>2. OutHi' = OutHi
    BY <1>q, <2>1
  <2> QED
    BY <1>0, <2>1, <2>2 DEF DeliveryInv, Flowing
<1>5. CASE FinalizerStops
  <2>1. PICK result \in {"ok", "err"} : FinalizerEnds(result)
    BY <1>5 DEF FinalizerStops
  <2>2. finalizer'.at \in {"ok", "err"} /\ out'.items = out.items
    BY <1>0, <2>1, DroppedChannel, Capacities DEF FinalizerEnds
  <2>3. OutHi' = OutHi
    BY <1>q, <2>2
  <2> QED
    BY <1>0, <2>2, <2>3 DEF DeliveryInv, Flowing
<1> QED
  BY <1>1, <1>2, <1>3, <1>4, <1>5 DEF Finalizer

LEMMA DeliveryClientMain ==
  ASSUME TypeOK, TypeOK', DeliveryInv, Client \/ Main \/ ConnectFails \/ UNCHANGED vars
  PROVE  DeliveryInv'
<1>1. CASE ClientReceives
  <2>0. /\ UNCHANGED <<ship, ws, raw, blocks, final, reader, deserializer, processor, finalizer>>
        /\ client \in Clients /\ out \in Channel(Int, OutCap) /\ out.items \in Seq(Int)
    BY <1>1, ChannelFields, Capacities DEF ClientReceives, TypeOK, tasks
  <2>1. /\ client.at = "recv" /\ client'.at = "recv" /\ client'.last = Head(out.items)
        /\ Ready(out) /\ out'.items = Tail(out.items)
        /\ Len(out'.items) = Len(out.items) - 1
    BY <1>1, <2>0, TakenChannel, Capacities DEF ClientReceives, Clients
  <2>2. client.last \in Int /\ Len(out.items) \in Nat
    BY Stages
  <2>3. client'.last = client.last + 1 /\ Numbers(out'.items, client'.last)
    BY <2>0, <2>1, <2>2, NumbersInRow DEF DeliveryInv, Ready
  <2>4. OutHi' = OutHi
    <3>1. OutHi = client.last + Len(out.items) /\ OutHi' = client'.last + Len(out'.items)
      BY DEF OutHi
    <3>2. \A c, l \in Int : (c + 1) + (l - 1) = c + l
      OBVIOUS
    <3> QED
      BY <2>1, <2>2, <2>3, <3>1, <3>2
  <2>5. /\ FinHi' = FinHi /\ FinalHi' = FinalHi /\ ProcHi' = ProcHi
        /\ BlocksHi' = BlocksHi /\ DeserHi' = DeserHi /\ Flowing' = Flowing
        /\ Pending' = Pending
    BY <2>0, <2>1, <2>4
    DEF FinHi, FinalHi, ProcHi, BlocksHi, DeserHi, Held, Flowing, Pending, InHand
  <2>6. Flowing => NothingDropped' /\ FlowInv'
    BY <2>0, <2>5 DEF DeliveryInv, NothingDropped, LeftFrom, FlowInv, Ended
  <2> QED
    BY <2>0, <2>1, <2>3, <2>4, <2>5, <2>6 DEF DeliveryInv
<1>2. CASE ClientStops
  <2>1. client'.at # "recv" /\ ship' = ship
    BY <1>2 DEF ClientStops, ClientEnds, TypeOK, Clients
  <2> QED
    BY <2>1 DEF DeliveryInv, Flowing
<1>3. CASE Main \/ UNCHANGED vars
  <2>1. UNCHANGED <<ship, ws, raw, blocks, final, out, reader, deserializer, processor, finalizer,
                    client>>
    BY <1>3 DEF Main, MainSeesClientEnd, MainRequestsStop, MainJoins, vars, channels, tasks
  <2>2. /\ OutHi' = OutHi /\ FinHi' = FinHi /\ FinalHi' = FinalHi /\ ProcHi' = ProcHi
        /\ BlocksHi' = BlocksHi /\ DeserHi' = DeserHi /\ Flowing' = Flowing
        /\ Pending' = Pending
    BY <2>1 DEF OutHi, FinHi, FinalHi, ProcHi, BlocksHi, DeserHi, Held, Flowing, Pending, InHand
  <2>3. Flowing => NothingDropped' /\ FlowInv'
    BY <2>1, <2>2 DEF DeliveryInv, NothingDropped, LeftFrom, FlowInv, Ended
  <2> QED
    BY <2>1, <2>2, <2>3 DEF DeliveryInv
<1>4. CASE ConnectFails
  <2>1. /\ ship' = ship /\ client' = client /\ finalizer'.at = "ok" /\ out'.items = out.items
    BY <1>4, DroppedChannel, Capacities DEF ConnectFails, TypeOK, Finalizers
  <2>2. OutHi' = OutHi
    BY <2>1 DEF OutHi
  <2> QED
    BY <2>1, <2>2 DEF DeliveryInv, Flowing
<1> QED
  BY <1>1, <1>2, <1>3, <1>4 DEF Client

\* Every step keeps the blocks in order.
LEMMA DeliveryPreserved ==
  ASSUME TypeOK, TypeOK', PhaseInv, EndsInv, StopInv, DeliveryInv, [Next]_vars
  PROVE  DeliveryInv'
BY DeliveryShip, DeliveryReader, DeliveryDeserializer, DeliveryProcessor, DeliveryFinalizer,
   DeliveryClientMain, DeliveryReadFails
DEF Next

-------------------------------------------------------------------------------
(***************************************************************************)
(* A final processor that has ended.                                       *)
(***************************************************************************)
\* Every step keeps SettledInv.
LEMMA SettledPreserved ==
  ASSUME TypeOK, TypeOK', EndsInv, StopInv, DeliveryInv, SettledInv, [Next]_vars
  PROVE  SettledInv'
<1> USE DEF Ended
<1>n. /\ client.last \in Int /\ Len(out.items) \in Nat /\ ship.next \in Int /\ OutHi \in Int
      /\ StopBlock \in Nat
      /\ OutHi = client.last + Len(out.items) /\ OutHi' = client'.last + Len(out'.items)
  BY Stages, PipelineAssumption DEF OutHi
<1>t. /\ client \in Clients /\ finalizer \in Finalizers /\ out \in Channel(Int, OutCap)
      /\ ship \in Ships /\ ws \in [items : Seq(Messages), open : BOOLEAN, failed : BOOLEAN]
      /\ out.items \in Seq(Int)
  BY ChannelFields, Capacities DEF TypeOK
\* The tasks before the final processor: nothing comes back to life, and the end of
\* the stream does not move.
<1>k. ASSUME UNCHANGED <<out, finalizer, client>>, TasksSucceeded' => TasksSucceeded,
             \/ ship'.next = ship.next /\ (ws.open \/ ~ws'.open)
             \/ ws.open /\ ship.next <= StopBlock
             \/ ship'.next = ship.next /\ ws'.open = ws.open,
             LeftFrom(OutHi) => LeftFrom(OutHi)'
      PROVE  SettledInv'
  BY <1>k, <1>n DEF SettledInv
<1>1. CASE Ship \/ ShipEmptyResult \/ ShipCloses
  <2>1. UNCHANGED <<out, finalizer, client, reader, deserializer, processor>>
    BY <1>1 DEF Ship, ShipAbi, ShipStatus, ShipBlock, ShipEmptyResult, ShipCloses, channels, tasks
  <2>2. \/ ship'.next = ship.next /\ (ws.open \/ ~ws'.open)
        \/ ws.open /\ ship.next <= StopBlock
    BY <1>1, <1>t DEF Ship, ShipAbi, ShipStatus, ShipBlock, ShipEmptyResult, ShipCloses, Ships
  <2>3. ASSUME LeftFrom(OutHi) PROVE LeftFrom(OutHi)'
    <3>1. ws'.failed /\ OutHi <= ship'.next - 1 /\ Run(ws'.items, OutHi, ship'.next - 1)
      BY <1>1, <1>n, <2>3, LeftGrows
    <3> QED
      BY <1>n, <2>1, <3>1 DEF LeftFrom
  <2> QED
    BY <1>k, <2>1, <2>2, <2>3 DEF TasksSucceeded
<1>2. CASE Reader
  <2>1. /\ UNCHANGED <<ship, out, finalizer, client, deserializer, processor>>
        /\ ws'.open = ws.open /\ reader.at # "err"
    BY <1>2, <1>t DEF Reader, ReaderReceives, ReaderSends, ReaderStops, ReaderEnds, channels
  <2>2. ~LeftFrom(OutHi)
    BY <1>2, <1>t DEF Reader, ReaderReceives, ReaderSends, ReaderStops, LeftFrom, EndsInv
  <2> QED
    BY <1>k, <2>1, <2>2 DEF TasksSucceeded
<1>3. CASE Deserializer
  <2>1. /\ UNCHANGED <<ws, out, finalizer, client, reader, processor>>
        /\ ship'.next = ship.next /\ deserializer.at # "err"
    BY <1>3, <1>t DEF Deserializer, DeserializeAbi, DeserializeStatus, DeserializeBlock,
       DeserializeEmpty, DeserializerSends, DeserializerAcks, DeserializerStops,
       DeserializerEnds, Requested, Ships, channels, tasks
  <2>2. LeftFrom(OutHi) => LeftFrom(OutHi)'
    BY <1>n, <2>1 DEF LeftFrom
  <2> QED
    BY <1>k, <2>1, <2>2 DEF TasksSucceeded
<1>4. CASE Processor
  <2>1. /\ UNCHANGED <<ship, ws, out, finalizer, client, reader, deserializer>>
        /\ processor.at # "err"
    BY <1>4 DEF Processor, ProcessorReceives, ProcessorSends, ProcessorStops
  <2>2. LeftFrom(OutHi) => LeftFrom(OutHi)'
    BY <1>n, <2>1 DEF LeftFrom
  <2> QED
    BY <1>k, <2>1, <2>2 DEF TasksSucceeded
<1>5. CASE FinalizerReceives \/ FinalizerSends \/ FinalizerSendFails \/ FinalizerRequestsStop
           \/ FinalizerDrains
  <2>1. client' = client /\ finalizer.at \notin {"ok", "err"} /\ finalizer'.at # "ok"
    BY <1>5, <1>t DEF FinalizerReceives, FinalizerSends, FinalizerSendFails,
       FinalizerRequestsStop, FinalizerDrains, Finalizers, tasks
  <2> QED
    BY <2>1 DEF SettledInv
<1>6. CASE FinalizerStops
  <2>1. PICK result \in {"ok", "err"} :
          /\ FinalizerEnds(result)
          /\ result = "ok" => finalizer.at \in {"recv", "drain"} /\ Exhausted(final)
    BY <1>6 DEF FinalizerStops
  <2>2. /\ UNCHANGED <<ship, ws, client, reader, deserializer, processor>>
        /\ finalizer'.at = result /\ out'.items = out.items
    BY <1>t, <2>1, DroppedChannel, Capacities DEF FinalizerEnds
  <2>3. finalizer.at \notin {"ok", "err"}
    BY <1>6 DEF FinalizerStops
  <2>4. ASSUME result = "ok", client.at = "recv", TasksSucceeded'
        PROVE  \/ OutHi = ship.next - 1 /\ (~ws.open \/ ship.next > StopBlock)
               \/ LeftFrom(OutHi)
    <3>1. CASE finalizer.at = "drain"
      <4>1. /\ OutHi = StopBlock /\ OutHi <= ship.next - 1 /\ ship.next <= StopBlock + 1
        BY <2>4, <3>1 DEF DeliveryInv
      <4> QED
        BY <1>n, <4>1
    <3>2. CASE finalizer.at = "recv"
      <4>1. /\ Flowing /\ NothingDropped /\ ~final.tx /\ final.items = << >>
        BY <2>1, <2>4, <3>2 DEF DeliveryInv, Flowing, Exhausted
      <4>2. processor.at = "ok" /\ blocks.items = << >> /\ Ended(deserializer)
        BY <4>1 DEF EndsInv, NothingDropped, TypeOK, Processors
      <4>3. deserializer.at = "ok"
        BY <2>2, <2>4, <4>2 DEF TasksSucceeded
      <4>4. (~ws.open /\ DeserHi = ship.next - 1) \/ LeftFrom(DeserHi)
        BY <4>1, <4>3 DEF NothingDropped
      <4>5. DeserHi = OutHi
        <5>1. /\ Held(finalizer) = 0 /\ Held(processor) = 0 /\ Held(deserializer) = 0
              /\ Len(final.items) = 0 /\ Len(blocks.items) = 0
          BY <3>2, <4>1, <4>2, <4>3 DEF Held
        <5>2. \A x \in Int : x + 0 = x
          OBVIOUS
        <5>3. FinHi = OutHi
          BY <1>n, <5>1, <5>2 DEF FinHi
        <5>4. FinalHi = OutHi
          BY <1>n, <5>1, <5>2, <5>3 DEF FinalHi
        <5>5. ProcHi = OutHi
          BY <1>n, <5>1, <5>2, <5>4 DEF ProcHi
        <5>6. BlocksHi = OutHi
          BY <1>n, <5>1, <5>2, <5>5 DEF BlocksHi
        <5> QED
          BY <1>n, <5>1, <5>2, <5>6 DEF DeserHi
      <4> QED
        BY <4>4, <4>5
    <3> QED
      BY <2>1, <2>4, <3>1, <3>2
  <2>5. client.at # "ok"
    BY <2>3 DEF SettledInv
  <2>6. OutHi' = OutHi
    BY <1>n, <2>2
  <2>7. LeftFrom(OutHi) => LeftFrom(OutHi)'
    BY <2>2, <2>6 DEF LeftFrom
  <2> QED
    BY <2>2, <2>4, <2>5, <2>6, <2>7 DEF SettledInv
<1>7. CASE ClientReceives
  <2>1. /\ client.at = "recv" /\ client'.at = "recv" /\ client'.last = Head(out.items)
        /\ Ready(out) /\ Len(out'.items) = Len(out.items) - 1
        /\ UNCHANGED <<ship, ws, reader, deserializer, processor, finalizer>>
    BY <1>7, <1>t, TakenChannel, Capacities DEF ClientReceives, Clients, tasks
  <2>2. client'.last = client.last + 1
    BY <1>n, <1>t, <2>1, NumbersInRow DEF DeliveryInv, Ready
  <2>3. OutHi' = OutHi
    <3>1. \A c, l \in Int : (c + 1) + (l - 1) = c + l
      OBVIOUS
    <3> QED
      BY <1>n, <2>1, <2>2, <3>1
  <2> QED
    BY <2>1, <2>3 DEF SettledInv, LeftFrom, TasksSucceeded
<1>8. CASE ClientStops
  <2>1. PICK result \in {"ok", "err"} :
          ClientEnds(result) /\ (result = "ok" => Exhausted(out))
    BY <1>8 DEF ClientStops
  <2>2. /\ UNCHANGED <<ship, ws, reader, deserializer, processor, finalizer>>
        /\ client'.at = result /\ client'.last = client.last /\ Len(out'.items) = 0
        /\ client.at = "recv"
    BY <1>8, <1>t, <2>1, DroppedChannel, Capacities DEF ClientStops, ClientEnds, Clients, tasks
  <2>3. result = "ok" => Ended(finalizer) /\ Len(out.items) = 0
    BY <2>1 DEF Exhausted, EndsInv
  <2>4. result = "ok" => OutHi' = OutHi
    BY <1>n, <2>2, <2>3
  <2> QED
    BY <2>2, <2>3, <2>4 DEF SettledInv, LeftFrom, TasksSucceeded
<1>9. CASE Main \/ UNCHANGED vars
  <2>1. UNCHANGED <<ship, ws, out, reader, deserializer, processor, finalizer, client>>
    BY <1>9 DEF Main, MainSeesClientEnd, MainRequestsStop, MainJoins, vars, channels, tasks
  <2>2. LeftFrom(OutHi) => LeftFrom(OutHi)'
    BY <1>n, <2>1 DEF LeftFrom
  <2> QED
    BY <1>k, <2>1, <2>2 DEF TasksSucceeded
<1>10. CASE ConnectFails
  <2>1. client' = client /\ reader'.at = "err" /\ finalizer'.at = "ok"
    BY <1>10, <1>t DEF ConnectFails, TypeOK, Readers, Finalizers
  <2> QED
    BY <2>1 DEF SettledInv, TasksSucceeded
<1>11. CASE ReaderFails
  <2>1. /\ UNCHANGED <<ship, out, finalizer, client, deserializer, processor>>
        /\ ws'.items = ws.items /\ (ws'.open => ws.open) /\ ws'.failed /\ reader.at # "err"
    BY <1>11, ReadFailure
  <2>2. LeftFrom(OutHi) => LeftFrom(OutHi)'
    BY <1>n, <2>1 DEF LeftFrom
  <2> QED
    BY <1>k, <2>1, <2>2 DEF TasksSucceeded
<1> QED
  BY <1>1, <1>2, <1>3, <1>4, <1>5, <1>6, <1>7, <1>8, <1>9, <1>10, <1>11
  DEF Next, Finalizer, Client


-------------------------------------------------------------------------------
(***************************************************************************)
(* The theorems.                                                           *)
(***************************************************************************)

\* The invariant holds at the start: nothing is on its way, and nothing has ended.
LEMMA InvInit == Init => PipelineInv
<1> SUFFICES ASSUME Init PROVE PipelineInv
  OBVIOUS
<1>1. TypeOK
  BY TypeInit
<1>2. /\ ship.phase = "abi" /\ ship.next = StartBlock /\ ship.inFlight = 0
      /\ ws.items = << >> /\ ~ws.failed /\ stop = 0
      /\ raw = NewChannel /\ blocks = NewChannel /\ final = NewChannel /\ out = NewChannel
      /\ reader.at = "read" /\ deserializer.at = "abi" /\ deserializer.unackd = 0
      /\ processor.at = "recv" /\ finalizer.at = "recv" /\ client.at = "recv"
      /\ client.last = None /\ main = "client"
  BY DEF Init
<1>3. /\ NewChannel.items = << >> /\ NewChannel.tx /\ NewChannel.rx /\ Len(<< >>) = 0
  BY EmptySeq DEF NewChannel
<1>4. /\ Held(reader) = 0 /\ Held(deserializer) = 0 /\ Held(processor) = 0
      /\ Held(finalizer) = 0
  BY <1>2 DEF Held
<1>5. PhaseInv
  <2>1. Waiting = 0
    BY <1>2, <1>3, <1>4 DEF Waiting
  <2>2. KindsIn({"abi", "status"})
    BY <1>2, <1>3 DEF KindsIn
  <2> QED
    BY <1>2, <2>1, <2>2 DEF PhaseInv
<1>6. EndsInv
  BY <1>2, <1>3 DEF EndsInv
<1>7. StopInv
  BY <1>2 DEF StopInv
<1>8. None \in Int /\ None = ship.next - 1 /\ None <= StopBlock /\ ship.next <= StopBlock + 1
  BY <1>2, PipelineAssumption DEF None
<1>9. /\ OutHi = None /\ FinHi = None /\ ProcHi = None /\ DeserHi = None
  <2>1. \A x \in Int : x + 0 = x
    OBVIOUS
  <2>2. OutHi = None
    BY <1>2, <1>3, <1>8, <2>1 DEF OutHi
  <2>3. FinHi = None
    BY <1>4, <1>8, <2>1, <2>2 DEF FinHi
  <2>4. FinalHi = None
    BY <1>2, <1>3, <1>8, <2>1, <2>3 DEF FinalHi
  <2>5. ProcHi = None
    BY <1>4, <1>8, <2>1, <2>4 DEF ProcHi
  <2>6. BlocksHi = None
    BY <1>2, <1>3, <1>8, <2>1, <2>5 DEF BlocksHi
  <2>7. DeserHi = None
    BY <1>4, <1>8, <2>1, <2>6 DEF DeserHi
  <2> QED
    BY <2>2, <2>3, <2>5, <2>7
<1>10. DeliveryInv
  <2>1. NothingDropped
    BY <1>2 DEF NothingDropped, Ended
  <2>2. Pending = << >>
    <3>1. << >> \in Seq(Messages)
      BY EmptySeq
    <3>2. << >> \o << >> = << >>
      BY <3>1, ConcatEmptySeq
    <3> QED
      BY <1>2, <1>3, <3>2 DEF Pending, InHand
  <2>3. Run(Pending, None, None)
    <3>1. \A x \in Int : (x + 1)..x = {}
      OBVIOUS
    <3>2. (None + 1)..None = {} /\ 1..Len(<< >>) = {}
      BY <1>3, <1>8, <3>1
    <3> QED
      BY <2>2, <3>2 DEF Run
  <2>4. \A base : Numbers(<< >>, base)
    BY <1>3 DEF Numbers
  <2>5. FlowInv
    BY <1>2, <1>3, <1>8, <1>9, <2>3, <2>4 DEF FlowInv
  <2> QED
    BY <1>2, <1>3, <1>8, <1>9, <2>1, <2>4, <2>5 DEF DeliveryInv
<1>11. SettledInv
  BY <1>2 DEF SettledInv
<1> QED
  BY <1>1, <1>5, <1>6, <1>7, <1>10, <1>11 DEF PipelineInv

\* Every step keeps it.
LEMMA InvNext == PipelineInv /\ [Next]_vars => PipelineInv'
<1> SUFFICES ASSUME PipelineInv, [Next]_vars PROVE PipelineInv'
  OBVIOUS
<1>1. TypeOK'
  BY TypePreserved DEF PipelineInv
<1> QED
  BY <1>1, PhasePreserved, EndsPreserved, StopPreserved, DeliveryPreserved, SettledPreserved
  DEF PipelineInv

\* The invariant holds in every reachable state.
LEMMA InvAlways == Spec => []PipelineInv
BY InvInit, InvNext, PTL DEF Spec

\* The variables keep their types and no channel holds more than its size.
THEOREM PipelineTypes == Spec => []TypeOK
<1>1. PipelineInv => TypeOK
  BY DEF PipelineInv
<1> QED
  BY <1>1, InvAlways, PTL

\* What the deserializer has not acknowledged yet is still counted by the node:
\* the window of messages in flight never grows past its limit.
THEOREM AcksOwed == Spec => []AcksAreOwed
<1>1. PipelineInv => AcksAreOwed
  <2> SUFFICES ASSUME TypeOK, PhaseInv PROVE deserializer.unackd <= ship.inFlight
    BY DEF PipelineInv, AcksAreOwed
  <2>1. /\ Waiting \in Nat /\ deserializer.unackd \in Nat /\ ship.inFlight \in Int
    BY WaitingSize
  <2>2. CASE ship.phase = "blocks"
    BY <2>1, <2>2 DEF PhaseInv
  <2>3. CASE ship.phase # "blocks"
    BY <2>1, <2>3 DEF PhaseInv
  <2> QED
    BY <2>2, <2>3
<1> QED
  BY <1>1, InvAlways, PTL

\* A client that has ended holds no block it was not given.
ClientGone == Ended(client) => out.items = << >> /\ ~out.rx

\* Nothing is put into a channel whose receiver is gone.
LEMMA GoneNext == TypeOK /\ ClientGone /\ [Next]_vars => ClientGone'
<1> SUFFICES ASSUME TypeOK, ClientGone, [Next]_vars PROVE ClientGone'
  OBVIOUS
<1>0. /\ out \in Channel(Int, OutCap) /\ client \in Clients
  BY DEF TypeOK
<1>1. CASE FinalizerSends
  BY <1>1 DEF FinalizerSends, HasRoom, ClientGone, Ended
<1>2. CASE FinalizerStops
  <2>1. PICK result \in {"ok", "err"} : FinalizerEnds(result)
    BY <1>2 DEF FinalizerStops
  <2> QED
    BY <1>0, <2>1, DroppedChannel, Capacities DEF FinalizerEnds, ClientGone
<1>3. CASE ClientReceives
  BY <1>0, <1>3 DEF ClientReceives, Clients, ClientGone, Ended
<1>4. CASE ClientStops
  <2>1. PICK result \in {"ok", "err"} : ClientEnds(result)
    BY <1>4 DEF ClientStops
  <2> QED
    BY <1>0, <2>1, DroppedChannel, Capacities DEF ClientEnds, ClientGone
<1>5. CASE ConnectFails
  BY <1>0, <1>5, DroppedChannel, Capacities DEF ConnectFails, ClientGone
<1>6. CASE out' = out /\ client' = client
  BY <1>6 DEF ClientGone
<1>7. CASE Ship \/ ShipEmptyResult \/ ShipCloses \/ Reader
  BY <1>6, <1>7 DEF Ship, ShipAbi, ShipStatus, ShipBlock, ShipEmptyResult, ShipCloses, Reader,
     ReaderReceives, ReaderSends, ReaderStops, channels
<1>8. CASE Deserializer
  BY <1>6, <1>8 DEF Deserializer, DeserializeAbi, DeserializeStatus, DeserializeBlock,
     DeserializeEmpty, DeserializerSends, DeserializerAcks, DeserializerStops, DeserializerEnds,
     channels
<1>9. CASE Processor \/ Main \/ UNCHANGED vars
  BY <1>6, <1>9 DEF Processor, ProcessorReceives, ProcessorSends, ProcessorStops, Main,
     MainSeesClientEnd, MainRequestsStop, MainJoins, vars, channels
<1>10. CASE FinalizerReceives \/ FinalizerSendFails \/ FinalizerRequestsStop \/ FinalizerDrains
  BY <1>6, <1>10 DEF FinalizerReceives, FinalizerSendFails, FinalizerRequestsStop,
     FinalizerDrains, channels
<1>11. CASE ReaderFails
  BY <1>6, <1>11, ReadFailure
<1> QED
  BY <1>1, <1>2, <1>3, <1>4, <1>5, <1>7, <1>8, <1>9, <1>10, <1>11 DEF Next, Finalizer, Client

\* run_client only returns Ok when every block ship_reader has read has reached the
\* client: missing are at most blocks left unread on a websocket whose reading failed
\* (ship_reader.rs:38-41).
THEOREM NothingLostWhenOk == Spec => []OkMeansDelivered
<1>1. Init => ClientGone
  BY DEF Init, ClientGone, Ended
<1>2. PipelineInv => TypeOK
  BY DEF PipelineInv
<1>3. PipelineInv /\ ClientGone => OkMeansDelivered
  <2> SUFFICES ASSUME TypeOK, StopInv, SettledInv, ClientGone, main = "ok",
                      NEW num \in (client.last + 1)..(ship.next - 1)
               PROVE  ws.failed /\ Unread(num)
    BY DEF PipelineInv, OkMeansDelivered
  <2>1. /\ client.at = "ok" /\ Ended(finalizer) /\ TasksSucceeded
    BY DEF StopInv, TasksEnded
  <2>2. finalizer.at = "ok"
    BY <2>1 DEF Ended, TasksSucceeded
  <2>3. OutHi = ship.next - 1 \/ LeftFrom(OutHi)
    BY <2>1, <2>2 DEF SettledInv
  <2>4. Len(out.items) = 0
    BY <2>1, EmptySeq DEF ClientGone, Ended
  <2>5. client.last \in Int /\ ship.next \in Int
    BY Stages
  <2>6. OutHi = client.last
    BY <2>4, <2>5 DEF OutHi
  <2>7. OutHi # ship.next - 1
    BY <2>5, <2>6
  <2>8. ws.failed /\ Run(ws.items, client.last, ship.next - 1)
    BY <2>3, <2>6, <2>7 DEF LeftFrom
  <2> QED
    BY <2>8 DEF Run, Unread
<1> QED
  BY <1>1, <1>2, <1>3, GoneNext, InvAlways, PTL DEF Spec

\* A step of the stream, or none, with the operators of BlockStream expanded.
StreamStep ==
  [Stream!Receive \/ Stream!End]_<<client.last, Ended(client)>>

\* The two steps of BlockStream, in terms of the client.
LEMMA StreamOperators ==
  /\ Stream!Init <=> client.last = StartBlock - 1 /\ Ended(client) = FALSE
  /\ Stream!Receive <=> /\ ~Ended(client) /\ client.last < StopBlock
                        /\ client'.last = client.last + 1
                        /\ Ended(client') = Ended(client)
  /\ Stream!End <=> /\ ~Ended(client) /\ Ended(client') = TRUE
                    /\ client'.last = client.last
BY DEF Stream!Init, Stream!Receive, Stream!End, Ended

\* Only the client's own steps move the stream, each by one block.
LEMMA NextStreams == PipelineInv /\ [Next]_vars => StreamStep
<1> SUFFICES ASSUME PipelineInv, [Next]_vars PROVE StreamStep
  OBVIOUS
<1>0. /\ TypeOK /\ EndsInv /\ DeliveryInv /\ out \in Channel(Int, OutCap) /\ client \in Clients
  BY DEF PipelineInv, TypeOK
<1>1. CASE client' = client
  BY <1>1 DEF StreamStep, Ended
<1>2. CASE ClientReceives
  <2>1. /\ client.at = "recv" /\ client'.at = "recv" /\ client'.last = Head(out.items)
        /\ Ready(out) /\ out.items \in Seq(Int)
    BY <1>0, <1>2, ChannelFields, Capacities DEF ClientReceives, Clients
  <2>2. /\ client.last \in Int /\ Len(out.items) \in Nat /\ ship.next \in Int /\ StopBlock \in Nat
    BY <1>0, Stages, PipelineAssumption
  <2>3. client'.last = client.last + 1
    BY <1>0, <2>1, <2>2, NumbersInRow DEF DeliveryInv, Ready
  <2>4. Len(out.items) > 0
    BY <2>1, <2>2, EmptySeq DEF Ready
  <2>5. client.last < StopBlock
    <3>1. client.last + Len(out.items) <= ship.next - 1 /\ ship.next <= StopBlock + 1
      BY <1>0, <2>1 DEF DeliveryInv, OutHi
    <3> QED
      BY <2>2, <2>4, <3>1
  <2>6. Stream!Receive
    BY <2>1, <2>3, <2>5, StreamOperators DEF Ended
  <2> QED
    BY <2>6 DEF StreamStep
<1>3. CASE ClientStops
  <2>1. PICK result \in {"ok", "err"} : ClientEnds(result)
    BY <1>3 DEF ClientStops
  <2>2. client.at = "recv" /\ client'.at = result /\ client'.last = client.last
    BY <1>0, <1>3, <2>1 DEF ClientStops, ClientEnds, Clients
  <2>3. Stream!End
    BY <2>2, StreamOperators DEF Ended
  <2> QED
    BY <2>3 DEF StreamStep
<1>4. CASE Ship \/ ShipEmptyResult \/ ShipCloses \/ Reader
  BY <1>1, <1>4 DEF Ship, ShipAbi, ShipStatus, ShipBlock, ShipEmptyResult, ShipCloses, Reader,
     ReaderReceives, ReaderSends, ReaderStops
<1>5. CASE Deserializer
  BY <1>1, <1>5 DEF Deserializer, DeserializeAbi, DeserializeStatus, DeserializeBlock,
     DeserializeEmpty, DeserializerSends, DeserializerAcks, DeserializerStops, DeserializerEnds
<1>6. CASE Processor \/ Main \/ UNCHANGED vars \/ ConnectFails
  BY <1>1, <1>6 DEF Processor, ProcessorReceives, ProcessorSends, ProcessorStops, Main,
     MainSeesClientEnd, MainRequestsStop, MainJoins, vars, ConnectFails
<1>7. CASE Finalizer
  BY <1>1, <1>7 DEF Finalizer, FinalizerReceives, FinalizerSends, FinalizerSendFails,
     FinalizerRequestsStop, FinalizerDrains, FinalizerStops, FinalizerEnds
<1>8. CASE ReaderFails
  BY <1>0, <1>1, <1>8, ReadFailure
<1> QED
  BY <1>2, <1>3, <1>4, <1>5, <1>6, <1>7, <1>8 DEF Next, Client

\* The pipeline implements BlockStream: whatever stops, fails or is dropped, the
\* client receives the requested blocks in order and without a gap.
THEOREM ReceivesInOrder == Spec => DeliversInOrder
<1>1. Init => Stream!Init
  BY StreamOperators DEF Init, None, Ended
<1>2. PipelineInv /\ [Next]_vars => StreamStep
  BY NextStreams
<1>3. StreamStep => [Stream!Receive \/ Stream!End]_<<client.last, Ended(client)>>
  BY DEF StreamStep
<1> QED
  BY <1>1, <1>2, <1>3, InvAlways, PTL DEF Spec, DeliversInOrder, Stream!Spec

-------------------------------------------------------------------------------
(***************************************************************************)
(* Progress: the tasks never wait for one another.                         *)
(***************************************************************************)

\* An ended task has dropped its channel ends, or its neighbour has ended too (no
\* task ever began when launch could not connect).
GoneInv ==
  /\ Ended(reader) => ~raw.tx \/ Ended(deserializer)
  /\ Ended(deserializer) => (~raw.rx \/ Ended(reader)) /\ (~blocks.tx \/ Ended(processor))
  /\ Ended(processor) => ~final.tx \/ Ended(finalizer)
  /\ Ended(finalizer) => ~out.tx
  /\ Ended(processor) => ~blocks.rx \/ Ended(deserializer)
  /\ Ended(finalizer) => ~final.rx \/ Ended(processor)
  /\ Ended(client) => ~out.rx

\* The deserializer gets the ABI first, then the status, then results.
AnswersInv ==
  ~Ended(deserializer) =>
    /\ deserializer.at = "abi" => KindsIn({"abi"})
    /\ deserializer.at # "abi" => ship.phase # "abi"
                                  /\ (ship.phase # "blocks" => KindsIn({"status"}))

\* Every answer and every result counted by the node is on its way, or counted by the
\* deserializer.
Connected == ws.open /\ ~Ended(reader) /\ ~Ended(deserializer)

CountInv ==
  Connected =>
    /\ ship.phase = "waiting" => Waiting = 1
    /\ ship.phase = "blocks" => ship.inFlight = Waiting + deserializer.unackd

\* Unacknowledged are the blocks below the threshold, and results without a block.
Empties(q) == Cardinality({i \in 1..Len(q) : q[i].kind = "empty"})

WindowInv ==
  /\ ship.empty <= MaxEmpty
  /\ ~Ended(reader) /\ ~Ended(deserializer) =>
       /\ Empties(Pending) <= ship.empty
       /\ deserializer.at = "recv" /\ blocks.rx =>
            deserializer.unackd + Empties(Pending) <= AckThreshold + ship.empty

\* The stop block is the last, for whoever wants ship_reader to stop.
HaltInv ==
  /\ finalizer.at = "recv" /\ client.at = "recv" => OutHi < StopBlock
  /\ finalizer.at = "stop" =>
       /\ final.items = << >> /\ processor.at # "send"
       /\ blocks.items = << >> /\ deserializer.at # "send"
       /\ ~Ended(deserializer) => KindsIn({"abi", "status", "empty"}) /\ ship.next > StopBlock
  /\ finalizer.at = "drain" => stop > 0 \/ Ended(reader) \/ Ended(client)
  /\ main = "join" => stop > 0 \/ Ended(reader)

ProgressInv == GoneInv /\ AnswersInv /\ CountInv /\ WindowInv /\ HaltInv

-------------------------------------------------------------------------------
(***************************************************************************)
(* The invariants are enough.                                              *)
(***************************************************************************)
\* A channel that nobody can take from is empty, and has room unless it is closed.
LEMMA IdleChannel ==
  ASSUME NEW S, NEW cap \in Nat \ {0}, NEW ch \in Channel(S, cap), ~Ready(ch)
  PROVE  /\ ch.items = << >> /\ Len(ch.items) = 0
         /\ IsClosed(ch) \/ HasRoom(ch, cap)
         /\ Exhausted(ch) \/ ch.tx
BY EmptySeq DEF Ready, IsClosed, HasRoom, Exhausted

\* Sizes are not zero.
LEMMA RoomForOne ==
  /\ RawCap \in Nat \ {0} /\ BlockCap \in Nat \ {0}
  /\ FinalCap \in Nat \ {0} /\ OutCap \in Nat \ {0}
BY PipelineAssumption

\* When nothing moves, no task waits for room: the channels are empty.
LEMMA NobodySends ==
  ASSUME PipelineInv, ProgressInv, ~CanMove
  PROVE  /\ reader.at \in {"read", "ok", "err"}
         /\ deserializer.at \in {"abi", "recv", "ok", "err"}
         /\ processor.at \in {"recv", "ok"}
         /\ finalizer.at \in {"recv", "stop", "drain", "ok", "err"}
         /\ deserializer.at \in {"abi", "recv"} => ~Ready(raw)
<1>0. /\ raw \in Channel(Messages, RawCap) /\ blocks \in Channel(Int, BlockCap)
      /\ final \in Channel(Int, FinalCap) /\ out \in Channel(Int, OutCap)
      /\ reader.at \in {"read", "send", "ok", "err"}
      /\ deserializer.at \in {"abi", "recv", "send", "ack", "ok", "err"}
      /\ processor.at \in {"recv", "send", "ok"}
      /\ finalizer.at \in {"recv", "send", "stop", "drain", "ok", "err"}
      /\ client.at \in {"recv", "ok", "err"}
  BY DEF PipelineInv, TypeOK, Readers, Deserializers, Processors, Finalizers, Clients
<1>1. deserializer.at \in {"abi", "recv"} => ~Ready(raw)
  <2> SUFFICES ASSUME deserializer.at \in {"abi", "recv"}, Ready(raw) PROVE FALSE
    OBVIOUS
  <2>1. deserializer.at = "recv" /\ Head(raw.items).kind \notin {"status", "block", "empty"}
    BY DEF CanMove, CanReceive
  <2>2. Head(raw.items) = raw.items[1] /\ 1 \in 1..Len(raw.items)
    BY <1>0, WaitingSize DEF Ready, PipelineInv
  <2>3. KindsIn({"status"}) \/ KindsIn({"block", "empty"})
    BY <2>1 DEF PipelineInv, ProgressInv, AnswersInv, PhaseInv, Ended
  <2> QED
    BY <2>1, <2>2, <2>3 DEF KindsIn
<1>2. finalizer.at # "send"
  <2>1. ~(finalizer.at = "send" /\ (HasRoom(out, OutCap) \/ IsClosed(out)))
    BY DEF CanMove, CanSend
  <2>2. client.at = "recv" => ~Ready(out)
    BY DEF CanMove, CanReceive
  <2>3. client.at # "recv" => IsClosed(out)
    BY <1>0 DEF ProgressInv, GoneInv, Ended, IsClosed
  <2> QED
    BY <1>0, <2>1, <2>2, <2>3, IdleChannel, RoomForOne
<1>3. processor.at # "send"
  <2>1. ~(processor.at = "send" /\ (HasRoom(final, FinalCap) \/ IsClosed(final)))
    BY DEF CanMove, CanSend
  <2>2. finalizer.at \in {"recv", "drain"} => ~Ready(final)
    BY DEF CanMove, CanReceive
  <2>3. finalizer.at = "stop" => ~Ready(final)
    BY DEF ProgressInv, HaltInv, Ready
  <2>4. finalizer.at \in {"ok", "err"} /\ processor.at = "send" => IsClosed(final)
    BY DEF ProgressInv, GoneInv, Ended, IsClosed
  <2> QED
    BY <1>0, <1>2, <2>1, <2>2, <2>3, <2>4, IdleChannel, RoomForOne
<1>4. deserializer.at \notin {"send", "ack"}
  <2>1. ~(deserializer.at = "send" /\ (HasRoom(blocks, BlockCap) \/ IsClosed(blocks)))
        /\ deserializer.at # "ack"
    BY DEF CanMove, CanSend
  <2>2. processor.at = "recv" => ~Ready(blocks)
    BY DEF CanMove, CanReceive
  <2>3. processor.at = "ok" /\ deserializer.at = "send" => IsClosed(blocks)
    BY DEF ProgressInv, GoneInv, Ended, IsClosed
  <2> QED
    BY <1>0, <1>3, <2>1, <2>2, <2>3, IdleChannel, RoomForOne
<1>5. reader.at # "send"
  <2>1. ~(reader.at = "send" /\ (HasRoom(raw, RawCap) \/ IsClosed(raw)))
    BY DEF CanMove, CanSend
  <2>2. deserializer.at \in {"ok", "err"} /\ reader.at = "send" => IsClosed(raw)
    BY DEF ProgressInv, GoneInv, Ended, IsClosed
  <2> QED
    BY <1>0, <1>1, <1>4, <2>1, <2>2, IdleChannel, RoomForOne
<1> QED
  BY <1>0, <1>1, <1>2, <1>3, <1>4, <1>5

\* When nothing moves and the run is not over, the client waits for a block, and so
\* does every task above it, up to ship_reader.
LEMMA AllWait ==
  ASSUME PipelineInv, ProgressInv, ~CanMove, ~Over
  PROVE  /\ client.at = "recv" /\ out.items = << >>
         /\ finalizer.at = "recv" /\ final.items = << >>
         /\ processor.at = "recv" /\ blocks.items = << >>
         /\ deserializer.at \in {"abi", "recv"} /\ raw.items = << >>
         /\ reader.at = "read" /\ ws.items = << >> /\ ws.open
<1>0. /\ raw \in Channel(Messages, RawCap) /\ blocks \in Channel(Int, BlockCap)
      /\ final \in Channel(Int, FinalCap) /\ out \in Channel(Int, OutCap)
      /\ client.at \in {"recv", "ok", "err"} /\ main \in {"client", "shutdown", "join"}
      /\ stop \in 0..1
  BY DEF PipelineInv, TypeOK, Over, Clients
<1>1. /\ reader.at \in {"read", "ok", "err"}
      /\ deserializer.at \in {"abi", "recv", "ok", "err"}
      /\ processor.at \in {"recv", "ok"}
      /\ finalizer.at \in {"recv", "stop", "drain", "ok", "err"}
      /\ deserializer.at \in {"abi", "recv"} => ~Ready(raw)
  BY NobodySends
\* Who waits for an item has a sender.
<1>2. /\ reader.at = "read" => ws.items = << >> /\ ws.open /\ stop = 0
      /\ deserializer.at \in {"abi", "recv"} => raw.items = << >> /\ raw.tx
      /\ processor.at = "recv" => blocks.items = << >> /\ blocks.tx
      /\ finalizer.at \in {"recv", "drain"} => final.items = << >> /\ final.tx
      /\ client.at = "recv" => out.items = << >> /\ out.tx
  <2>1. reader.at = "read" => ws.items = << >> /\ ws.open /\ stop = 0
    BY <1>0 DEF CanMove
  <2>2. deserializer.at \in {"abi", "recv"} => raw.items = << >> /\ raw.tx
    <3>1. deserializer.at \in {"abi", "recv"} => ~Ready(raw) /\ ~Exhausted(raw)
      BY <1>1 DEF CanMove, CanReceive
    <3> QED
      BY <1>0, <3>1, IdleChannel, RoomForOne
  <2>3. processor.at = "recv" => blocks.items = << >> /\ blocks.tx
    <3>1. processor.at = "recv" => ~Ready(blocks) /\ ~Exhausted(blocks)
      BY DEF CanMove, CanReceive
    <3> QED
      BY <1>0, <3>1, IdleChannel, RoomForOne
  <2>4. finalizer.at \in {"recv", "drain"} => final.items = << >> /\ final.tx
    <3>1. finalizer.at \in {"recv", "drain"} => ~Ready(final) /\ ~Exhausted(final)
      BY DEF CanMove, CanReceive
    <3> QED
      BY <1>0, <3>1, IdleChannel, RoomForOne
  <2>5. client.at = "recv" => out.items = << >> /\ out.tx
    <3>1. client.at = "recv" => ~Ready(out) /\ ~Exhausted(out)
      BY DEF CanMove, CanReceive
    <3> QED
      BY <1>0, <3>1, IdleChannel, RoomForOne
  <2> QED
    BY <2>1, <2>2, <2>3, <2>4, <2>5
<1>3. /\ Ended(reader) => Ended(deserializer)
      /\ Ended(deserializer) => Ended(processor)
      /\ Ended(processor) => finalizer.at = "stop" \/ Ended(finalizer)
      /\ Ended(finalizer) => Ended(client)
  BY <1>0, <1>1, <1>2 DEF ProgressInv, GoneInv, Ended
<1>4. finalizer.at = "stop" => stop # 0 /\ ~Ended(reader)
  BY DEF CanMove, CanRequestStop
\* Otherwise run_client could go on.
<1>5. client.at = "recv"
  <2> SUFFICES ASSUME Ended(client) PROVE FALSE
    BY <1>0 DEF Ended
  <2>1. main \in {"shutdown", "join"}
    BY <1>0 DEF CanMove
  <2>2. ~Ended(reader) => stop = 0
    BY <1>1, <1>2 DEF Ended
  <2>3. main = "join" /\ Ended(reader)
    BY <2>1, <2>2 DEF CanMove, CanRequestStop, ProgressInv, HaltInv
  <2>4. TasksEnded
    BY <1>3, <1>4, <2>3 DEF TasksEnded
  <2> QED
    BY <2>3, <2>4 DEF CanMove
<1>6. ~Ended(finalizer) /\ ~Ended(client)
  BY <1>3, <1>5 DEF Ended
<1>7. finalizer.at # "stop"
  BY <1>0, <1>4, <1>6 DEF PipelineInv, StopInv, Ended
<1>8. ~Ended(reader) /\ ~Ended(deserializer) /\ ~Ended(processor)
  BY <1>3, <1>6, <1>7
<1>9. finalizer.at # "drain"
  BY <1>1, <1>2, <1>6, <1>8 DEF ProgressInv, HaltInv, Ended
<1> QED
  BY <1>1, <1>2, <1>5, <1>6, <1>7, <1>8, <1>9 DEF Ended

\* No message, no result without a block.
LEMMA NoEmpties == Empties(<< >>) = 0
<1>1. {i \in 1..Len(<< >>) : << >>[i].kind = "empty"} = {}
  BY EmptySeq
<1> QED
  BY <1>1, FS_EmptySet DEF Empties

\* The invariants are enough.
LEMMA InvNeverStuck == PipelineInv /\ ProgressInv => NeverStuck
<1> SUFFICES ASSUME PipelineInv, ProgressInv, ~Over, ~CanMove PROVE AwaitsNode
  BY DEF NeverStuck
<1>0. TypeOK /\ PhaseInv /\ EndsInv /\ DeliveryInv /\ CountInv /\ WindowInv /\ HaltInv
  BY DEF PipelineInv, ProgressInv
<1>1. /\ client.at = "recv" /\ out.items = << >>
      /\ finalizer.at = "recv" /\ final.items = << >>
      /\ processor.at = "recv" /\ blocks.items = << >>
      /\ deserializer.at \in {"abi", "recv"} /\ raw.items = << >>
      /\ reader.at = "read" /\ ws.items = << >> /\ ws.open
  BY AllWait
<1>2. ~Ended(reader) /\ ~Ended(deserializer) /\ ~Ended(processor) /\ Flowing
  BY <1>1 DEF Ended, Flowing
<1>3. Pending = << >> /\ Waiting = 0
  <2>1. InHand = << >> /\ Held(reader) = 0
    BY <1>1 DEF InHand, Held
  <2> QED
    BY <1>1, <2>1, EmptySeq, ConcatEmptySeq DEF Pending, Waiting
\* Everything sent is with the client.
<1>4. OutHi = client.last /\ DeserHi = client.last /\ client.last \in Int /\ ship.next \in Int
  <2>1. client.last \in Int /\ ship.next \in Int
    BY <1>0, Stages
  <2>2. /\ Len(out.items) = 0 /\ Len(final.items) = 0 /\ Len(blocks.items) = 0
        /\ Held(finalizer) = 0 /\ Held(processor) = 0 /\ Held(deserializer) = 0
    BY <1>1, EmptySeq DEF Held
  <2> QED
    BY <2>1, <2>2 DEF OutHi, FinHi, FinalHi, ProcHi, BlocksHi, DeserHi
<1>5. client.last = ship.next - 1
  <2>1. FlowInv
    BY <1>0, <1>2 DEF DeliveryInv
  <2>2. Run(Pending, DeserHi, ship.next - 1) /\ DeserHi <= ship.next - 1
    BY <1>2, <2>1 DEF FlowInv
  <2>3. ship.next - 1 <= DeserHi
    BY <1>3, <1>4, <2>2, RunEmpty
  <2> QED
    BY <1>4, <2>2, <2>3
<1>6. ship.phase \in {"abi", "status", "blocks"}
  BY <1>0, <1>1, <1>2, <1>3 DEF CountInv, Connected, TypeOK, Ships
<1>7. ASSUME ship.phase = "blocks"
      PROVE  ship.next <= StopBlock /\ ship.inFlight < MaxInFlight
  <2>1. deserializer.at = "recv" /\ blocks.rx
    BY <1>0, <1>1, <1>2, <1>7 DEF PhaseInv, EndsInv
  <2>2. ship.inFlight = deserializer.unackd
    BY <1>0, <1>1, <1>2, <1>3, <1>7, WaitingSize DEF CountInv, Connected
  <2>3. deserializer.unackd <= AckThreshold + ship.empty /\ ship.empty <= MaxEmpty
    BY <1>0, <1>2, <1>3, <2>1, NoEmpties, WaitingSize DEF WindowInv
  <2>4. /\ AckThreshold \in Nat /\ MaxEmpty \in Nat /\ MaxInFlight \in Nat /\ StopBlock \in Nat
        /\ MaxEmpty + AckThreshold < MaxInFlight /\ ship.empty \in Nat
        /\ deserializer.unackd \in Nat
    BY <1>0, PipelineAssumption DEF TypeOK, Ships, Deserializers
  <2>5. ship.inFlight < MaxInFlight
    BY <2>2, <2>3, <2>4
  <2>6. OutHi < StopBlock
    BY <1>0, <1>1 DEF HaltInv
  <2> QED
    BY <1>4, <1>5, <2>4, <2>5, <2>6
<1> QED
  BY <1>1, <1>5, <1>6, <1>7 DEF AwaitsNode

-------------------------------------------------------------------------------
(***************************************************************************)
(* They hold.                                                              *)
(***************************************************************************)
\* Every step keeps GoneInv.
LEMMA GonePreserved ==
  ASSUME TypeOK, GoneInv, [Next]_vars
  PROVE  GoneInv'
<1> USE Capacities DEF GoneInv, Ended, channels, tasks
<1>0. /\ raw \in Channel(Messages, RawCap) /\ blocks \in Channel(Int, BlockCap)
      /\ final \in Channel(Int, FinalCap) /\ out \in Channel(Int, OutCap)
      /\ reader \in Readers /\ deserializer \in Deserializers /\ processor \in Processors
      /\ finalizer \in Finalizers /\ client \in Clients
  BY DEF TypeOK
<1>1. CASE Ship \/ ShipEmptyResult \/ ShipCloses
  BY <1>1 DEF Ship, ShipAbi, ShipStatus, ShipBlock, ShipEmptyResult, ShipCloses
<1>2. CASE ReaderReceives
  BY <1>2 DEF ReaderReceives
<1>3. CASE ReaderSends
  BY <1>0, <1>3, PutChannel DEF ReaderSends, Readers
<1>4. CASE ReaderStops
  BY <1>0, <1>4, DroppedChannel DEF ReaderStops, ReaderEnds
<1>5. CASE DeserializeAbi
  BY <1>0, <1>5, TakenChannel DEF DeserializeAbi, Deserializers
<1>6. CASE DeserializeStatus
  BY <1>0, <1>6, TakenChannel DEF DeserializeStatus
<1>7. CASE DeserializeBlock
  BY <1>0, <1>7, TakenChannel DEF DeserializeBlock, Deserializers
<1>8. CASE DeserializeEmpty
  BY <1>0, <1>8, TakenChannel DEF DeserializeEmpty, Deserializers
<1>9. CASE DeserializerSends
  BY <1>0, <1>9, PutChannel DEF DeserializerSends, Deserializers
<1>10. CASE DeserializerAcks
  BY <1>0, <1>10 DEF DeserializerAcks, Deserializers
<1>11. CASE DeserializerStops
  <2>1. PICK result \in {"ok", "err"} : DeserializerEnds(result)
    BY <1>11 DEF DeserializerStops
  <2> QED
    BY <1>0, <2>1, DroppedChannel DEF DeserializerEnds
<1>12. CASE ProcessorReceives
  BY <1>0, <1>12, TakenChannel DEF ProcessorReceives
<1>13. CASE ProcessorSends
  BY <1>0, <1>13, PutChannel DEF ProcessorSends, Processors
<1>14. CASE ProcessorStops
  BY <1>0, <1>14, DroppedChannel DEF ProcessorStops
<1>15. CASE FinalizerReceives
  BY <1>0, <1>15, TakenChannel DEF FinalizerReceives
<1>16. CASE FinalizerSends
  BY <1>0, <1>16, PutChannel DEF FinalizerSends, Finalizers
<1>17. CASE FinalizerSendFails
  BY <1>17 DEF FinalizerSendFails
<1>18. CASE FinalizerRequestsStop
  BY <1>0, <1>18 DEF FinalizerRequestsStop, Finalizers
<1>19. CASE FinalizerDrains
  BY <1>0, <1>19, TakenChannel DEF FinalizerDrains
<1>20. CASE FinalizerStops
  <2>1. PICK result \in {"ok", "err"} : FinalizerEnds(result)
    BY <1>20 DEF FinalizerStops
  <2> QED
    BY <1>0, <2>1, DroppedChannel DEF FinalizerEnds
<1>21. CASE ClientReceives
  BY <1>0, <1>21, TakenChannel DEF ClientReceives, Clients
<1>22. CASE ClientStops
  <2>1. PICK result \in {"ok", "err"} : ClientEnds(result)
    BY <1>22 DEF ClientStops
  <2> QED
    BY <1>0, <2>1, DroppedChannel DEF ClientEnds, Clients
<1>23. CASE Main
  BY <1>23 DEF Main, MainSeesClientEnd, MainRequestsStop, MainJoins
<1>24. CASE ConnectFails
  BY <1>0, <1>24, DroppedChannel
  DEF ConnectFails, Readers, Deserializers, Processors, Finalizers
<1>25. CASE UNCHANGED vars
  BY <1>25 DEF vars
<1>26. CASE ReaderFails
  BY <1>26, ReadFailure
<1> QED
  BY <1>1, <1>2, <1>3, <1>4, <1>5, <1>6, <1>7, <1>8, <1>9, <1>10, <1>11, <1>12, <1>13, <1>14,
     <1>15, <1>16, <1>17, <1>18, <1>19, <1>20, <1>21, <1>22, <1>23, <1>24, <1>25, <1>26
  DEF Next, Reader, Deserializer, Processor, Finalizer, Client

\* What is pending is a sequence of messages, as long as Waiting says.
LEMMA PendingSize ==
  ASSUME TypeOK
  PROVE  InHand \in Seq(Messages) /\ Pending \in Seq(Messages) /\ Len(Pending) = Waiting
<1>1. /\ raw.items \in Seq(Messages) /\ ws.items \in Seq(Messages) /\ reader.msg \in Messages
      /\ Len(raw.items) \in Nat /\ Len(ws.items) \in Nat
  BY WaitingSize DEF TypeOK, Readers
<1>2. InHand \in Seq(Messages) /\ Len(InHand) = Held(reader)
  BY <1>1, EmptySeq DEF InHand, Held
<1>3. /\ raw.items \o InHand \in Seq(Messages)
      /\ Len(raw.items \o InHand) = Len(raw.items) + Len(InHand)
  BY <1>1, <1>2, ConcatProperties
<1> DEFINE front == raw.items \o InHand
<1>4. front \in Seq(Messages) /\ Pending = front \o ws.items
  BY <1>3 DEF Pending
<1> HIDE DEF front
<1>5. Pending \in Seq(Messages) /\ Len(Pending) = Len(front) + Len(ws.items)
  BY <1>1, <1>4, ConcatProperties
<1> QED
  BY <1>2, <1>3, <1>5 DEF Waiting, front

\* What the steps of the node, of ship_reader and of the deserializer do to it.
LEMMA PendingSteps ==
  ASSUME TypeOK, EndsInv
  PROVE  /\ \A m \in Messages : ShipSends(m) /\ UNCHANGED <<raw, reader>>
               => Pending' = Append(Pending, m)
         /\ UNCHANGED <<raw, reader>> /\ ws'.items = ws.items => Pending' = Pending
         /\ Reader /\ ~Ended(reader') /\ ~Ended(deserializer) => Pending' = Pending
         /\ Ready(raw) /\ raw' = Taken(raw) /\ UNCHANGED <<ws, reader>> =>
              /\ Pending # << >> /\ Head(Pending) = Head(raw.items) /\ Pending' = Tail(Pending)
              /\ 1 \in 1..Len(raw.items) /\ Head(raw.items) = raw.items[1]
<1>0. /\ ws \in [items : Seq(Messages), open : BOOLEAN, failed : BOOLEAN] /\ reader \in Readers
      /\ raw \in Channel(Messages, RawCap)
      /\ raw.items \in Seq(Messages) /\ ws.items \in Seq(Messages) /\ reader.msg \in Messages
      /\ InHand \in Seq(Messages)
  BY WaitingSize, PendingSize DEF TypeOK, Readers
<1>1. ASSUME NEW m \in Messages, ShipSends(m), UNCHANGED <<raw, reader>>
      PROVE  Pending' = Append(Pending, m)
  <2>1. ws'.items = Append(ws.items, m) /\ InHand' = InHand
    BY <1>0, <1>1 DEF ShipSends, InHand
  <2>2. raw.items \o InHand \in Seq(Messages)
    BY <1>0, ConcatProperties
  <2>3. (raw.items \o InHand) \o Append(ws.items, m)
          = Append((raw.items \o InHand) \o ws.items, m)
    BY <1>0, <2>2, AppendBehind
  <2> QED
    BY <1>1, <2>1, <2>3 DEF Pending
<1>2. ASSUME UNCHANGED <<raw, reader>>, ws'.items = ws.items PROVE Pending' = Pending
  BY <1>2 DEF Pending, InHand
<1>3. ASSUME Reader, ~Ended(reader'), ~Ended(deserializer) PROVE Pending' = Pending
  <2>1. CASE ReaderReceives
    <3>1. /\ reader.at = "read" /\ ws.items # << >> /\ raw' = raw /\ ~IsClosed(raw)
          /\ ws'.items = Tail(ws.items)
          /\ reader' = [at |-> "send", msg |-> Head(ws.items)]
      BY <1>0, <1>3, <2>1 DEF ReaderReceives, channels, EndsInv, IsClosed
    <3>2. InHand = << >> /\ InHand' = <<Head(ws.items)>>
      BY <3>1 DEF InHand
    <3> QED
      BY <1>0, <3>1, <3>2, QueuesMove DEF Pending
  <2>2. CASE ReaderSends
    <3>1. /\ reader.at = "send" /\ reader' = [at |-> "read", msg |-> NoMessage] /\ ws' = ws
          /\ raw'.items = Append(raw.items, reader.msg)
      BY <1>0, <2>2, PutChannel, Capacities DEF ReaderSends
    <3>2. InHand = <<reader.msg>> /\ InHand' = << >>
      BY <3>1 DEF InHand
    <3> QED
      BY <1>0, <3>1, <3>2, QueuesMove DEF Pending
  <2>3. CASE ReaderStops
    BY <1>3, <2>3 DEF ReaderStops, ReaderEnds, Ended
  <2> QED
    BY <1>3, <2>1, <2>2, <2>3 DEF Reader
<1>4. ASSUME Ready(raw), raw' = Taken(raw), UNCHANGED <<ws, reader>>
      PROVE  /\ Pending # << >> /\ Head(Pending) = Head(raw.items) /\ Pending' = Tail(Pending)
             /\ 1 \in 1..Len(raw.items) /\ Head(raw.items) = raw.items[1]
  <2>1. raw.items # << >> /\ raw'.items = Tail(raw.items) /\ InHand' = InHand
    BY <1>0, <1>4, TakenChannel, Capacities DEF Ready, InHand
  <2>2. Pending' = (Tail(raw.items) \o InHand) \o ws.items
    BY <1>4, <2>1 DEF Pending
  <2>3. 1 \in 1..Len(raw.items) /\ Head(raw.items) = raw.items[1]
    BY <1>0, <1>4, WaitingSize
  <2> QED
    BY <1>0, <2>1, <2>2, <2>3, TailInFront DEF Pending
<1> QED
  BY <1>1, <1>2, <1>3, <1>4

\* Only the node puts a message of another kind on its way.
LEMMA KindsKept ==
  ASSUME TypeOK
  PROVE  /\ Reader \/ Deserializer => \A kinds : KindsIn(kinds) => KindsIn(kinds)'
         /\ \A m \in Messages : \A kinds : ShipSends(m) /\ UNCHANGED <<raw, reader>>
               /\ KindsIn(kinds) /\ m.kind \in kinds => KindsIn(kinds)'
<1>0. /\ raw \in Channel(Messages, RawCap) /\ ws \in [items : Seq(Messages), open : BOOLEAN, failed : BOOLEAN]
      /\ raw.items \in Seq(Messages) /\ ws.items \in Seq(Messages) /\ reader \in Readers
  BY WaitingSize DEF TypeOK
<1>1. ASSUME NEW m \in Messages, NEW kinds, ShipSends(m), UNCHANGED <<raw, reader>>,
             KindsIn(kinds), m.kind \in kinds
      PROVE  KindsIn(kinds)'
  <2>1. ws'.items = Append(ws.items, m) /\ AllIn(ws.items, kinds)
    BY <1>0, <1>1, KindsDef DEF ShipSends
  <2>2. AllIn(ws'.items, kinds)
    BY <1>0, <1>1, <2>1, KindsOfQueue
  <2> QED
    BY <1>1, <2>2 DEF KindsIn, AllIn
<1>2. ASSUME Reader \/ Deserializer, NEW kinds, KindsIn(kinds)
      PROVE  KindsIn(kinds)'
  <2>0. AllIn(raw.items, kinds) /\ AllIn(ws.items, kinds)
        /\ (reader.at = "send" => reader.msg.kind \in kinds)
    BY <1>2, KindsDef
  <2>1. CASE ReaderReceives
    <3>1. ws.items # << >> /\ raw' = raw /\ ws'.items = Tail(ws.items)
          /\ (reader' = reader \/ reader' = [at |-> "send", msg |-> Head(ws.items)])
      BY <1>0, <2>1 DEF ReaderReceives, channels
    <3>2. Head(ws.items).kind \in kinds /\ AllIn(ws'.items, kinds)
      BY <1>0, <2>0, <3>1, KindsOfQueue
    <3> QED
      BY <2>0, <3>1, <3>2 DEF KindsIn, AllIn
  <2>2. CASE ReaderSends
    <3>1. reader.at = "send" /\ reader'.at = "read" /\ ws' = ws /\ reader.msg \in Messages
          /\ raw'.items = Append(raw.items, reader.msg)
      BY <1>0, <2>2, PutChannel, Capacities DEF ReaderSends, Readers
    <3>2. AllIn(raw'.items, kinds)
      BY <1>0, <2>0, <3>1, KindsOfQueue
    <3> QED
      BY <2>0, <3>1, <3>2 DEF KindsIn, AllIn
  <2>3. CASE ReaderStops
    <3>1. reader'.at = "ok" /\ ws'.items = << >> /\ raw'.items = raw.items
      BY <1>0, <2>3, DroppedChannel, Capacities DEF ReaderStops, ReaderEnds
    <3> QED
      BY <2>0, <3>1, EmptySeq DEF KindsIn, AllIn
  <2>4. CASE Deserializer
    <3>1. /\ UNCHANGED <<ws, reader>>
          /\ \/ raw' = raw
             \/ Ready(raw) /\ raw' = Taken(raw)
             \/ raw' = DropRx(raw)
      BY <2>4 DEF Deserializer, DeserializeAbi, DeserializeStatus, DeserializeBlock,
         DeserializeEmpty, DeserializerSends, DeserializerAcks, DeserializerStops,
         DeserializerEnds, channels, tasks
    <3>2. \/ raw'.items \in {raw.items, << >>}
          \/ raw.items # << >> /\ raw'.items = Tail(raw.items)
      BY <1>0, <3>1, TakenChannel, DroppedChannel, Capacities DEF Ready
    <3>3. AllIn(raw'.items, kinds)
      BY <1>0, <2>0, <3>2, KindsOfQueue
    <3> QED
      BY <2>0, <3>1, <3>3 DEF KindsIn, AllIn
  <2> QED
    BY <1>2, <2>1, <2>2, <2>3, <2>4 DEF Reader
<1> QED
  BY <1>1, <1>2

\* How the number of results without a block in a queue changes.
LEMMA EmptiesMove ==
  ASSUME NEW q \in Seq(Messages)
  PROVE  /\ Empties(q) \in Nat
         /\ \A m \in Messages :
              /\ m.kind = "empty" => Empties(Append(q, m)) = Empties(q) + 1
              /\ m.kind # "empty" => Empties(Append(q, m)) = Empties(q)
         /\ q # << >> =>
              /\ Head(q).kind = "empty" => Empties(q) = Empties(Tail(q)) + 1
              /\ Head(q).kind # "empty" => Empties(q) = Empties(Tail(q))
<1> DEFINE At(s) == {i \in 1..Len(s) : s[i].kind = "empty"}
<1>1. ASSUME NEW s \in Seq(Messages)
      PROVE  IsFiniteSet(At(s)) /\ Cardinality(At(s)) \in Nat /\ Empties(s) = Cardinality(At(s))
             /\ At(s) \subseteq 1..Len(s) /\ Len(s) \in Nat
  <2>1. Len(s) \in Nat /\ At(s) \in SUBSET (1..Len(s))
    BY LenProperties
  <2>2. IsFiniteSet(1..Len(s))
    BY <2>1, FS_Interval
  <2>3. IsFiniteSet(At(s)) /\ Empties(s) = Cardinality(At(s))
    BY <2>1, <2>2, FS_Subset DEF Empties
  <2> QED
    BY <2>1, <2>3, FS_CardinalityType
<1>2. ASSUME NEW m \in Messages
      PROVE  /\ m.kind = "empty" => Empties(Append(q, m)) = Empties(q) + 1
             /\ m.kind # "empty" => Empties(Append(q, m)) = Empties(q)
  <2>1. /\ Append(q, m) \in Seq(Messages) /\ Len(Append(q, m)) = Len(q) + 1
        /\ \A i \in 1..Len(q) : Append(q, m)[i] = q[i]
        /\ Append(q, m)[Len(q) + 1] = m /\ Len(q) \in Nat
    BY AppendProperties, LenProperties
  <2>2. /\ Empties(q) = Cardinality(At(q)) /\ IsFiniteSet(At(q))
        /\ Empties(Append(q, m)) = Cardinality(At(Append(q, m)))
    <3> HIDE DEF At
    <3> QED
      BY <1>1, <2>1
  <2>3. ASSUME m.kind = "empty" PROVE Empties(Append(q, m)) = Empties(q) + 1
    <3>1. At(Append(q, m)) = At(q) \cup {Len(q) + 1} /\ Len(q) + 1 \notin At(q)
      BY <2>1, <2>3
    <3> HIDE DEF At
    <3>2. Cardinality(At(q) \cup {Len(q) + 1}) = Cardinality(At(q)) + 1
      BY <2>2, <3>1, FS_AddElement
    <3> QED
      BY <2>2, <3>1, <3>2
  <2>4. ASSUME m.kind # "empty" PROVE Empties(Append(q, m)) = Empties(q)
    <3>1. At(Append(q, m)) = At(q)
      BY <2>1, <2>4
    <3> HIDE DEF At
    <3> QED
      BY <2>2, <3>1
  <2> QED
    BY <2>3, <2>4
<1>3. ASSUME q # << >>
      PROVE  /\ Head(q).kind = "empty" => Empties(q) = Empties(Tail(q)) + 1
             /\ Head(q).kind # "empty" => Empties(q) = Empties(Tail(q))
  <2>1. /\ Tail(q) \in Seq(Messages) /\ Len(Tail(q)) = Len(q) - 1 /\ Head(q) = q[1]
        /\ \A i \in 1..Len(Tail(q)) : Tail(q)[i] = q[i + 1]
        /\ Len(q) \in Nat /\ Len(q) > 0
    BY <1>3, HeadTailProperties, LenProperties, EmptySeq
  <2> DEFINE Later == At(q) \ {1}
             shift == [i \in At(Tail(q)) |-> i + 1]
  <2>2. shift \in Bijection(At(Tail(q)), Later)
    <3>1. \A i \in At(Tail(q)) : i \in Nat /\ i + 1 \in Later
      BY <2>1
    <3>2. \A j \in Later : j - 1 \in At(Tail(q)) /\ (j - 1) + 1 = j
      BY <2>1
    <3>3. shift \in [At(Tail(q)) -> Later]
      BY <3>1
    <3>4. \A i, j \in At(Tail(q)) : shift[i] = shift[j] => i = j
      BY <3>1
    <3>5. \A j \in Later : \E i \in At(Tail(q)) : shift[i] = j
      BY <3>2
    <3> HIDE DEF At, Later, shift
    <3> QED
      BY <3>3, <3>4, <3>5 DEF Bijection, Injection, Surjection, IsInjective
  <2>3. /\ Cardinality(Later) = Empties(Tail(q)) /\ IsFiniteSet(Later)
        /\ Empties(q) = Cardinality(At(q)) /\ Empties(Tail(q)) \in Nat
    <3> HIDE DEF At, Later, shift
    <3>1. ExistsBijection(At(Tail(q)), Later)
      BY <2>2 DEF ExistsBijection
    <3> QED
      BY <1>1, <2>1, <3>1, FS_Bijection
  <2>4. ASSUME Head(q).kind = "empty" PROVE Empties(q) = Empties(Tail(q)) + 1
    <3>1. At(q) = Later \cup {1} /\ 1 \notin Later
      BY <2>1, <2>4
    <3> HIDE DEF At, Later, shift
    <3>2. Cardinality(Later \cup {1}) = Cardinality(Later) + 1
      BY <2>3, <3>1, FS_AddElement
    <3> QED
      BY <2>3, <3>1, <3>2
  <2>5. ASSUME Head(q).kind # "empty" PROVE Empties(q) = Empties(Tail(q))
    <3>1. At(q) = Later
      BY <2>1, <2>5
    <3> HIDE DEF At, Later, shift
    <3> QED
      BY <2>3, <3>1
  <2> QED
    BY <2>4, <2>5
<1>4. Empties(q) \in Nat
  <2> HIDE DEF At
  <2> QED
    BY <1>1
<1> QED
  BY <1>2, <1>3, <1>4

\* The numbers of the three invariants below.
LEMMA ProgressTypes ==
  TypeOK => /\ Pending \in Seq(Messages) /\ Len(Pending) = Waiting /\ Waiting \in Nat
            /\ Empties(Pending) \in Nat /\ deserializer.unackd \in Nat
            /\ ship.inFlight \in Int /\ ship.empty \in Nat /\ ship.next \in Int
            /\ AckThreshold \in Nat /\ MaxEmpty \in Nat
<1> SUFFICES ASSUME TypeOK
             PROVE  /\ Pending \in Seq(Messages) /\ Len(Pending) = Waiting /\ Waiting \in Nat
                    /\ Empties(Pending) \in Nat /\ deserializer.unackd \in Nat
                    /\ ship.inFlight \in Int /\ ship.empty \in Nat /\ ship.next \in Int
                    /\ AckThreshold \in Nat /\ MaxEmpty \in Nat
  OBVIOUS
<1>1. Pending \in Seq(Messages) /\ Len(Pending) = Waiting
  BY PendingSize
<1>2. Waiting \in Nat /\ Empties(Pending) \in Nat
  BY <1>1, EmptiesMove, LenProperties
<1> QED
  BY <1>1, <1>2, PipelineAssumption DEF TypeOK, Ships, Deserializers

\* The node's answers and results are counted when they are sent.
LEMMA NodeProgress ==
  ASSUME TypeOK, PhaseInv, EndsInv, AnswersInv, CountInv, WindowInv,
         Ship \/ ShipEmptyResult \/ ShipCloses, TypeOK'
  PROVE  AnswersInv' /\ CountInv' /\ WindowInv'
<1>0. /\ UNCHANGED <<raw, blocks, reader, deserializer>> /\ ship \in Ships
      /\ ws \in [items : Seq(Messages), open : BOOLEAN, failed : BOOLEAN]
  BY DEF TypeOK, Ship, ShipAbi, ShipStatus, ShipBlock, ShipEmptyResult, ShipCloses, channels,
     tasks
<1>p. (TypeOK => /\ Pending \in Seq(Messages) /\ Len(Pending) = Waiting /\ Waiting \in Nat
            /\ Empties(Pending) \in Nat /\ deserializer.unackd \in Nat
            /\ ship.inFlight \in Int /\ ship.empty \in Nat /\ ship.next \in Int
            /\ AckThreshold \in Nat /\ MaxEmpty \in Nat)'
  BY ProgressTypes, PTL
<1>n. /\ Pending \in Seq(Messages) /\ Len(Pending) = Waiting /\ Waiting \in Nat
      /\ Empties(Pending) \in Nat /\ deserializer.unackd \in Nat
      /\ ship.inFlight \in Int /\ ship.empty \in Nat /\ ship.next \in Int
      /\ AckThreshold \in Nat /\ MaxEmpty \in Nat
      /\ Waiting' = Len(Pending') /\ Empties(Pending') \in Nat
  BY <1>p, ProgressTypes
<1>t. /\ \A num \in Int : \A kind \in {"abi", "status", "block", "empty"} :
           Message(kind, num) \in Messages /\ Message(kind, num).kind = kind
      /\ None \in Int
  BY NoneIsInt DEF Message, Messages
<1>m. ASSUME NEW m \in Messages, ShipSends(m)
      PROVE  /\ Waiting' = Waiting + 1 /\ ws'.open = ws.open
             /\ m.kind = "empty" => Empties(Pending') = Empties(Pending) + 1
             /\ m.kind # "empty" => Empties(Pending') = Empties(Pending)
             /\ \A kinds : KindsIn(kinds) /\ m.kind \in kinds => KindsIn(kinds)'
  <2>1. Pending' = Append(Pending, m) /\ ws'.open = ws.open
    BY <1>0, <1>m, PendingSteps DEF ShipSends
  <2>2. Len(Append(Pending, m)) = Len(Pending) + 1
    BY <1>n, AppendProperties
  <2>4. /\ m.kind = "empty" => Empties(Append(Pending, m)) = Empties(Pending) + 1
        /\ m.kind # "empty" => Empties(Append(Pending, m)) = Empties(Pending)
    BY <1>n, EmptiesMove
  <2>5. \A kinds : KindsIn(kinds) /\ m.kind \in kinds => KindsIn(kinds)'
    BY <1>0, <1>m, KindsKept
  <2> QED
    BY <1>n, <2>1, <2>2, <2>4, <2>5
<1>1. CASE ShipAbi \/ ShipStatus
  <2>1. /\ ship.phase \in {"abi", "status"} /\ ship' = [ship EXCEPT !.phase = "waiting"]
        /\ ShipSends(Message(ship.phase, None))
    BY <1>1 DEF ShipAbi, ShipStatus
  <2>2. ship'.phase = "waiting" /\ ship'.empty = ship.empty
    BY <1>0, <2>1 DEF Ships
  <2>3. Waiting = 0 /\ \A kinds : KindsIn(kinds)
    BY <2>1, WaitingSize DEF PhaseInv
  <2>m. /\ Message(ship.phase, None) \in Messages
        /\ Message(ship.phase, None).kind = ship.phase
    BY <1>t, <2>1
  <2>4. /\ Waiting' = 1 /\ Empties(Pending') = Empties(Pending)
        /\ ship.phase = "abi" => KindsIn({"abi"})'
        /\ ship.phase = "status" => KindsIn({"status"})'
    <3>1. /\ Waiting' = Waiting + 1
          /\ ship.phase # "empty" => Empties(Pending') = Empties(Pending)
          /\ \A kinds : KindsIn(kinds) /\ ship.phase \in kinds => KindsIn(kinds)'
      BY <1>m, <2>1, <2>m
    <3>2. /\ ship.phase = "abi" => KindsIn({"abi"})'
          /\ ship.phase = "status" => KindsIn({"status"})'
      BY <2>3, <3>1
    <3> QED
      BY <2>1, <2>3, <3>1, <3>2
  <2>5. AnswersInv'
    <3>1. ~Ended(deserializer) => (deserializer.at = "abi" <=> ship.phase = "abi")
      BY <2>1 DEF AnswersInv, PhaseInv, KindsIn
    <3> QED
      BY <1>0, <2>1, <2>2, <2>4, <3>1 DEF AnswersInv, Ended
  <2>6. CountInv'
    BY <2>2, <2>4 DEF CountInv
  <2>7. WindowInv'
    BY <1>0, <2>2, <2>4 DEF WindowInv, Ended
  <2> QED
    BY <2>5, <2>6, <2>7
<1>2. CASE ShipBlock \/ ShipEmptyResult
  <2>1. /\ ship.phase = "blocks" /\ ship'.phase = "blocks" /\ ws.open
        /\ ship'.inFlight = ship.inFlight + 1
    BY <1>0, <1>2 DEF ShipBlock, ShipEmptyResult, Ships
  <2>2. \/ /\ ShipSends(Message("block", ship.next)) /\ ship'.empty = ship.empty
        \/ /\ ShipSends(Message("empty", None)) /\ ship'.empty = ship.empty + 1
           /\ ship.empty < MaxEmpty
    BY <1>0, <1>2 DEF ShipBlock, ShipEmptyResult, Ships
  <2>3. /\ Waiting' = Waiting + 1 /\ ws'.open = ws.open
        /\ Empties(Pending') + ship.empty = Empties(Pending) + ship'.empty
        /\ ship'.empty \in Nat /\ (ship.empty <= MaxEmpty => ship'.empty <= MaxEmpty)
    <3>1. CASE /\ ShipSends(Message("block", ship.next)) /\ ship'.empty = ship.empty
      <4>1. Message("block", ship.next) \in Messages /\ Message("block", ship.next).kind = "block"
        BY <1>n, <1>t
      <4>2. Waiting' = Waiting + 1 /\ ws'.open = ws.open /\ Empties(Pending') = Empties(Pending)
        BY <1>m, <3>1, <4>1
      <4> QED
        BY <1>n, <3>1, <4>2
    <3>2. CASE /\ ShipSends(Message("empty", None)) /\ ship'.empty = ship.empty + 1
               /\ ship.empty < MaxEmpty
      <4>1. Message("empty", None) \in Messages /\ Message("empty", None).kind = "empty"
        BY <1>n, <1>t
      <4>2. Waiting' = Waiting + 1 /\ ws'.open = ws.open
            /\ Empties(Pending') = Empties(Pending) + 1
        BY <1>m, <3>2, <4>1
      <4>4. ship'.empty \in Nat /\ (ship.empty <= MaxEmpty => ship'.empty <= MaxEmpty)
        BY <1>n, <3>2
      <4> DEFINE e == Empties(Pending)
                 f == Empties(Pending')
                 s == ship.empty
                 t == ship'.empty
      <4>3. e \in Nat /\ f \in Nat /\ s \in Nat /\ t \in Nat /\ f = e + 1 /\ t = s + 1
        BY <1>n, <3>2, <4>2, <4>4
      <4>5. Empties(Pending') + ship.empty = Empties(Pending) + ship'.empty
        <5>1. f + s = e + t
          <6> HIDE DEF e, f, s, t
          <6> QED
            BY <4>3
        <5> QED
          BY <5>1
      <4> QED
        BY <4>2, <4>4, <4>5
    <3> QED
      BY <2>2, <3>1, <3>2
  <2>4. AnswersInv'
    BY <1>0, <2>1 DEF AnswersInv, PhaseInv, Ended
  <2>5. CountInv'
    <3>1. ASSUME Connected' PROVE ship.inFlight = Waiting + deserializer.unackd
      BY <1>0, <2>1, <2>3, <3>1 DEF CountInv, Connected, Ended
    <3> QED
      BY <1>0, <1>n, <2>1, <2>3, <3>1 DEF CountInv
  <2>6. WindowInv'
    <3>1. /\ Empties(Pending) <= ship.empty => Empties(Pending') <= ship'.empty
          /\ deserializer.unackd + Empties(Pending) <= AckThreshold + ship.empty
               => deserializer.unackd + Empties(Pending') <= AckThreshold + ship'.empty
      <4> DEFINE e == Empties(Pending)
                 f == Empties(Pending')
                 s == ship.empty
                 t == ship'.empty
                 u == deserializer.unackd
      <4>1. /\ e \in Nat /\ f \in Nat /\ s \in Nat /\ t \in Nat /\ u \in Nat
            /\ AckThreshold \in Nat /\ f + s = e + t
        BY <1>n, <2>3
      <4>2. (e <= s => f <= t) /\ (u + e <= AckThreshold + s => u + f <= AckThreshold + t)
        <5> HIDE DEF e, f, s, t, u
        <5> QED
          BY <4>1
      <4> QED
        BY <4>2
    <3> QED
      BY <1>0, <2>3, <3>1 DEF WindowInv, Ended
  <2> QED
    BY <2>4, <2>5, <2>6
<1>3. CASE ShipCloses
  <2>1. ws'.items = ws.items /\ ~ws'.open /\ ship' = ship
    BY <1>0, <1>3 DEF ShipCloses
  <2>2. Pending' = Pending
    BY <1>0, <2>1, PendingSteps
  <2>3. AnswersInv'
    BY <1>0, <2>1 DEF AnswersInv, KindsIn, Ended
  <2>4. CountInv'
    BY <2>1 DEF CountInv, Connected
  <2>5. WindowInv'
    BY <1>0, <2>1, <2>2 DEF WindowInv, Ended
  <2> QED
    BY <2>3, <2>4, <2>5
<1> QED
  BY <1>1, <1>2, <1>3 DEF Ship

\* ship_reader hands them on.
LEMMA ReaderProgress ==
  ASSUME TypeOK, TypeOK', EndsInv, AnswersInv, CountInv, WindowInv, Reader
  PROVE  AnswersInv' /\ CountInv' /\ WindowInv'
<1>1. /\ UNCHANGED <<ship, blocks, deserializer>> /\ ~Ended(reader)
      /\ ws'.open = ws.open
  BY DEF Reader, ReaderReceives, ReaderSends, ReaderStops, ReaderEnds, channels, TypeOK, Ended
<1>2. AnswersInv'
  <2>1. \A kinds : KindsIn(kinds) => KindsIn(kinds)'
    BY KindsKept
  <2> QED
    BY <1>1, <2>1 DEF AnswersInv, Ended
<1>3. ~Ended(reader') /\ ~Ended(deserializer) => Pending' = Pending /\ Waiting' = Waiting
  <2>1. ~Ended(reader') /\ ~Ended(deserializer) => Pending' = Pending
    BY PendingSteps
  <2>2. Waiting = Len(Pending) /\ (TypeOK => Len(Pending) = Waiting)'
    <3>1. TypeOK => Len(Pending) = Waiting
      BY ProgressTypes
    <3>2. (TypeOK => Len(Pending) = Waiting)'
      BY ProgressTypes, PTL
    <3> QED
      BY <3>1, <3>2
  <2> QED
    BY <2>1, <2>2
<1> QED
  BY <1>1, <1>2, <1>3 DEF CountInv, Connected, WindowInv, Ended

\* With nothing on its way, every message on its way is a status.
LEMMA NoneWaiting == TypeOK /\ Waiting = 0 => KindsIn({"status"})
BY WaitingSize

\* The deserializer takes the answers in turn and counts the results.
LEMMA DeserializerProgress ==
  ASSUME TypeOK, TypeOK', PhaseInv, EndsInv, AnswersInv, CountInv, WindowInv, Deserializer
  PROVE  AnswersInv' /\ CountInv' /\ WindowInv'
<1>0. /\ UNCHANGED <<ws, reader>> /\ ship \in Ships /\ deserializer \in Deserializers
      /\ raw \in Channel(Messages, RawCap) /\ blocks \in Channel(Int, BlockCap)
      /\ ship'.empty = ship.empty /\ ship' \in Ships /\ ~Ended(deserializer)
  BY DEF Deserializer, DeserializeAbi, DeserializeStatus, DeserializeBlock, DeserializeEmpty,
     DeserializerSends, DeserializerAcks, DeserializerStops, DeserializerEnds, Requested,
     channels, tasks, TypeOK, Ships, Ended
<1>p. (TypeOK => /\ Pending \in Seq(Messages) /\ Len(Pending) = Waiting /\ Waiting \in Nat
            /\ Empties(Pending) \in Nat /\ deserializer.unackd \in Nat
            /\ ship.inFlight \in Int /\ ship.empty \in Nat /\ ship.next \in Int
            /\ AckThreshold \in Nat /\ MaxEmpty \in Nat)'
  BY ProgressTypes, PTL
<1>n. /\ Pending \in Seq(Messages) /\ Len(Pending) = Waiting /\ Waiting \in Nat
      /\ Empties(Pending) \in Nat /\ deserializer.unackd \in Nat
      /\ ship.inFlight \in Int /\ ship.empty \in Nat
      /\ AckThreshold \in Nat /\ MaxEmpty \in Nat
      /\ Waiting' = Len(Pending') /\ Empties(Pending') \in Nat
      /\ deserializer'.unackd \in Nat
  BY <1>p, ProgressTypes
\* Taking a message from the channel.
<1>t. ASSUME Ready(raw), raw' = Taken(raw)
      PROVE  /\ Waiting > 0 /\ Waiting' = Waiting - 1
             /\ \A kinds : KindsIn(kinds) => Head(raw.items).kind \in kinds
             /\ Head(raw.items).kind = "empty" => Empties(Pending) = Empties(Pending') + 1
             /\ Head(raw.items).kind # "empty" => Empties(Pending) = Empties(Pending')
  <2>1. /\ Pending # << >> /\ Head(Pending) = Head(raw.items) /\ Pending' = Tail(Pending)
        /\ 1 \in 1..Len(raw.items) /\ Head(raw.items) = raw.items[1]
    BY <1>0, <1>t, PendingSteps
  <2>2. Len(Pending) > 0 /\ Len(Tail(Pending)) = Len(Pending) - 1
    BY <1>n, <2>1, HeadTailProperties, EmptySeq
  <2>3. \A kinds : KindsIn(kinds) => Head(raw.items).kind \in kinds
    BY <2>1 DEF KindsIn
  <2>4. /\ Head(Pending).kind = "empty" => Empties(Pending) = Empties(Tail(Pending)) + 1
        /\ Head(Pending).kind # "empty" => Empties(Pending) = Empties(Tail(Pending))
    BY <1>n, <2>1, EmptiesMove
  <2>5. Waiting > 0 /\ Waiting' = Waiting - 1
    BY <1>n, <2>1, <2>2
  <2> QED
    BY <2>1, <2>3, <2>4, <2>5
<1>e. (TypeOK /\ Waiting = 0 => KindsIn({"status"}))'
  BY NoneWaiting, PTL
<1>1. CASE DeserializeAbi
  <2>1. /\ deserializer.at = "abi" /\ Ready(raw) /\ raw' = Taken(raw) /\ blocks' = blocks
        /\ deserializer'.at = "recv" /\ deserializer'.unackd = deserializer.unackd
        /\ IF ws.open THEN ship'.phase = "status" ELSE ship' = ship
    BY <1>0, <1>1 DEF DeserializeAbi, Requested, Deserializers, Ships
  <2>2. ship.phase = "waiting" /\ Waiting = 1 /\ deserializer.unackd = 0
    BY <1>n, <1>t, <2>1 DEF PhaseInv
  <2>3. Waiting' = 0 /\ KindsIn({"status"})'
    BY <1>e, <1>n, <1>t, <2>1, <2>2
  <2>4. AnswersInv'
    BY <1>0, <2>1, <2>2, <2>3 DEF AnswersInv, Ended
  <2>5. CountInv'
    BY <1>0, <2>1, <2>2 DEF CountInv, Connected
  <2>6. WindowInv'
    <3>1. Empties(Pending') <= Empties(Pending)
      BY <1>n, <1>t, <2>1
    <3>2. ~Ended(reader) => Empties(Pending') <= ship.empty
      BY <1>0, <1>n, <3>1 DEF WindowInv
    <3>3. ~Ended(reader) => 0 + Empties(Pending') <= AckThreshold + ship.empty
      BY <1>n, <3>2
    <3> QED
      BY <1>0, <2>1, <2>2, <3>2, <3>3 DEF WindowInv, Ended
  <2> QED
    BY <2>4, <2>5, <2>6
<1>2. CASE DeserializeStatus
  <2>1. /\ deserializer.at = "recv" /\ Ready(raw) /\ raw' = Taken(raw) /\ blocks' = blocks
        /\ Head(raw.items).kind = "status" /\ deserializer' = deserializer
        /\ ship'.inFlight = ship.inFlight
        /\ IF ws.open THEN ship'.phase = "blocks" ELSE ship' = ship
    BY <1>0, <1>2 DEF DeserializeStatus, Requested, tasks, Ships
  <2>2. ship.phase = "waiting" /\ Waiting = 1 /\ deserializer.unackd = 0 /\ ship.inFlight = 0
    <3>1. ship.phase # "blocks"
      BY <1>t, <2>1 DEF PhaseInv
    <3>2. ship.phase \notin {"abi", "status"}
      BY <1>n, <1>t, <2>1 DEF PhaseInv
    <3>3. ship.phase = "waiting"
      BY <1>0, <3>1, <3>2 DEF Ships
    <3> QED
      BY <1>n, <1>t, <2>1, <3>3 DEF PhaseInv
  <2>3. Waiting' = 0 /\ KindsIn({"status"})'
    BY <1>e, <1>n, <1>t, <2>1, <2>2
  <2>4. AnswersInv'
    BY <1>0, <2>1, <2>2, <2>3 DEF AnswersInv, Ended
  <2>5. CountInv'
    BY <1>0, <2>1, <2>2, <2>3 DEF CountInv, Connected
  <2>6. WindowInv'
    <3>1. Empties(Pending') = Empties(Pending)
      BY <1>n, <1>t, <2>1
    <3> QED
      BY <1>0, <2>1, <3>1 DEF WindowInv, Ended
  <2> QED
    BY <2>4, <2>5, <2>6
<1>3. CASE DeserializeBlock \/ DeserializeEmpty
  <2>1. /\ deserializer.at = "recv" /\ Ready(raw) /\ raw' = Taken(raw) /\ blocks' = blocks
        /\ ship' = ship /\ deserializer'.unackd = deserializer.unackd + 1
        /\ deserializer'.at \in {"recv", "send"}
        /\ \/ Head(raw.items).kind = "empty"
           \/ Head(raw.items).kind = "block" /\ (blocks.rx => deserializer'.at = "send")
    BY <1>0, <1>3 DEF DeserializeBlock, DeserializeEmpty, IsClosed, Deserializers
  <2>2. ship.phase = "blocks"
    <3>1. ship.phase # "blocks" => Head(raw.items).kind \in {"abi", "status"}
      BY <1>t, <2>1 DEF PhaseInv
    <3> QED
      BY <2>1, <3>1
  <2>3. Waiting' + deserializer'.unackd = Waiting + deserializer.unackd
    <3> DEFINE w == Waiting
               x == Waiting'
               u == deserializer.unackd
               v == deserializer'.unackd
    <3>1. w \in Nat /\ u \in Nat /\ x = w - 1 /\ v = u + 1
      BY <1>n, <1>t, <2>1
    <3>2. x + v = w + u
      <4> HIDE DEF w, x, u, v
      <4> QED
        BY <3>1
    <3> QED
      BY <3>2
  <2>4. AnswersInv'
    BY <1>0, <2>1, <2>2 DEF AnswersInv, Ended
  <2>5. CountInv'
    BY <1>0, <2>1, <2>2, <2>3 DEF CountInv, Connected, Ended
  <2>6. WindowInv'
    <3>1. Empties(Pending') <= Empties(Pending)
      BY <1>n, <1>t, <2>1
    <3>2. ~Ended(reader) => Empties(Pending') <= ship.empty
      BY <1>0, <1>n, <3>1 DEF WindowInv
    <3>3. CASE Head(raw.items).kind = "empty"
      <4>1. Empties(Pending) = Empties(Pending') + 1
        BY <1>t, <2>1, <3>3
      <4> DEFINE e == Empties(Pending)
                 f == Empties(Pending')
                 u == deserializer.unackd
                 v == deserializer'.unackd
      <4>2. e \in Nat /\ f \in Nat /\ u \in Nat /\ v \in Nat /\ e = f + 1 /\ v = u + 1
        BY <1>n, <2>1, <4>1
      <4>3. v + f = u + e
        <5> HIDE DEF e, f, u, v
        <5> QED
          BY <4>2
      <4> QED
        BY <1>0, <2>1, <3>2, <4>3 DEF WindowInv, Ended
    <3>4. CASE Head(raw.items).kind = "block"
      BY <1>0, <2>1, <3>2, <3>4 DEF WindowInv, Ended
    <3> QED
      BY <2>1, <3>3, <3>4
  <2> QED
    BY <2>4, <2>5, <2>6
<1>4. CASE DeserializerSends \/ DeserializerAcks
  <2>1. /\ deserializer.at \in {"send", "ack"} /\ raw' = raw /\ ship'.phase = ship.phase
        /\ deserializer'.at \in {"recv", "ack"}
    BY <1>0, <1>4 DEF DeserializerSends, DeserializerAcks, Deserializers, Ships, channels
  <2>2. Pending' = Pending /\ Waiting' = Waiting
    BY <1>0, <1>n, <2>1, PendingSteps
  <2>3. \A kinds : KindsIn(kinds) => KindsIn(kinds)'
    BY <1>0, <2>1 DEF KindsIn
  <2>4. AnswersInv'
    BY <1>0, <2>1, <2>3 DEF AnswersInv, Ended
  <2>5. CASE DeserializerSends
    <3>1. /\ ship' = ship /\ deserializer'.unackd = deserializer.unackd
          /\ deserializer'.at = "recv" => ~(deserializer.unackd > AckThreshold)
      BY <1>0, <2>5 DEF DeserializerSends, Deserializers
    <3>2. CountInv'
      BY <1>0, <2>1, <2>2, <3>1 DEF CountInv, Connected, Ended
    <3>3. WindowInv'
      <4>1. /\ ship.empty <= MaxEmpty /\ (~Ended(reader) => Empties(Pending) <= ship.empty)
        BY <1>0 DEF WindowInv
      <4>2. ~Ended(reader) /\ deserializer'.at = "recv"
              => deserializer.unackd + Empties(Pending) <= AckThreshold + ship.empty
        BY <1>n, <3>1, <4>1
      <4> QED
        BY <1>0, <2>2, <3>1, <4>1, <4>2 DEF WindowInv
    <3> QED
      BY <2>4, <3>2, <3>3
  <2>6. CASE DeserializerAcks
    <3>1. /\ deserializer'.unackd = 0
          /\ ws.open => ship'.inFlight = ship.inFlight - deserializer.unackd
      BY <1>0, <2>6 DEF DeserializerAcks, Deserializers, Ships
    <3>2. CountInv'
      <4>1. Connected' => Connected
        BY <1>0, <2>1 DEF Connected, Ended
      <4>2. ASSUME Connected, ship.phase = "blocks"
            PROVE  ship'.inFlight = Waiting + deserializer'.unackd
        <5>1. ship.inFlight = Waiting + deserializer.unackd
          BY <4>2 DEF CountInv
        <5> QED
          BY <1>n, <3>1, <4>2, <5>1 DEF Connected
      <4> QED
        BY <2>1, <2>2, <4>1, <4>2 DEF CountInv
    <3>3. WindowInv'
      <4>1. /\ ship.empty <= MaxEmpty /\ (~Ended(reader) => Empties(Pending) <= ship.empty)
        BY <1>0 DEF WindowInv
      <4>2. ~Ended(reader) => 0 + Empties(Pending) <= AckThreshold + ship.empty
        BY <1>n, <4>1
      <4> QED
        BY <1>0, <2>2, <3>1, <4>1, <4>2 DEF WindowInv
    <3> QED
      BY <2>4, <3>2, <3>3
  <2> QED
    BY <1>4, <2>5, <2>6
<1>5. CASE DeserializerStops
  <2>1. PICK result \in {"ok", "err"} : DeserializerEnds(result)
    BY <1>5 DEF DeserializerStops
  <2>2. Ended(deserializer')
    BY <2>1 DEF DeserializerEnds, Ended
  <2> QED
    BY <1>0, <2>2 DEF AnswersInv, CountInv, Connected, WindowInv, Ended
<1> QED
  BY <1>1, <1>2, <1>3, <1>4, <1>5 DEF Deserializer

\* The others take no part in it.
LEMMA OthersProgress ==
  ASSUME TypeOK, TypeOK', AnswersInv, CountInv, WindowInv,
         Processor \/ Finalizer \/ Client \/ Main \/ ConnectFails \/ ReaderFails
           \/ UNCHANGED vars
  PROVE  AnswersInv' /\ CountInv' /\ WindowInv'
<1>1. CASE ConnectFails
  <2>1. Ended(reader') /\ Ended(deserializer') /\ ship' = ship
    BY <1>1 DEF ConnectFails, TypeOK, Readers, Deserializers, Ended
  <2> QED
    BY <2>1 DEF AnswersInv, CountInv, Connected, WindowInv, Ended
<1>2. CASE Processor \/ Finalizer \/ Client \/ Main \/ UNCHANGED vars
  <2>1. /\ UNCHANGED <<ship, ws, raw, reader, deserializer>>
        /\ blocks' \in {blocks, Taken(blocks), DropRx(blocks)}
    BY <1>2 DEF Processor, ProcessorReceives, ProcessorSends,
         ProcessorStops, Finalizer, FinalizerReceives, FinalizerSends, FinalizerSendFails,
         FinalizerRequestsStop, FinalizerDrains, FinalizerStops, FinalizerEnds, Client,
         ClientReceives, ClientStops, ClientEnds, Main, MainSeesClientEnd, MainRequestsStop,
         MainJoins, vars, channels, tasks
  <2>2. blocks'.rx => blocks.rx
    BY <2>1 DEF TypeOK, Channel, Taken, DropRx
  <2>3. Pending' = Pending /\ Waiting' = Waiting
    BY <2>1 DEF Pending, Waiting, InHand, Held
  <2>4. AnswersInv'
    BY <2>1 DEF AnswersInv, KindsIn, Ended
  <2> QED
    BY <2>1, <2>2, <2>3, <2>4 DEF CountInv, Connected, WindowInv, Ended
<1>3. CASE ReaderFails
  <2>1. /\ Ended(reader') /\ ship' = ship /\ deserializer' = deserializer
        /\ ws'.items = ws.items /\ raw'.items = raw.items /\ reader'.at # "send"
    BY <1>3, ReadFailure DEF Ended
  <2>2. \A kinds : KindsIn(kinds) => KindsIn(kinds)'
    BY <2>1 DEF KindsIn
  <2> QED
    BY <2>1, <2>2 DEF AnswersInv, CountInv, Connected, WindowInv, Ended
<1> QED
  BY <1>1, <1>2, <1>3

\* What is pending is in the channel, in hand or on the websocket, so that where no
\* block is to come, none is among them.
LEMMA NoBlocksPending ==
  ASSUME TypeOK, PhaseInv, NEW n \in Int, Run(Pending, n, n)
  PROVE  KindsIn({"abi", "status", "empty"})
<1>0. /\ raw.items \in Seq(Messages) /\ ws.items \in Seq(Messages) /\ reader.msg \in Messages
      /\ InHand \in Seq(Messages) /\ Len(raw.items) \in Nat /\ Len(ws.items) \in Nat
  BY WaitingSize, PendingSize DEF TypeOK, Readers
<1>1. \A i \in 1..Len(Pending) : Pending[i].kind # "block"
  <2>1. \A i \in 1..Len(Pending) : Pending[i].kind = "block" => Pending[i].num \in (n + 1)..n
    BY DEF Run
  <2>2. (n + 1)..n = {}
    OBVIOUS
  <2> QED
    BY <2>1, <2>2
<1>2. CASE ship.phase # "blocks"
  BY <1>2 DEF PhaseInv, KindsIn
<1>3. CASE ship.phase = "blocks"
  <2>0. KindsIn({"block", "empty"})
    BY <1>3 DEF PhaseInv
  <2> DEFINE front == raw.items \o InHand
  <2>1. /\ front \in Seq(Messages) /\ Len(front) = Len(raw.items) + Len(InHand)
        /\ \A i \in 1..Len(raw.items) : front[i] = raw.items[i]
        /\ Len(InHand) \in Nat
        /\ \A i \in 1..Len(InHand) : front[Len(raw.items) + i] = InHand[i]
    BY <1>0, ConcatProperties, LenProperties
  <2>2. Pending = front \o ws.items
    BY DEF Pending
  <2> HIDE DEF front
  <2>3. /\ Len(Pending) = Len(front) + Len(ws.items) /\ Len(front) \in Nat
        /\ \A i \in 1..Len(front) : Pending[i] = front[i]
        /\ \A i \in 1..Len(ws.items) : Pending[Len(front) + i] = ws.items[i]
    <3>1. ws.items \in Seq(Messages) /\ front \in Seq(Messages)
      BY <1>0, <2>1
    <3>2. /\ Len(front \o ws.items) = Len(front) + Len(ws.items)
          /\ \A i \in 1..(Len(front) + Len(ws.items)) :
               (front \o ws.items)[i] = IF i <= Len(front) THEN front[i]
                                        ELSE ws.items[i - Len(front)]
      BY <3>1, ConcatProperties
    <3>3. Len(front) \in Nat /\ Len(ws.items) \in Nat
      BY <3>1, LenProperties
    <3>4. \A i \in 1..Len(front) : Pending[i] = front[i]
      BY <2>2, <3>2, <3>3
    <3>5. \A i \in 1..Len(ws.items) : Pending[Len(front) + i] = ws.items[i]
      <4> SUFFICES ASSUME NEW i \in 1..Len(ws.items)
                   PROVE  Pending[Len(front) + i] = ws.items[i]
        OBVIOUS
      <4>1. /\ Len(front) + i \in 1..(Len(front) + Len(ws.items))
            /\ ~(Len(front) + i <= Len(front)) /\ (Len(front) + i) - Len(front) = i
        BY <3>3
      <4> QED
        BY <2>2, <3>2, <4>1
    <3> QED
      BY <2>2, <3>2, <3>3, <3>4, <3>5
  <2>4. \A i \in 1..Len(front) : front[i].kind # "block"
    <3> SUFFICES ASSUME NEW i \in 1..Len(front) PROVE front[i].kind # "block"
      OBVIOUS
    <3>1. i \in 1..Len(Pending) /\ Pending[i] = front[i]
      BY <1>0, <2>3
    <3> QED
      BY <1>1, <3>1
  <2>5. \A i \in 1..Len(raw.items) : raw.items[i].kind # "block"
    <3> SUFFICES ASSUME NEW i \in 1..Len(raw.items) PROVE raw.items[i].kind # "block"
      OBVIOUS
    <3>1. i \in 1..Len(front) /\ front[i] = raw.items[i]
      BY <1>0, <2>1
    <3> QED
      BY <2>4, <3>1
  <2>6. \A i \in 1..Len(ws.items) : ws.items[i].kind # "block"
    <3> SUFFICES ASSUME NEW i \in 1..Len(ws.items) PROVE ws.items[i].kind # "block"
      OBVIOUS
    <3>1. Len(front) + i \in 1..Len(Pending) /\ Pending[Len(front) + i] = ws.items[i]
      BY <1>0, <2>3
    <3> QED
      BY <1>1, <3>1
  <2>7. reader.at = "send" => reader.msg.kind # "block"
    <3> SUFFICES ASSUME reader.at = "send" PROVE reader.msg.kind # "block"
      OBVIOUS
    <3>1. InHand = <<reader.msg>>
      BY DEF InHand
    <3>2. Len(InHand) = 1 /\ InHand[1] = reader.msg
      BY <3>1
    <3>3. Len(raw.items) + 1 \in 1..Len(front) /\ front[Len(raw.items) + 1] = reader.msg
      BY <1>0, <2>1, <3>2
    <3> QED
      BY <2>4, <3>3
  <2> QED
    BY <2>0, <2>5, <2>6, <2>7 DEF KindsIn
<1> QED
  BY <1>2, <1>3

\* The final processor: what it has come to at the stop block.
LEMMA HaltFinalizer ==
  ASSUME TypeOK, TypeOK', PhaseInv, EndsInv, GoneInv, DeliveryInv, DeliveryInv', HaltInv, Finalizer
  PROVE  HaltInv'
<1>0. /\ UNCHANGED <<ship, ws, raw, blocks, reader, deserializer, processor, client, main>>
      /\ finalizer \in Finalizers /\ final \in Channel(Int, FinalCap)
      /\ out \in Channel(Int, OutCap) /\ final.items \in Seq(Int)
      /\ (stop' = stop \/ stop' = 1)
  BY ChannelFields, Capacities
  DEF TypeOK, Finalizer, FinalizerReceives, FinalizerSends, FinalizerSendFails,
     FinalizerRequestsStop, FinalizerDrains, FinalizerStops, FinalizerEnds, channels,
     tasks
<1>1. main' = "join" => stop' > 0 \/ Ended(reader')
  BY <1>0 DEF HaltInv
<1>n. /\ OutHi \in Int /\ FinHi \in Int /\ FinalHi \in Int /\ DeserHi \in Int
      /\ ship.next \in Int /\ ship.next <= StopBlock + 1 /\ StopBlock \in Nat
  BY Stages, PipelineAssumption DEF DeliveryInv
<1>2. CASE FinalizerReceives
  <2>1. /\ finalizer.at = "recv" /\ Ready(final) /\ finalizer'.at \in {"send", "drain"}
        /\ finalizer'.at = "drain" => Head(final.items) > StopBlock
    BY <1>2 DEF FinalizerReceives
  <2>2. ASSUME client.at = "recv" PROVE ~(Head(final.items) > StopBlock)
    <3>1. FlowInv
      BY <2>1, <2>2 DEF DeliveryInv, Flowing
    <3>2. Head(final.items) = FinHi + 1
      BY <1>0, <1>n, <2>1, <3>1, NumbersInRow DEF FlowInv, Ready
    <3>3. FinHi + 1 <= FinalHi
      <4>1. Len(final.items) \in Nat /\ Len(final.items) # 0
        BY <1>0, <2>1, EmptySeq, LenProperties DEF Ready
      <4>2. FinalHi = FinHi + Len(final.items)
        BY DEF FinalHi
      <4> QED
        BY <1>n, <4>1, <4>2
    <3>4. FinalHi <= DeserHi /\ DeserHi <= ship.next - 1
      BY <3>1, Stages DEF FlowInv
    <3> QED
      BY <1>n, <3>2, <3>3, <3>4
  <2>3. finalizer'.at = "drain" => Ended(client')
    BY <1>0, <2>1, <2>2 DEF TypeOK, Clients, Ended
  <2> QED
    BY <1>0, <1>1, <2>1, <2>3 DEF HaltInv
<1>3. CASE FinalizerSends
  <2>1. /\ finalizer.at = "send" /\ HasRoom(out, OutCap) /\ out' = Put(out, finalizer.block)
        /\ final' = final
        /\ finalizer'.at = (IF finalizer.block = StopBlock THEN "stop" ELSE "recv")
    BY <1>3 DEF FinalizerSends
  <2>2. client.at = "recv" /\ FlowInv
    <3>1. client.at = "recv"
      BY <2>1 DEF HasRoom, GoneInv, Ended, TypeOK, Clients
    <3> QED
      BY <2>1, <3>1 DEF DeliveryInv, Flowing
  <2>3. OutHi' = FinHi /\ finalizer.block = FinHi
    <3>1. OutHi' = client.last + (Len(out.items) + 1) /\ Held(finalizer) = 1
      BY <1>0, <2>1, PutChannel, Capacities DEF OutHi, Held, TypeOK, Finalizers
    <3>2. client.last \in Int /\ Len(out.items) \in Nat
      BY Stages
    <3>3. FinHi = (client.last + Len(out.items)) + 1
      BY <3>1 DEF FinHi, OutHi
    <3> QED
      BY <2>1, <2>2, <3>1, <3>2, <3>3 DEF FlowInv
  <2>4. FinHi <= DeserHi /\ DeserHi <= ship.next - 1
    BY <2>2, Stages DEF FlowInv
  <2>5. CASE finalizer.block # StopBlock
    <3>1. finalizer'.at = "recv" /\ OutHi' < StopBlock
      BY <1>n, <2>1, <2>3, <2>4, <2>5
    <3> QED
      BY <1>1, <3>1 DEF HaltInv
  <2>6. CASE finalizer.block = StopBlock
    <3>1. finalizer'.at = "stop"
      BY <2>1, <2>6
    <3>2. DeserHi = FinHi /\ ship.next - 1 = DeserHi
      BY <1>n, <2>3, <2>4, <2>6
    <3>3. /\ Len(final.items) = 0 /\ Held(processor) = 0
          /\ Len(blocks.items) = 0 /\ Held(deserializer) = 0
      <4>1. /\ FinalHi = FinHi + Len(final.items) /\ ProcHi = FinalHi + Held(processor)
            /\ BlocksHi = ProcHi + Len(blocks.items) /\ DeserHi = BlocksHi + Held(deserializer)
        BY DEF FinalHi, ProcHi, BlocksHi, DeserHi
      <4>2. /\ Len(final.items) \in Nat /\ Held(processor) \in {0, 1}
            /\ Len(blocks.items) \in Nat /\ Held(deserializer) \in {0, 1}
            /\ FinHi \in Int /\ FinalHi \in Int /\ ProcHi \in Int /\ BlocksHi \in Int
        BY Stages
      <4>3. /\ Len(final.items) \in Nat /\ Held(processor) \in Nat
            /\ Len(blocks.items) \in Nat /\ Held(deserializer) \in Nat
        BY <4>2
      <4> DEFINE a == Len(final.items)
                 b == Held(processor)
                 c == Len(blocks.items)
                 d == Held(deserializer)
      <4>4. /\ a \in Nat /\ b \in Nat /\ c \in Nat /\ d \in Nat /\ FinHi \in Int
            /\ FinHi = ((FinHi + a) + b) + c + d
        BY <3>2, <4>1, <4>2, <4>3
      <4>5. a = 0 /\ b = 0 /\ c = 0 /\ d = 0
        <5> HIDE DEF a, b, c, d
        <5> QED
          BY <4>4
      <4> QED
        BY <4>5
    <3>4. /\ final.items = << >> /\ processor.at # "send"
          /\ blocks.items = << >> /\ deserializer.at # "send"
      <4>1. final.items \in Seq(Int) /\ blocks.items \in Seq(Int)
        BY <1>0, ChannelFields, Capacities DEF TypeOK
      <4> QED
        BY <3>3, <4>1, EmptySeq DEF Held
    <3>5. ship.next > StopBlock
      <4>1. FinHi = StopBlock
        BY <2>3, <2>6
      <4>2. ship.next - 1 = StopBlock
        BY <3>2, <4>1
      <4> QED
        BY <1>n, <4>2
    <3>6. ASSUME ~Ended(deserializer) PROVE KindsIn({"abi", "status", "empty"})
      <4>1. Run(Pending, DeserHi, ship.next - 1)
        BY <2>2, <3>6 DEF FlowInv
      <4>2. Run(Pending, DeserHi, DeserHi)
        BY <3>2, <4>1
      <4> QED
        BY <1>n, <4>2, NoBlocksPending
    <3>7. ~Ended(deserializer) => KindsIn({"abi", "status", "empty"})'
      BY <1>0, <3>6 DEF KindsIn
    <3> QED
      BY <1>0, <1>1, <2>1, <3>1, <3>4, <3>5, <3>7 DEF HaltInv, Ended
  <2> QED
    BY <2>5, <2>6
<1>4. CASE FinalizerSendFails
  <2>1. finalizer'.at = "drain" /\ Ended(client')
    BY <1>0, <1>4 DEF FinalizerSendFails, EndsInv, IsClosed
  <2> QED
    BY <1>1, <2>1 DEF HaltInv
<1>5. CASE FinalizerRequestsStop
  <2>1. finalizer'.at = "drain" /\ stop' = 1
    BY <1>0, <1>5 DEF FinalizerRequestsStop, Finalizers
  <2> QED
    BY <1>1, <2>1 DEF HaltInv
<1>6. CASE FinalizerDrains
  <2>1. finalizer.at = "drain" /\ finalizer'.at = "drain" /\ stop' = stop
    BY <1>6 DEF FinalizerDrains, tasks
  <2> QED
    BY <1>0, <1>1, <2>1 DEF HaltInv, Ended
<1>7. CASE FinalizerStops
  <2>1. PICK result \in {"ok", "err"} : FinalizerEnds(result)
    BY <1>7 DEF FinalizerStops
  <2>2. finalizer'.at \in {"ok", "err"}
    BY <2>1 DEF FinalizerEnds
  <2> QED
    BY <1>1, <2>2 DEF HaltInv
<1> QED
  BY <1>2, <1>3, <1>4, <1>5, <1>6, <1>7 DEF Finalizer

\* The node, ship_reader, the deserializer and the block processor: at the stop block
\* nothing is left for them to hand on.
LEMMA HaltUpstream ==
  ASSUME TypeOK, HaltInv,
         Ship \/ ShipEmptyResult \/ ShipCloses \/ Reader \/ Deserializer \/ Processor
  PROVE  HaltInv'
<1>0. /\ UNCHANGED <<out, finalizer, client, main>>
      /\ stop' = stop \/ Ended(reader')
      /\ Ended(reader) => Ended(reader')
      /\ Ended(deserializer) => Ended(deserializer')
  BY DEF Ship, ShipAbi, ShipStatus, ShipBlock, ShipEmptyResult, ShipCloses,
     Reader, ReaderReceives, ReaderSends, ReaderStops, ReaderEnds,
     Deserializer, DeserializeAbi, DeserializeStatus, DeserializeBlock, DeserializeEmpty,
     DeserializerSends, DeserializerAcks, DeserializerStops, DeserializerEnds,
     Processor, ProcessorReceives, ProcessorSends, ProcessorStops, channels, tasks, Ended
<1>1. /\ OutHi' = OutHi
      /\ finalizer'.at = "drain" => stop' > 0 \/ Ended(reader') \/ Ended(client')
      /\ main' = "join" => stop' > 0 \/ Ended(reader')
  BY <1>0 DEF HaltInv, OutHi, Ended
<1>2. ASSUME finalizer.at = "stop"
      PROVE  /\ final'.items = << >> /\ processor'.at # "send"
             /\ blocks'.items = << >> /\ deserializer'.at # "send"
             /\ ~Ended(deserializer') => KindsIn({"abi", "status", "empty"})'
                                         /\ ship'.next > StopBlock
  <2>0. /\ final.items = << >> /\ processor.at # "send"
        /\ blocks.items = << >> /\ deserializer.at # "send"
        /\ ~Ended(deserializer) => KindsIn({"abi", "status", "empty"}) /\ ship.next > StopBlock
        /\ raw \in Channel(Messages, RawCap) /\ blocks \in Channel(Int, BlockCap)
        /\ final \in Channel(Int, FinalCap) /\ ship \in Ships /\ StopBlock \in Nat
        /\ deserializer \in Deserializers
    BY <1>2, PipelineAssumption DEF HaltInv, TypeOK
  <2>1. CASE Ship \/ ShipEmptyResult
    <3>1. UNCHANGED <<raw, blocks, final, reader, deserializer, processor>>
      BY <2>1 DEF Ship, ShipAbi, ShipStatus, ShipBlock, ShipEmptyResult, channels, tasks
    <3>2. CASE Ended(deserializer)
      BY <2>0, <3>1, <3>2 DEF Ended
    <3>3. CASE ~Ended(deserializer)
      <4>0. ~ShipBlock
        <5>1. ship.next > StopBlock /\ ship.next \in Nat
          BY <2>0, <3>3 DEF Ships
        <5> QED
          BY <2>0, <5>1 DEF ShipBlock
      <4>1. ship'.next = ship.next
        BY <2>0, <2>1, <4>0 DEF Ship, ShipAbi, ShipStatus, ShipEmptyResult, Ships
      <4>2. PICK kind \in {"abi", "status", "empty"} : ShipSends(Message(kind, None))
        BY <2>1, <4>0 DEF Ship, ShipAbi, ShipStatus, ShipEmptyResult
      <4>3. Message(kind, None) \in Messages /\ Message(kind, None).kind = kind
        BY NoneIsInt DEF Message, Messages
      <4>4. KindsIn({"abi", "status", "empty"})'
        BY <2>0, <3>1, <3>3, <4>2, <4>3, KindsKept
      <4> QED
        BY <2>0, <3>1, <3>3, <4>1, <4>4
    <3> QED
      BY <3>2, <3>3
  <2>2. CASE ShipCloses
    <3>1. ws'.items = ws.items
          /\ UNCHANGED <<ship, raw, blocks, final, reader, deserializer, processor>>
      BY <2>2 DEF ShipCloses, channels, tasks, TypeOK
    <3> QED
      BY <2>0, <3>1 DEF KindsIn, Ended
  <2>3. CASE Reader
    <3>1. UNCHANGED <<ship, blocks, final, deserializer, processor>>
      BY <2>3 DEF Reader, ReaderReceives, ReaderSends, ReaderStops, ReaderEnds, channels
    <3>2. KindsIn({"abi", "status", "empty"}) => KindsIn({"abi", "status", "empty"})'
      BY <2>3, KindsKept
    <3> QED
      BY <2>0, <3>1, <3>2 DEF Ended
  <2>4. CASE Deserializer
    <3>1. UNCHANGED <<ws, final, reader, processor>> /\ ship'.next = ship.next
      BY <2>0, <2>4 DEF Deserializer, DeserializeAbi, DeserializeStatus, DeserializeBlock,
         DeserializeEmpty, DeserializerSends, DeserializerAcks, DeserializerStops,
         DeserializerEnds, channels, tasks, Requested, Ships
    <3>2. ~DeserializerSends
      BY <2>0 DEF DeserializerSends
    <3>3. ~DeserializeBlock
      <4>1. Ready(raw) => Head(raw.items) = raw.items[1] /\ 1 \in 1..Len(raw.items)
        BY WaitingSize DEF Ready
      <4> QED
        BY <2>0, <4>1 DEF DeserializeBlock, KindsIn, Ended
    <3>4. blocks'.items = << >> /\ deserializer'.at # "send"
      <4>1. CASE DeserializerStops
        <5>1. PICK result \in {"ok", "err"} : DeserializerEnds(result)
          BY <4>1 DEF DeserializerStops
        <5> QED
          BY <2>0, <5>1, DroppedChannel, Capacities DEF DeserializerEnds
      <4>2. CASE DeserializeAbi \/ DeserializeStatus \/ DeserializeEmpty \/ DeserializerAcks
        BY <2>0, <4>2 DEF DeserializeAbi, DeserializeStatus, DeserializeEmpty,
           DeserializerAcks, channels, tasks, Deserializers
      <4> QED
        BY <2>4, <3>2, <3>3, <4>1, <4>2 DEF Deserializer
    <3>5. KindsIn({"abi", "status", "empty"}) => KindsIn({"abi", "status", "empty"})'
      BY <2>4, KindsKept
    <3> QED
      BY <1>0, <2>0, <3>1, <3>4, <3>5
  <2>5. CASE Processor
    <3>1. UNCHANGED <<ship, ws, raw, reader, deserializer>>
      BY <2>5 DEF Processor, ProcessorReceives, ProcessorSends, ProcessorStops
    <3>2. ProcessorStops
      BY <2>0, <2>5 DEF Processor, ProcessorReceives, ProcessorSends, Ready
    <3>3. blocks'.items = << >> /\ final'.items = << >> /\ processor'.at = "ok"
      BY <2>0, <3>2, DroppedChannel, Capacities DEF ProcessorStops
    <3> QED
      BY <2>0, <3>1, <3>3 DEF KindsIn, Ended
  <2> QED
    BY <2>1, <2>2, <2>3, <2>4, <2>5
<1> QED
  BY <1>0, <1>1, <1>2 DEF HaltInv

\* The client and run_client.
LEMMA HaltClientMain ==
  ASSUME TypeOK, DeliveryInv, HaltInv,
         Client \/ Main \/ ConnectFails \/ ReaderFails \/ UNCHANGED vars
  PROVE  HaltInv'
<1>1. CASE ClientReceives
  <2>0. /\ UNCHANGED <<ship, ws, raw, blocks, final, stop, reader, deserializer, processor,
                       finalizer, main>>
        /\ client \in Clients /\ out \in Channel(Int, OutCap) /\ out.items \in Seq(Int)
    BY <1>1, ChannelFields, Capacities DEF ClientReceives, TypeOK, tasks
  <2>1. /\ client.at = "recv" /\ client'.at = "recv" /\ client'.last = Head(out.items)
        /\ Ready(out) /\ out'.items = Tail(out.items)
        /\ Len(out'.items) = Len(out.items) - 1
    BY <1>1, <2>0, TakenChannel, Capacities DEF ClientReceives, Clients
  <2>2. client.last \in Int /\ Len(out.items) \in Nat
    BY Stages
  <2>3. client'.last = client.last + 1
    BY <2>0, <2>1, <2>2, NumbersInRow DEF DeliveryInv, Ready
  <2>4. OutHi' = OutHi
    <3>1. OutHi = client.last + Len(out.items) /\ OutHi' = client'.last + Len(out'.items)
      BY DEF OutHi
    <3>2. \A c, l \in Int : (c + 1) + (l - 1) = c + l
      OBVIOUS
    <3> QED
      BY <2>1, <2>2, <2>3, <3>1, <3>2
  <2> QED
    BY <2>0, <2>1, <2>4 DEF HaltInv, KindsIn, Ended
<1>2. CASE ClientStops
  <2>1. /\ UNCHANGED <<ship, ws, raw, blocks, final, stop, reader, deserializer, processor,
                       finalizer, main>>
        /\ client'.at \in {"ok", "err"}
    BY <1>2 DEF ClientStops, ClientEnds, TypeOK, Clients, tasks
  <2> QED
    BY <2>1 DEF HaltInv, KindsIn, Ended
<1>3. CASE Main \/ UNCHANGED vars
  <2>1. /\ UNCHANGED <<ship, ws, raw, blocks, final, out, reader, deserializer, processor,
                       finalizer, client>>
        /\ stop' = stop \/ stop' = 1
        /\ main' = "join" => main = "join" \/ stop' = 1 \/ Ended(reader)
    BY <1>3 DEF Main, MainSeesClientEnd, MainRequestsStop, MainJoins, vars, channels, tasks
  <2>2. stop > 0 => stop' > 0
    BY <2>1 DEF TypeOK
  <2> QED
    BY <2>1, <2>2 DEF HaltInv, KindsIn, OutHi, Ended
<1>4. CASE ConnectFails
  <2>1. finalizer'.at = "ok" /\ reader'.at = "err"
    BY <1>4 DEF ConnectFails, TypeOK, Finalizers, Readers
  <2> QED
    BY <2>1 DEF HaltInv, Ended
<1>5. CASE ReaderFails
  <2>1. /\ UNCHANGED <<ship, blocks, final, out, deserializer, processor, finalizer, client, main>>
        /\ Ended(reader') /\ ws'.items = ws.items /\ raw'.items = raw.items
        /\ reader'.at # "send"
    BY <1>5, ReadFailure DEF Ended
  <2>2. \A kinds : KindsIn(kinds) => KindsIn(kinds)'
    BY <2>1 DEF KindsIn
  <2>3. OutHi' = OutHi
    BY <2>1 DEF OutHi
  <2> QED
    BY <2>1, <2>2, <2>3 DEF HaltInv, Ended
<1> QED
  BY <1>1, <1>2, <1>3, <1>4, <1>5 DEF Client

\* The invariants at the start.
LEMMA ProgressInit == Init => ProgressInv
<1> SUFFICES ASSUME Init PROVE ProgressInv
  OBVIOUS
<1>0. TypeOK
  BY TypeInit
<1>1. /\ ship.phase = "abi" /\ ship.empty = 0 /\ ship \in Ships
      /\ raw = NewChannel /\ blocks = NewChannel /\ final = NewChannel /\ out = NewChannel
      /\ ws.items = << >> /\ stop = 0 /\ reader.at = "read"
      /\ deserializer.at = "abi" /\ deserializer.unackd = 0 /\ processor.at = "recv"
      /\ finalizer.at = "recv" /\ client.at = "recv" /\ client.last = None /\ main = "client"
  BY <1>0 DEF Init, TypeOK
<1>2. raw.items = << >> /\ out.items = << >> /\ Len(raw.items) = 0 /\ Len(out.items) = 0
      /\ Len(ws.items) = 0
  BY <1>1, EmptySeq DEF NewChannel
<1>3. GoneInv
  BY <1>1 DEF GoneInv, Ended
<1>4. AnswersInv
  BY <1>1, <1>2 DEF AnswersInv, KindsIn, Ended
<1>5. CountInv
  BY <1>1 DEF CountInv
<1>6. WindowInv
  <2>1. Pending = << >>
    <3>1. InHand = << >>
      BY <1>1 DEF InHand
    <3> QED
      BY <1>1, <1>2, <3>1, EmptySeq, ConcatEmptySeq DEF Pending
  <2> QED
    BY <1>1, <2>1, NoEmpties, PipelineAssumption DEF WindowInv
<1>7. HaltInv
  <2>1. OutHi = StartBlock - 1 /\ StartBlock <= StopBlock /\ StartBlock \in Nat /\ StopBlock \in Nat
    BY <1>1, <1>2, PipelineAssumption DEF OutHi, None
  <2> QED
    BY <1>1, <2>1 DEF HaltInv
<1> QED
  BY <1>3, <1>4, <1>5, <1>6, <1>7 DEF ProgressInv

\* The invariants at every step.
LEMMA ProgressNext ==
  PipelineInv /\ PipelineInv' /\ ProgressInv /\ [Next]_vars => ProgressInv'
<1> SUFFICES ASSUME PipelineInv, PipelineInv', ProgressInv, [Next]_vars PROVE ProgressInv'
  OBVIOUS
<1>1. /\ TypeOK /\ TypeOK' /\ PhaseInv /\ EndsInv /\ DeliveryInv /\ DeliveryInv'
      /\ GoneInv /\ AnswersInv /\ CountInv /\ WindowInv /\ HaltInv
  BY DEF PipelineInv, ProgressInv
<1>2. GoneInv'
  BY <1>1, GonePreserved
<1>3. AnswersInv' /\ CountInv' /\ WindowInv'
  <2>1. CASE Ship \/ ShipEmptyResult \/ ShipCloses
    BY <1>1, <2>1, NodeProgress
  <2>2. CASE Reader
    BY <1>1, <2>2, ReaderProgress
  <2>3. CASE Deserializer
    BY <1>1, <2>3, DeserializerProgress
  <2>4. CASE Processor \/ Finalizer \/ Client \/ Main \/ ConnectFails \/ ReaderFails
             \/ UNCHANGED vars
    BY <1>1, <2>4, OthersProgress
  <2> QED
    BY <2>1, <2>2, <2>3, <2>4 DEF Next
<1>4. HaltInv'
  <2>1. CASE Ship \/ ShipEmptyResult \/ ShipCloses \/ Reader \/ Deserializer \/ Processor
    BY <1>1, <2>1, HaltUpstream
  <2>2. CASE Finalizer
    BY <1>1, <2>2, HaltFinalizer
  <2>3. CASE Client \/ Main \/ ConnectFails \/ ReaderFails \/ UNCHANGED vars
    BY <1>1, <2>3, HaltClientMain
  <2> QED
    BY <2>1, <2>2, <2>3 DEF Next
<1> QED
  BY <1>2, <1>3, <1>4 DEF ProgressInv

\* The tasks never wait for one another: as long as the run is not over, a task, the
\* client or run_client can go on, or everything sent is with the client and the node
\* may send more (ship_reader.rs, raw_deserializer.rs, evm_block_processor.rs,
\* final_processor.rs, and the shutdown in run_client).
THEOREM PipelineNeverStuck == Spec => []NeverStuck
<1>1. Spec => []ProgressInv
  BY ProgressInit, ProgressNext, InvAlways, PTL DEF Spec
<1> QED
  BY <1>1, InvAlways, InvNeverStuck, PTL
===============================================================================

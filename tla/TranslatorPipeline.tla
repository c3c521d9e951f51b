-------------------------- MODULE TranslatorPipeline --------------------------
(***************************************************************************)
(* The translator (translator.rs and tasks/) as run_client starts it: four *)
(* tasks connected by bounded channels,                                    *)
(*                                                                         *)
(*   SHIP node -> ship_reader -> raw_deserializer -> evm_block_processor   *)
(*             -> final_processor -> the consensus client                  *)
(*                                                                         *)
(* a stop channel that the final processor (at the stop block) and         *)
(* run_client (when the client has ended) write and ship_reader reads, and *)
(* run_client itself, which waits for the client and then for the tasks.   *)
(* A block is its number; what is translated is not modelled here.         *)
(***************************************************************************)
EXTENDS Integers, Sequences

CONSTANTS
  StartBlock,    \* config evm_start_block, after resuming
  StopBlock,     \* config evm_stop_block (above LastBlock: never reached)
  LastBlock,     \* the last irreversible block the SHIP node has
  ChainBegins,   \* first block a SHIP node may keep, as an EVM number
  RawCap, BlockCap, FinalCap, OutCap,  \* channel sizes, 1000 in the code
  MaxInFlight,   \* max_messages_in_flight, 10000 in the code
  AckThreshold,  \* blocks handled before an ack, 10 in the code
  MaxEmpty,      \* results without a block that SHIP may send
  FaultSets      \* kinds of failure, one set of which may happen in a behaviour

ASSUME PipelineAssumption ==
  /\ StartBlock \in Nat /\ StopBlock \in Nat /\ LastBlock \in Nat
  /\ ChainBegins \in (SUBSET Nat) \ {{}}
  /\ StartBlock <= StopBlock
  /\ RawCap \in Nat \ {0} /\ BlockCap \in Nat \ {0}
  /\ FinalCap \in Nat \ {0} /\ OutCap \in Nat \ {0}
  /\ AckThreshold \in Nat /\ MaxInFlight \in Nat
  /\ MaxEmpty \in Nat /\ MaxEmpty + AckThreshold < MaxInFlight
  /\ FaultSets \in (SUBSET SUBSET {"connect", "shipCloses", "readFails", "frames",
                                   "sinkFails", "translation", "client"}) \ {{}}

VARIABLES
  ship,          \* the SHIP node and what may fail: phase, faults, first and next block,
                 \* unacknowledged messages, empty results sent
  ws,            \* messages on the websocket, whether it is open, whether a read failed
  raw,           \* channel raw_ds_tx / raw_ds_rx
  blocks,        \* channel process_tx / process_rx
  final,         \* channel finalize_tx / finalize_rx
  out,           \* channel block_sender / block_receiver
  stop,          \* stop messages not read yet (capacity 1)
  reader,        \* ship_reader: state and message in hand
  deserializer,  \* raw_deserializer: state, block in hand, unackd_blocks
  processor,     \* evm_block_processor: state and block in hand
  finalizer,     \* final_processor: state and block in hand
  client,        \* the client's run(): state and last block received
  main           \* run_client

tasks == <<reader, deserializer, processor, finalizer>>
channels == <<raw, blocks, final, out, stop>>
vars == <<ship, ws, channels, tasks, client, main>>

None == StartBlock - 1   \* no block in hand, no block received

Message(kind, num) == [kind |-> kind, num |-> num]
NoMessage == Message("none", None)

-------------------------------------------------------------------------------
(***************************************************************************)
(* A tokio mpsc channel: items, and whether its two ends are still there.  *)
(* Dropping the receiver discards the items; recv() gives None once the    *)
(* sender is gone and the items are taken.                                 *)
(***************************************************************************)
NewChannel == [items |-> << >>, tx |-> TRUE, rx |-> TRUE]
HasRoomForOneMore(ch, cap) == ch.rx /\ Len(ch.items) <= cap   \* slip: off by one
HasRoom(ch, cap) == ch.rx /\ Len(ch.items) < cap
Put(ch, item) == [ch EXCEPT !.items = Append(@, item)]
Ready(ch) == ch.items # << >>
Taken(ch) == [ch EXCEPT !.items = Tail(@)]
IsClosed(ch) == ~ch.rx
Exhausted(ch) == ~ch.tx /\ ch.items = << >>
DropTx(ch) == [ch EXCEPT !.tx = FALSE]
DropRx(ch) == [ch EXCEPT !.rx = FALSE, !.items = << >>]

Ended(task) == task.at \in {"ok", "err"}

\* The SHIP connection is established before any task is spawned.
Init ==
  /\ \E begin \in ChainBegins, faults \in FaultSets :
       ship = [phase |-> "abi", faults |-> faults, begin |-> begin, next |-> StartBlock,
               inFlight |-> 0, empty |-> 0]
  /\ ws = [items |-> << >>, open |-> TRUE, failed |-> FALSE]
  /\ raw = NewChannel
  /\ blocks = NewChannel
  /\ final = NewChannel
  /\ out = NewChannel
  /\ stop = 0
  /\ reader = [at |-> "read", msg |-> NoMessage]
  /\ deserializer = [at |-> "abi", block |-> None, unackd |-> 0]
  /\ processor = [at |-> "recv", block |-> None]
  /\ finalizer = [at |-> "recv", block |-> None]
  /\ client = [at |-> "recv", last |-> None]
  /\ main = "client"

\* Translator::launch cannot connect: no task is spawned, every channel end of
\* the translator is dropped.
ConnectFails ==
  /\ "connect" \in ship.faults
  /\ ship.phase = "abi" /\ ws.items = << >> /\ ws.open /\ reader.at = "read"
  /\ ws' = [ws EXCEPT !.open = FALSE]
  /\ reader' = [reader EXCEPT !.at = "err"]
  /\ deserializer' = [deserializer EXCEPT !.at = "ok"]
  /\ processor' = [processor EXCEPT !.at = "ok"]
  /\ finalizer' = [finalizer EXCEPT !.at = "ok"]
  /\ out' = DropTx(out)
  /\ UNCHANGED <<ship, raw, blocks, final, stop, client, main>>

-------------------------------------------------------------------------------
(***************************************************************************)
(* The SHIP node: its ABI first, a status on request, then results for the *)
(* requested range while fewer than max_messages_in_flight are not acked.  *)
(***************************************************************************)
ShipSends(message) == ws' = [ws EXCEPT !.items = Append(@, message)]

ShipAbi ==
  /\ ws.open /\ ship.phase = "abi"
  /\ ShipSends(Message("abi", None))
  /\ ship' = [ship EXCEPT !.phase = "waiting"]
  /\ UNCHANGED <<channels, tasks, client, main>>

ShipStatus ==
  /\ ws.open /\ ship.phase = "status"
  /\ ShipSends(Message("status", None))
  /\ ship' = [ship EXCEPT !.phase = "waiting"]
  /\ UNCHANGED <<channels, tasks, client, main>>

ShipBlock ==
  /\ ws.open /\ ship.phase = "blocks"
  /\ ship.next <= StopBlock /\ ship.next <= LastBlock
  /\ ship.inFlight < MaxInFlight
  /\ ShipSends(Message("block", ship.next))
  /\ ship' = [ship EXCEPT !.next = @ + 1, !.inFlight = @ + 1]
  /\ UNCHANGED <<channels, tasks, client, main>>

\* A result with no block in it ("why would this happen?").
ShipEmptyResult ==
  /\ ws.open /\ ship.phase = "blocks"
  /\ ship.empty < MaxEmpty
  /\ ship.inFlight < MaxInFlight
  /\ ShipSends(Message("empty", None))
  /\ ship' = [ship EXCEPT !.empty = @ + 1, !.inFlight = @ + 1]
  /\ UNCHANGED <<channels, tasks, client, main>>

ShipCloses ==
  /\ "shipCloses" \in ship.faults
  /\ ws.open
  /\ ws' = [ws EXCEPT !.open = FALSE]
  /\ UNCHANGED <<ship, channels, tasks, client, main>>

-------------------------------------------------------------------------------
(***************************************************************************)
(* ship_reader.                                                            *)
(***************************************************************************)
ReaderEnds ==
  /\ reader' = [at |-> "ok", msg |-> NoMessage]
  /\ raw' = DropTx(raw)
  /\ ws' = [ws EXCEPT !.items = << >>]
  /\ stop' = 0

\* Slip: a message for which there is no room is dropped (try_send).
ReaderReceivesIfRoom ==
  /\ reader.at = "read"
  /\ ws.items # << >>
  /\ ws' = [ws EXCEPT !.items = Tail(@)]
  /\ reader' = IF HasRoom(raw, RawCap) THEN [at |-> "send", msg |-> Head(ws.items)] ELSE reader
  /\ UNCHANGED <<ship, channels, deserializer, processor, finalizer, client, main>>

\* A message arrives; it is thrown away when nobody will read the channel.
ReaderReceives ==
  /\ reader.at = "read"
  /\ ws.items # << >>
  /\ ws' = [ws EXCEPT !.items = Tail(@)]
  /\ reader' = IF IsClosed(raw) THEN reader ELSE [at |-> "send", msg |-> Head(ws.items)]
  /\ UNCHANGED <<ship, channels, deserializer, processor, finalizer, client, main>>

ReaderSends ==
  /\ reader.at = "send"
  /\ HasRoom(raw, RawCap)
  /\ raw' = Put(raw, reader.msg)
  /\ reader' = [at |-> "read", msg |-> NoMessage]
  /\ UNCHANGED <<ship, ws, blocks, final, out, stop, deserializer, processor, finalizer,
                 client, main>>

\* The stop message, the end of the websocket stream, or a dropped receiver.
ReaderStops ==
  /\ \/ reader.at = "read" /\ stop > 0
     \/ reader.at = "read" /\ ~ws.open /\ ws.items = << >>
     \/ reader.at = "send" /\ IsClosed(raw)
  /\ ReaderEnds
  /\ UNCHANGED <<ship, blocks, final, out, deserializer, processor, finalizer, client, main>>

\* Reading the websocket fails: the connection is reset, or a message is too long.
\* ship_reader ends as if the stream were over, and what is left is never read.
ReaderFails ==
  /\ "readFails" \in ship.faults
  /\ reader.at = "read"
  /\ \E open \in {FALSE, ws.open} : ws' = [ws EXCEPT !.open = open, !.failed = TRUE]
  /\ reader' = [at |-> "ok", msg |-> NoMessage]
  /\ raw' = DropTx(raw)
  /\ stop' = 0
  /\ UNCHANGED <<ship, blocks, final, out, deserializer, processor, finalizer, client, main>>

-------------------------------------------------------------------------------
(***************************************************************************)
(* raw_deserializer.                                                       *)
(***************************************************************************)
DeserializerEnds(result) ==
  /\ deserializer' = [at |-> result, block |-> None, unackd |-> 0]
  /\ raw' = DropRx(raw)
  /\ blocks' = DropTx(blocks)
  /\ UNCHANGED <<ship, ws, final, out, stop, reader, processor, finalizer, client, main>>

\* A request over the websocket reaches the node while the connection is open.
Requested(phase) == IF ws.open THEN [ship EXCEPT !.phase = phase] ELSE ship

\* The first message is the ABI; a GetStatus request follows it.
DeserializeAbi ==
  /\ deserializer.at = "abi"
  /\ Ready(raw)
  /\ raw' = Taken(raw)
  /\ ship' = Requested("status")
  /\ deserializer' = [deserializer EXCEPT !.at = "recv"]
  /\ UNCHANGED <<ws, blocks, final, out, stop, reader, processor, finalizer, client, main>>

\* The status is answered with a GetBlocks request.
DeserializeStatus ==
  /\ deserializer.at = "recv"
  /\ Ready(raw) /\ Head(raw.items).kind = "status"
  /\ StartBlock > ship.begin
  /\ raw' = Taken(raw)
  /\ ship' = Requested("blocks")
  /\ UNCHANGED <<ws, blocks, final, out, stop, tasks, client, main>>

\* A block is counted and, unless nobody will read the channel, sent on.
DeserializeBlock ==
  /\ deserializer.at = "recv"
  /\ Ready(raw) /\ Head(raw.items).kind = "block"
  /\ raw' = Taken(raw)
  /\ deserializer' = IF IsClosed(blocks)
                     THEN [deserializer EXCEPT !.unackd = @ + 1]
                     ELSE [at |-> "send", block |-> Head(raw.items).num,
                           unackd |-> deserializer.unackd + 1]
  /\ UNCHANGED <<ship, ws, blocks, final, out, stop, reader, processor, finalizer, client, main>>

\* A result without a block is counted too, but never triggers an ack.
DeserializeEmpty ==
  /\ deserializer.at = "recv"
  /\ Ready(raw) /\ Head(raw.items).kind = "empty"
  /\ raw' = Taken(raw)
  /\ deserializer' = [deserializer EXCEPT !.unackd = @ + 1]
  /\ UNCHANGED <<ship, ws, blocks, final, out, stop, reader, processor, finalizer, client, main>>

\* Slip: acknowledge only when the node's window is used up.
DeserializerSendsLateAck ==
  /\ deserializer.at = "send"
  /\ HasRoom(blocks, BlockCap)
  /\ blocks' = Put(blocks, deserializer.block)
  /\ deserializer' = [deserializer EXCEPT !.block = None,
                        !.at = IF deserializer.unackd > MaxInFlight THEN "ack" ELSE "recv"]
  /\ UNCHANGED <<ship, ws, raw, final, out, stop, reader, processor, finalizer, client, main>>

DeserializerSends ==
  /\ deserializer.at = "send"
  /\ HasRoom(blocks, BlockCap)
  /\ blocks' = Put(blocks, deserializer.block)
  /\ deserializer' = [deserializer EXCEPT !.block = None,
                        !.at = IF deserializer.unackd > AckThreshold THEN "ack" ELSE "recv"]
  /\ UNCHANGED <<ship, ws, raw, final, out, stop, reader, processor, finalizer, client, main>>

\* Slip: the count is not reset.
DeserializerAcksAgain ==
  /\ deserializer.at = "ack"
  /\ ship' = IF ws.open THEN [ship EXCEPT !.inFlight = @ - deserializer.unackd] ELSE ship
  /\ deserializer' = [deserializer EXCEPT !.at = "recv"]
  /\ UNCHANGED <<ws, channels, reader, processor, finalizer, client, main>>

DeserializerAcks ==
  /\ deserializer.at = "ack"
  /\ ship' = IF ws.open THEN [ship EXCEPT !.inFlight = @ - deserializer.unackd] ELSE ship
  /\ deserializer' = [deserializer EXCEPT !.at = "recv", !.unackd = 0]
  /\ UNCHANGED <<ws, channels, reader, processor, finalizer, client, main>>

\* The channel is exhausted (an error before the ABI came), the start block is
\* too old for the node, the receiver is gone, a websocket write fails, or the
\* next message is a Ping or Close frame, which ship_reader forwards as data and
\* the decoder does not survive.
DeserializerStops ==
  \/ deserializer.at = "recv" /\ Exhausted(raw) /\ DeserializerEnds("ok")
  \/ deserializer.at = "abi" /\ Exhausted(raw) /\ DeserializerEnds("err")
  \/ /\ deserializer.at = "recv"
     /\ Ready(raw) /\ Head(raw.items).kind = "status"
     /\ StartBlock <= ship.begin
     /\ DeserializerEnds("err")
  \/ deserializer.at = "send" /\ IsClosed(blocks) /\ DeserializerEnds("err")
  \/ /\ "sinkFails" \in ship.faults
     /\ \/ /\ deserializer.at \in {"abi", "recv"} /\ Ready(raw)
           /\ Head(raw.items).kind \in {"abi", "status"}
        \/ deserializer.at = "ack"
     /\ DeserializerEnds("err")
  \/ /\ "frames" \in ship.faults
     /\ deserializer.at = "recv" /\ (Ready(raw) \/ Exhausted(raw))
     /\ DeserializerEnds("err")

-------------------------------------------------------------------------------
(***************************************************************************)
(* evm_block_processor.                                                    *)
(***************************************************************************)
ProcessorReceives ==
  /\ processor.at = "recv"
  /\ Ready(blocks)
  /\ blocks' = Taken(blocks)
  /\ processor' = IF IsClosed(final) THEN processor
                  ELSE [at |-> "send", block |-> Head(blocks.items)]
  /\ UNCHANGED <<ship, ws, raw, final, out, stop, reader, deserializer, finalizer, client, main>>

ProcessorSends ==
  /\ processor.at = "send"
  /\ HasRoom(final, FinalCap)
  /\ final' = Put(final, processor.block)
  /\ processor' = [at |-> "recv", block |-> None]
  /\ UNCHANGED <<ship, ws, raw, blocks, out, stop, reader, deserializer, finalizer, client, main>>

\* The channel is exhausted, or the final processor is gone: Ok either way.
ProcessorStops ==
  /\ \/ processor.at = "recv" /\ Exhausted(blocks)
     \/ processor.at = "send" /\ IsClosed(final)
  /\ processor' = [at |-> "ok", block |-> None]
  /\ blocks' = DropRx(blocks)
  /\ final' = DropTx(final)
  /\ UNCHANGED <<ship, ws, raw, out, stop, reader, deserializer, finalizer, client, main>>

-------------------------------------------------------------------------------
(***************************************************************************)
(* final_processor.                                                        *)
(***************************************************************************)
FinalizerEnds(result) ==
  /\ finalizer' = [at |-> result, block |-> None]
  /\ final' = DropRx(final)
  /\ out' = DropTx(out)
  /\ UNCHANGED <<ship, ws, raw, blocks, stop, reader, deserializer, processor, client, main>>

\* Slip: the stop block itself ends the loop.
FinalizerReceivesBelowStop ==
  /\ finalizer.at = "recv"
  /\ Ready(final)
  /\ final' = Taken(final)
  /\ finalizer' = IF Head(final.items) >= StopBlock
                  THEN [at |-> "drain", block |-> None]
                  ELSE [at |-> "send", block |-> Head(final.items)]
  /\ UNCHANGED <<ship, ws, raw, blocks, out, stop, reader, deserializer, processor, client, main>>

\* A block is translated; one above the stop block ends the loop instead.
FinalizerReceives ==
  /\ finalizer.at = "recv"
  /\ Ready(final)
  /\ final' = Taken(final)
  /\ finalizer' = IF Head(final.items) > StopBlock
                  THEN [at |-> "drain", block |-> None]
                  ELSE [at |-> "send", block |-> Head(final.items)]
  /\ UNCHANGED <<ship, ws, raw, blocks, out, stop, reader, deserializer, processor, client, main>>

FinalizerSends ==
  /\ finalizer.at = "send"
  /\ HasRoom(out, OutCap)
  /\ out' = Put(out, finalizer.block)
  /\ finalizer' = [at |-> IF finalizer.block = StopBlock THEN "stop" ELSE "recv",
                   block |-> None]
  /\ UNCHANGED <<ship, ws, raw, blocks, final, stop, reader, deserializer, processor,
                 client, main>>

\* The client is gone: leave the loop and drain the channel.
FinalizerSendFails ==
  /\ finalizer.at = "send"
  /\ IsClosed(out)
  /\ finalizer' = [at |-> "drain", block |-> None]
  /\ UNCHANGED <<ship, ws, channels, reader, deserializer, processor, client, main>>

\* After the stop block, tell ship_reader to stop reading.
FinalizerRequestsStop ==
  /\ finalizer.at = "stop"
  /\ ~Ended(reader)
  /\ stop = 0
  /\ stop' = 1
  /\ finalizer' = [finalizer EXCEPT !.at = "drain"]
  /\ UNCHANGED <<ship, ws, raw, blocks, final, out, reader, deserializer, processor,
                 client, main>>

FinalizerDrains ==
  /\ finalizer.at = "drain"
  /\ Ready(final)
  /\ final' = Taken(final)
  /\ UNCHANGED <<ship, ws, raw, blocks, out, stop, tasks, client, main>>

\* The channel is exhausted; ship_reader has already ended, so that the stop
\* message cannot be sent; or translating the block in hand fails.
FinalizerStops ==
  \/ finalizer.at \in {"recv", "drain"} /\ Exhausted(final) /\ FinalizerEnds("ok")
  \/ finalizer.at = "stop" /\ Ended(reader) /\ FinalizerEnds("err")
  \/ "translation" \in ship.faults /\ finalizer.at = "send" /\ FinalizerEnds("err")

-------------------------------------------------------------------------------
(***************************************************************************)
(* The client's run() and run_client.                                      *)
(***************************************************************************)
ClientReceives ==
  /\ client.at = "recv"
  /\ Ready(out)
  /\ out' = Taken(out)
  /\ client' = [client EXCEPT !.last = Head(out.items)]
  /\ UNCHANGED <<ship, ws, raw, blocks, final, stop, tasks, main>>

ClientEnds(result) ==
  /\ client' = [client EXCEPT !.at = result]
  /\ out' = DropRx(out)
  /\ UNCHANGED <<ship, ws, raw, blocks, final, stop, tasks, main>>

\* run() returns: the channel is exhausted, or handling a block fails.
ClientStops ==
  /\ client.at = "recv"
  /\ \/ Exhausted(out) /\ ClientEnds("ok")
     \/ "client" \in ship.faults /\ client.last # None /\ ClientEnds("err")

\* Slip: nobody tells ship_reader to stop.
MainJoinsAtOnce ==
  /\ main = "client"
  /\ Ended(client)
  /\ main' = "join"
  /\ UNCHANGED <<ship, ws, channels, tasks, client>>

\* The client has ended: unless ship_reader is gone, send it a stop message.
MainSeesClientEnd ==
  /\ main = "client"
  /\ Ended(client)
  /\ main' = IF Ended(reader) THEN "join" ELSE "shutdown"
  /\ UNCHANGED <<ship, ws, channels, tasks, client>>

\* The send waits for room; it fails, with a warning, if ship_reader ends first.
MainRequestsStop ==
  /\ main = "shutdown"
  /\ \/ ~Ended(reader) /\ stop = 0 /\ stop' = 1
     \/ Ended(reader) /\ UNCHANGED stop
  /\ main' = "join"
  /\ UNCHANGED <<ship, ws, raw, blocks, final, out, tasks, client>>

TasksEnded == Ended(reader) /\ Ended(deserializer) /\ Ended(processor) /\ Ended(finalizer)

TasksSucceeded == "err" \notin {reader.at, deserializer.at, processor.at, finalizer.at}

\* join_all waits for every task; the client's error comes before the
\* translator's.
MainJoins ==
  /\ main = "join"
  /\ TasksEnded
  /\ main' = IF client.at = "ok" /\ TasksSucceeded THEN "ok" ELSE "err"
  /\ UNCHANGED <<ship, ws, channels, tasks, client>>

-------------------------------------------------------------------------------
Ship == ShipAbi \/ ShipStatus \/ ShipBlock
Reader == ReaderReceives \/ ReaderSends \/ ReaderStops
Deserializer ==
  \/ DeserializeAbi \/ DeserializeStatus \/ DeserializeBlock \/ DeserializeEmpty
  \/ DeserializerSends \/ DeserializerAcks \/ DeserializerStops
Processor == ProcessorReceives \/ ProcessorSends \/ ProcessorStops
Finalizer ==
  \/ FinalizerReceives \/ FinalizerSends \/ FinalizerSendFails
  \/ FinalizerRequestsStop \/ FinalizerDrains \/ FinalizerStops
Client == ClientReceives \/ ClientStops
Main == MainSeesClientEnd \/ MainRequestsStop \/ MainJoins

Next ==
  \/ Ship \/ ShipEmptyResult \/ ShipCloses \/ ConnectFails \/ ReaderFails
  \/ Reader \/ Deserializer \/ Processor \/ Finalizer \/ Client \/ Main

Spec == Init /\ [][Next]_vars

\* tokio polls every task that can move; select! takes each ready branch
\* sooner or later.  Nothing is assumed of the SHIP node.
TaskFairness ==
  /\ WF_vars(Reader) /\ SF_vars(ReaderStops)
  /\ WF_vars(Deserializer) /\ WF_vars(Processor) /\ WF_vars(Finalizer)
  /\ WF_vars(Client) /\ WF_vars(Main)

FairSpec == Spec /\ TaskFairness

-------------------------------------------------------------------------------
(***************************************************************************)
(* Properties.                                                             *)
(***************************************************************************)
Channel(Item, cap) ==
  {ch \in [items : Seq(Item), tx : BOOLEAN, rx : BOOLEAN] : Len(ch.items) <= cap}
Messages == [kind : {"none", "abi", "status", "block", "empty"}, num : Int]

Ships == [phase : {"abi", "waiting", "status", "blocks"}, faults : FaultSets, begin : Nat,
          next : Nat, inFlight : Int, empty : Nat]
Readers == [at : {"read", "send", "ok", "err"}, msg : Messages]
Deserializers == [at : {"abi", "recv", "send", "ack", "ok", "err"}, block : Int, unackd : Nat]
Processors == [at : {"recv", "send", "ok"}, block : Int]
Finalizers == [at : {"recv", "send", "stop", "drain", "ok", "err"}, block : Int]
Clients == [at : {"recv", "ok", "err"}, last : Int]

\* Types of the variables, and the bounds of the channels.
TypeOK ==
  /\ ship \in Ships
  /\ ws \in [items : Seq(Messages), open : BOOLEAN, failed : BOOLEAN]
  /\ raw \in Channel(Messages, RawCap)
  /\ blocks \in Channel(Int, BlockCap)
  /\ final \in Channel(Int, FinalCap)
  /\ out \in Channel(Int, OutCap)
  /\ stop \in 0..1
  /\ reader \in Readers
  /\ deserializer \in Deserializers
  /\ processor \in Processors
  /\ finalizer \in Finalizers
  /\ client \in Clients
  /\ main \in {"client", "shutdown", "join", "ok", "err"}

\* Through four tasks that may each stop, drop what they hold or discard what
\* they are sent, the client receives the requested blocks in order, without
\* a gap: it never takes a block whose predecessor was dropped on the way.
Stream == INSTANCE BlockStream
            WITH First <- StartBlock, Last <- StopBlock,
                 received <- client.last, over <- Ended(client)
DeliversInOrder == Stream!Spec

Unread(num) ==
  \E i \in 1..Len(ws.items) : ws.items[i].kind = "block" /\ ws.items[i].num = num

\* When run_client returns Ok, every block ship_reader has read has reached the
\* client: none is dropped in a channel or in a task's hands without an error.  Of the
\* blocks the SHIP node sent only those can be missing that were still on the
\* websocket when reading it failed, which ends ship_reader with Ok.
OkMeansDelivered ==
  main = "ok" => \A num \in (client.last + 1)..(ship.next - 1) : ws.failed /\ Unread(num)

\* The node's window is never acknowledged twice: what the deserializer has
\* counted and not acknowledged is still in flight for the node.
AcksAreOwed == ws.open => deserializer.unackd <= ship.inFlight

Over == main \in {"ok", "err"}

\* When a task, the client or run_client can go on: its channel has an item or room,
\* or the other end is gone.
CanReceive(ch) == Ready(ch) \/ Exhausted(ch)
CanSend(task, ch, cap) == task.at = "send" /\ (HasRoom(ch, cap) \/ IsClosed(ch))
CanRequestStop == stop = 0 \/ Ended(reader)

CanMove ==
  \/ reader.at = "read" /\ (ws.items # << >> \/ ~ws.open \/ stop > 0)
  \/ CanSend(reader, raw, RawCap)
  \/ deserializer.at \in {"abi", "recv"} /\ CanReceive(raw)
       /\ (deserializer.at = "recv" /\ Ready(raw)
             => Head(raw.items).kind \in {"status", "block", "empty"})
  \/ CanSend(deserializer, blocks, BlockCap)
  \/ deserializer.at = "ack"
  \/ processor.at = "recv" /\ CanReceive(blocks)
  \/ CanSend(processor, final, FinalCap)
  \/ finalizer.at \in {"recv", "drain"} /\ CanReceive(final)
  \/ CanSend(finalizer, out, OutCap)
  \/ finalizer.at = "stop" /\ CanRequestStop
  \/ client.at = "recv" /\ CanReceive(out)
  \/ main = "client" /\ Ended(client)
  \/ main = "shutdown" /\ CanRequestStop
  \/ main = "join" /\ TasksEnded

\* The node is to send: everything it has sent is with the client, and neither its
\* window nor the stop block keeps it from sending more.
AwaitsNode ==
  /\ ws.open /\ client.last = ship.next - 1
  /\ \/ ship.phase \in {"abi", "status"}
     \/ ship.phase = "blocks" /\ ship.next <= StopBlock /\ ship.inFlight < MaxInFlight

\* Tasks, client and run_client never wait for one another, whether around the chain
\* of bounded channels, or through the stop channel of one message, which two of them
\* write and a third reads, or through acks that are not due before more blocks come:
\* until the run is over one of them can move, or it is the node's turn.
NeverStuck == Over \/ CanMove \/ AwaitsNode

\* As soon as one of the tasks or the client has ended, for whatever reason, the
\* whole run ends, though the SHIP node may stay connected and silent, or keep
\* sending, and every other task may be waiting on a channel.
OneEndsAllEnd ==
  (Ended(reader) \/ Ended(deserializer) \/ Ended(processor) \/ Ended(finalizer)
     \/ Ended(client)) ~> Over

\* With a SHIP node that keeps sending and no failure, the run reaches the stop
\* block and ends Ok: neither the bounded channels, nor the node's window, nor the
\* two writers of the stop channel block it for ever.
ReachesStopBlock ==
  ship.faults = {} /\ ship.begin < StartBlock /\ WF_vars(Ship)
    => <>(main = "ok" /\ client.last = StopBlock)
===============================================================================

# Verification of gnostic (retro_net)

gnostic is a user-space network system: nodes that speak AppleTalk (DDP, NBP, ADSP) and OSI
(CLNP, ES-IS, IS-IS, TP4) exchange JSON messages over one central websocket switch. This
directory holds TLA+ models of its connection protocols, of the switch and the nodes below them,
of the name binding protocol and of the AURP bridges, the TLC configurations that check them on
small instances, and theorems that TLAPS proves about them for every value of the constants.

Contents: 1 inventory, 2 modules and their correspondence to the code, 3 runs, bounds and
fairness, 4 proofs, 5 findings, 6 behaviour the models show beyond the findings, 7 what is not
modelled, 8 plan.

## 1. Inventory

### 1.1 Execution model

Everything runs on asyncio, one event loop per process. A task loses the loop only at an
`await` that really suspends: `asyncio.sleep`, a future, an event, and a websocket `send` whose
write buffer is above its high-water mark. Every other `await` of the code is a plain call. So
the code between two such points is one action of the models, and what a test of this code
rarely reaches are exactly the suspension points: a test's sends never suspend.

### 1.2 Components

| component | source (`src/retro_net/`) | state | operations | status |
|---|---|---|---|---|
| ADSP connection | `protocols/appletalk/adsp.py` (`ADSPConnection`, `ADSPTransport`) | connection state, `send_seq`, `send_next_seq`, `unacked_seq`, `recv_seq`, `send_buffer`, `_write_buffer_size`, `_paused`, timer task, `_last_recv_time` | `write`, `close`, `send_data`, `_flush_send_buffer`, `process_packet`, `_timer_loop`, `close_connection` | modelled: `ADSPStream` |
| ADSP manager | `protocols/appletalk/adsp.py` (`ADSPManager`, `ADSPServer`) | `connections` by id, `listeners` by socket, next id | `open_connection`, `start_server`, `ADSPServer.close`, `handle_incoming`, `remove_connection` | modelled: `ADSPSession` |
| TP4 manager | `protocols/osi/tp4_manager.py` | `connections` by reference, next reference, per connection state, reader, remote reference | `connect`, `handle_pdu` (CR, CC, DR, DC, DT), `send_data`, `close_connection` | modelled: `TP4` |
| Switch | `core/switch.py` | `nodes`: id to websocket; `node_id` of each handler | register, route, end of a client's handler | modelled: `SwitchNode` |
| Node | `core/node.py` | `websocket`, `_running`, `protocols` | `connect`, `disconnect`, `send_datagram`, `_handle_message`, `run`, `stop` | modelled: `SwitchNode` |
| AppleTalk plugin | `protocols/appletalk/plugin.py`, `nbp.py`, `ddp.py` | socket handlers, `nbp_registry` | `register_upper_layer`, `register_service`, `process_datagram`, `_handle_nbp`, `broadcast_lookup` | partly: `AppleTalk` (NBP; the ADSP socket is in the ADSP models) |
| AURP bridge | `services/aurp.py` | `peers`, `transport`, `_original_send_datagram` | `start`, `stop`, `add_peer`, `_outbound_hook`, `send_aurp_packet`, `datagram_received` | partly: `AURPBridge` (`add_peer` before the start) |
| OSI plugin | `protocols/osi/plugin.py`, `clnp.py`, `esis.py`, `isis.py` | NLPID handlers | `process_datagram`, `register_upper_layer` | partly: the way to TP4 (`TP4`); the rest is a stateless dispatch |
| interfaces, logger, TCP bridge, `run.py` | `protocols/base.py`, `services/base.py`, `services/tcp_bridge.py`, `utils/packet_logger.py`, `core/exceptions.py` | none | abstract methods, printing, empty methods | not modelled |

### 1.3 Interactions

    program --write/close--> ADSPTransport --create_task--> ADSPConnection --await send_packet-->
      ADSPManager --DDP header--> Node.send_datagram --websocket--> Switch --websocket--> Node.run
      --process_datagram--> AppleTalkPlugin --handler of the socket--> ADSPManager.handle_incoming
      --> ADSPConnection.process_packet --data_received / connection_made / connection_lost--> program

TP4 takes the same way through `OSIPlugin` and CLNP. `AURPBridgeService` replaces
`node.send_datagram` by a hook of its own, so that every AppleTalk datagram also goes to its UDP
peers, and injects what comes from them. Between two nodes the path is a FIFO per direction (one
websocket to the switch, one handler per client, one websocket on). It loses a message when the
destination is not registered at the moment or its websocket has just closed; a send raises at
its origin when the node has no websocket any more.

### 1.4 Behaviours that are hard

| component | hard behaviour | what makes it correct |
|---|---|---|
| ADSP connection | lost and late packets, retransmission that rewinds the send position, three tasks flushing one buffer, byte accounting that travels through a task, a buffer and the peer | each direction is a reliable byte stream; buffers, packets and receivers agree to the byte; the window holds; a paused writer is resumed |
| ADSP connection | close from either side or both, timeouts, created tasks that run after the state has moved on | both ends become CLOSED, the program is told, no timer stays, CLOSED is final |
| ADSP manager | `OPEN_CONN_REQ` is repeated and each copy makes a connection at the listener; any packet of the handshake may be lost | one opener is paired with one accepted connection, `open_connection` ends and tells the truth, orphans go |
| TP4 manager | tasks for data and close, both sides disconnecting, no retransmission | order, completeness at end of stream, nothing left in the dictionary, `connect` ends |
| Switch, Node | websockets whose two ends learn of their end at different moments, forwards that fail or suspend, a node that comes back under its id before its old handler ends | the table is right; a node's death harms nobody who has not sent to it; order per connection; the network does not wedge |
| AppleTalk plugin | wildcard lookups, the 4-bit tuple count and the 10-bit length, restarts with lookups under way, broadcast | a reply is true and goes to the asker; what can be answered is |
| AURP bridge | hooks of several services stacked on one method and taken off in any order, starts of what is started, injections that outlive a bridge, packets that come before a start is over or twice, tunnels in both directions | bridges come and go unnoticed; every packet is accounted for |

The hazards, each at its line, are in `PROJECT.json`.

## 2. Modules

| module | lines | models |
|---|---|---|
| `ByteStream` | 41 | the abstract specification: one reliable byte stream per direction |
| `ADSPStream` | 718 | the two ends of an established ADSP connection, from OPEN until CLOSED |
| `MCADSPStream` | 9 | the amounts written in its runs |
| `ADSPStreamTypeProofs` | 665 | types, and facts about the operators |
| `ADSPStreamProofs` | 3188 | the stream invariant, the refinement of `ByteStream`, the accounting, the window, and how a connection stays open |
| `ADSPStreamEndProofs` | 589 | how a connection ends |
| `ADSPSession` | 448 | two ADSP managers: handshake, listener, timers, closing, removal |
| `MCADSPSession` | 7 | the calls of `open_connection` in its runs |
| `ADSPSessionProofs` | 2755 | who is connected to whom, what `open_connection` tells, and the life of a connection |
| `TP4` | 341 | two TP4 managers |
| `MCTP4` | 7 | the calls of `connect` in its run |
| `TP4Proofs` | 3662 | types, order, completeness at the end of stream, and how a connection ends |
| `Datagrams` | 44 | the abstract specification: a datagram service that may lose, and nothing worse |
| `SwitchNode` | 369 | the switch and the nodes that connect to it |
| `SwitchNodeProofs` | 2475 | types, the switch's table, which ends are open, and the refinement of `Datagrams` |
| `AppleTalk` | 221 | NBP registration, lookup and reply, composed with `SwitchNode` |
| `MCAppleTalk` | 17 | the services and lookups of its run |
| `AppleTalkProofs` | 2508 | replies, rest, answered lookups, and what `SwitchNodeProofs` shows, under NBP |
| `AURPBridge` | 255 | the AURP bridges of several nodes, their hooks and their tunnels |
| `MCAURPBridge` | 14 | the tunnels of its runs |
| `AURPBridgeProofs` | 1729 | types, hooks, and what becomes of tunnelled packets |

`ADSPSession` and `ADSPStream` split one class along its life: a connection is in `ADSPSession`
from its creation to its end with nothing to send, and in `ADSPStream` with everything it sends
from the moment both ends are OPEN. The split is sound because the handshake branches of
`_process_control` (adsp.py 437-463) require LISTENING or OPENING, the data branches (465-478,
491-514) require OPEN, and the fields the data branches change are read by no handshake branch.

### 2.1 ADSPStream

| variable | code |
|---|---|
| `state`, `buf`, `unacked`, `nextSeq`, `recvSeq` | `ADSPConnection.state`, `send_buffer`, `unacked_seq` (and `send_seq`, always equal to it), `send_next_seq`, `recv_seq` |
| `wbuf`, `paused`, `closing` | `ADSPTransport._write_buffer_size`, `_paused`, `_closing` |
| `ready` | tasks made by `create_task` in `write` and `close`, in order, not started |
| `flushing`, `rx`, `closeTask`, `running` | where the suspended tasks are: in `_flush_send_buffer`, in a packet's handler, in `close_connection`, and which of them holds the loop |
| `timer`, `idle`, `ticked`, `waited` | the timer task; `_last_recv_time`, as ticks since; the clock |
| `chan`, `lost`, `failed` | packets under way; losses and raising sends so far |
| `written`, `delivered`, `lostCalls` | history: what the program wrote, was handed, and how often it was told of the end |

| action | code (adsp.py) |
|---|---|
| `Write`, `Close` | `ADSPTransport.write` 202-217, `close` 225-238 |
| `SendDataStart` | `send_data` 380-388 |
| `FlushSend`, `FlushRaise`, `FlushEnd` | one round of `_flush_send_buffer` 390-427: sends, raises, ends |
| `RecvNewAck`, `RecvNoAck`, `FlushEndDeliver` | `process_packet` 429-435 with the acknowledgement branches 465-478 and `_process_data` 491-514, cut at the flush's awaits |
| `RecvCloseClosing`, `RecvCloseOpen`, `RecvCloseFinish` | the `CLOSE_CONN` branch 480-489, cut at its await |
| `RecvIgnored` | packets that find no connection or a state with no use for them |
| `CloseStart`, `CloseSend`, `CloseFinish` | `close_connection` 341-360, cut at the wait and at the send |
| `TickTimeout`, `TickRetransmit`, `TickProbe`, `TickClosing` | one round of `_timer_loop` 290-317 with `_force_close` 319-326 |
| `NextInterval` | the clock: another `_retransmit_interval` has passed at both nodes |
| `Lose` | the switch drops a packet (switch.py 30-36) |

Byte i of a direction is the number i, which makes a lost, repeated or misplaced byte visible
with no more data than that. `PySlice` models Python's slices with their negative indices, since
finding F2 lives there.

### 2.2 ADSPSession

`conn[n][i]` is the connection with `local_conn_id` i at node n, as a record of its state, its
`remote_conn_id`, its `_open_future`, its place in the manager's dictionary (`listed`), its
timer, its suspended handler and its close task, with counts of `connection_made` and
`connection_lost`. The actions are `OpenConnection` (119-143), `RecvRequest` (99-112, with
437-446), `RecvReqAck` (448-457), `RecvOpenAck` (459-463), `RecvClose` (480-489),
`HandlerResumes` (after the awaits of 452 and 484), `Close` and `CloseConnection` (234-238,
341-360), `TickSend` and `TickTimeout` (290-326), `StopListening` (166-176), `RecvDropped` and
`RecvNoted` for what finds no connection or no use. A timer's send is one action: its task does
nothing but sleep after it.

### 2.3 TP4

`conn[n][i]` is the connection with `local_ref` 999 + i at node n. `Connect` and `Poll` are
`connect` (196-220) cut at its sleeps; `RecvCR`, `RecvCC`, `RecvDR`, `RecvDC`, `RecvDT` the five
handlers (112-155), `RecvIgnored` their early returns; `Write` and `Close` the calls of the
program (42-59), `SendData` and `CloseConnection` the tasks these create (181-194, 222-238),
which asyncio starts in the order of their creation; `HandlerResumes` what `_handle_dr` does
after its await. The k-th write on a connection carries the number k. `Dispatching` is the way of a
datagram through `OSIPlugin._handle_clnp` (plugin.py 57-78), one at a time because `Node.run`
awaits it.

### 2.4 SwitchNode and Datagrams

`<<n, k>>` is the websocket of the k-th run of node n. It has two ends, `client[c]` at the node and
`server[c]` at the switch, that learn at different moments that it is closed, and a queue per
direction, `up[c]` and `down[c]`, from which what has arrived is still read after that. A send puts
its message into the queue and returns at once unless more than `QueueCap` messages are in it; then
the sending task suspends until they have been read or the connection is closed.

| variable | code |
|---|---|
| `nodes` | `Switch.nodes`: the number of the run a node id stands for |
| `handler`, `named`, `target` | a task of `handle_client`: where it is, whether it has set `node_id`, the websocket a suspended `send` of its goes to |
| `phase`, `running`, `websocket`, `inbox`, `life` | `Node.run`: where it is, `_running`, whether `websocket` is set, the message being handled, runs so far |
| `sent`, `arrived` | history: the destinations of what was sent over a connection, and which of it each node was handed |

| action | code |
|---|---|
| `Run`, `Connected`, `ConnectFails` | `run` up to its loop and `connect` (node.py 25-32, 90-93) |
| `Send`, `Reply`, `Replied`, `Handled` | `send_datagram` (46-62) of a task of the program and of a message's handler, which may be suspended in it; a handler that ends without sending |
| `Receive`, `ReadEnds` | a round of the loop of `run` (97-100), with its `break` and the `finally` of 104 |
| `Stop`, `Disconnect`, `Crash` | `stop` 106-108, `disconnect` 34-38, the death of the process |
| `HandleRegister`, `Drop`, `Forward`, `Drained` | a round of `handle_client` (switch.py 19-36); after a `send` that suspends, its end |
| `ForwardFails`, `DrainFails`, `LoopEnds` | the three ways out of the loop: `send` raises `ConnectionClosed` before or during its suspension (39-40), or the websocket is closed and read; each with the `finally` of 41-44 |
| `Dropped`, `Closed` | websockets: one end learns that the other has closed |

`SwitchNode` leaves what is sent to the protocol above it: `SwitchSpec` allows every send, and a
module that composes a protocol with it conjoins its own conditions to `Send`, `Reply` and
`Handled`. `AppleTalk` does so. One thing is assumed of time (`Connected`): setting up a websocket
takes longer than the switch needs to read the registration that an earlier run of the same node
sent first thing. Without it the old registration could be read after the new one, and the table
would name the old run.

`Datagrams` is what switch and nodes promise the protocols above: a node is handed, of what was
sent to it over one connection, some of it, in order, each at most once. The channels of
`ADSPStream`, `ADSPSession` and `TP4`, a FIFO per direction that may lose, are this service between
two nodes that stay.

### 2.5 AppleTalk

`registry` is `nbp_registry`; `packets[c][k]` is what datagram k of connection c carries, a `LkUp`
(or `BrRq`, which the code treats alike) or a `LkUpReply`. `RegisterService` is `register_service`,
`Lookup` a lookup of a program, at one node or with `broadcast_lookup` at `*`. `Handle` is the
dispatch of `process_datagram` to `_handle_nbp` (plugin.py 51-119): `HandleLookup` when it replies,
`HandleSilently` when it does not, because nothing matches, what matches does not fit into
a reply, the node has no open websocket any more, or the packet is a reply. A reply's tuples are the
set of pairs of a pattern's position and a service that matches it; the list of the code has one
entry for each. `Fits` is what the two headers can say of them: `tuple_count` has 4 bits
(nbp.py 26, `MaxTuples`), and the `length` of DDP 10 (ddp.py 10), so that the tuples of a reply have at
most 1023 - 13 - 2 = 1008 bytes (plugin.py 103, `MaxReply`), each of them 9 and its two names
(nbp.py 12-20, `Size`); 14 matches with names of 32 bytes are too long already. Past either bound
`build` raises (90, 114) and the exception is printed (118). A name of more than 255 bytes cannot be
built in any reply, which a `Size` above `MaxReply` stands for. `Die` is a crash, which loses the registry.

### 2.6 AURPBridge

`hook[n]` is what `node.send_datagram` is at the moment, `Own` or a bridge's `_outbound_hook`,
`saved[b]` is `_original_send_datagram`. `Start` and `Started` are `start` cut at its await: in
between the socket is bound, and packets for it are received, but the node is not hooked. Nothing in
`start` asks whether the bridge is started already, so `opening[b]` counts the calls that await and
`leaked[b]` says that an earlier socket of the bridge is still open and no transport of it names it
(a second start needs port 0; on a port of its own it fails and changes nothing). `Stop` is `stop`, of
any started bridge at any moment. `Send` and `Inject` are calls of `node.send_datagram` by the program
and by the task that `datagram_received` (`Receive`) has created, and `SendDatagram` is the whole of such
a call: every bridge that `Chain` passes sends to its peers if it has a transport, and the node's own
method is called at the end, if there is one. `Chain(h)` is the least set of hooks that contains h and,
for each bridge it passes, what that bridge has saved (`HooksOf`), which is the recursion of the code
without a recursive definition. A bridge that has saved itself, or others that lead back to it (`Loops`),
sends at every round until the recursion limit ends the call (`Passes`; the limit is `Depth`).
`Lose` and `Duplicate` are UDP.

`orderly[n]` is history: whether at n each bridge has been started only while stopped and
stopped before those it was started after. No action looks at it; the properties that hold only
at such nodes do.

## 3. Runs

| run | asks | constants that matter | distinct states |
|---|---|---|---|
| `stream_retransmit` | does the stream survive late packets, a lost one and spurious retransmissions, in both directions at once, and does the sender stay inside the window? | 3 bytes one way, 1 the other, window 2, chunks up to 2, one lost, a round trip may last longer than the timer | 1 558 118 |
| `stream_suspend` | does the bookkeeping survive when every send may suspend its task, and what is left when a connection ends then? | `Backpressure`, the client closes, one raising send | 980 675 |
| `stream_live` | is everything acknowledged, a paused program resumed, a connection kept alive and in the end closed? | prompt network, timeout of 3 intervals, one lost | 16 000 |
| `session_handshake` | who is connected to whom after repeated requests, with sends that suspend? | one `open_connection`, one lost, `Backpressure`, the opener may close | 63 000 |
| `session_lifecycle` | what becomes of connections when both sides close, the server stops, a packet is lost and a send raises? | both close, one lost, one raising send | 1 000 000 |
| `tp4` | order, completeness, end of connections, `connect` returns | both close, two writes a side, one lost, one raising send, `Backpressure` | 32 000 |
| `network` | do table, replies and queues stay right while a node fails, stops, dies and comes back? does everything end? | node b has two runs and may leave at any moment, registers two services, two lookups of two patterns, `QueueCap` 1, `MaxTuples` 2, `MaxReply` 2 | 1 323 218 |
| `aurp` | do bridges come and go unnoticed where they do so in order, and is every tunnelled packet accounted for in any order? | two bridges on one node, a tunnel in both directions, one bridge started twice, one lost, one copied | 834 088 |
| `stream_drain` (violation) | does `close_connection` wait until the buffer is cleared? | nothing lost | F1 |
| `stream_overtaken` (violation) | does the flush loop end? | `Backpressure` | F2 |
| `session_half_open` (violation) | does the handshake complete when a packet is lost? | one lost | F3 |
| `aurp_restore` (violation) | does `stop` restore `send_datagram`? | two bridges on one node, each started and stopped once | F4 |

### 3.1 Bounds and why they are enough

* `WriteLimit`, `MaxWrite`: three bytes against a window of two is the smallest case in which the
  window stops a write, a partial acknowledgement moves it, and a rewind and a new chunk compete;
  two bytes distinguish "lost", "repeated" and "swapped". `HighWater` 2 and `LowWater` 1 make the
  program pause and resume within these writes.
* `MaxChunk` 1 sends every byte in a packet of its own, `MaxChunk` 2 in `stream_retransmit` lets a
  retransmission carry other boundaries than the original.
* `MaxLost`: one loss is enough to make every packet of an exchange the lost one.
* `ChanCap` bounds packets in flight; what exceeds it is dropped, which is one more loss and so
  only adds behaviour to the safety runs. In `stream_live`, `stream_drain` and `session_half_open`
  the network is prompt (`Prompt`) and `ChanCap` is as large as the channels ever need, so no packet is lost but those `MaxLost` allows.
* `TimeoutTicks` 1 lets a connection time out after any interval in silence, a superset of what
  longer timeouts do as far as safety goes; `stream_live` needs 3, since of the ticks that must
  pass in silence one goes to the first tick after a packet and one to the last packet.
* `MaxFail` 1: one raising send at every place of the code that sends.
* One `open_connection` at one node: the connections its repeated requests create at the
  listener (up to `MaxId` = 3) already compete for it; the theorems of 4.2 have no such bound.

* `Lives`, `Leavers`: the second run of b meets everything its first one has left behind, in the
  table, in handlers and in queues; a third run would meet the same. The asker stays, so that what
  is due to it is well defined.
* `QueueCap` 1 makes the second message of a queue suspend its sender; `MaxSends` 2 lets the lookups
  fill one queue while the replies to them fill the other.
* `MaxTuples` is 15 and `MaxReply` 1008 in the code; with 2 and 2, and services of 1 and 3 bytes, the
  lookup of the run has no match, as much as fits, what is too long though it can be counted, or too
  many, by what is registered when it is handled.
* Two bridges on n1 give hooks something to be stacked on, and the second start of one of them puts it
  on top, below, or on itself. p on n1 and r on n2 are each other's peers, so that a datagram echoes;
  `MaxCalls` 2 ends the echo after it has come back once, with its packets in tasks. `Depth` 2 is the least in
  which a loop of hooks sends more than once; Python's limit is some hundreds.
* `MaxStarts` of `aurp_restore`: each of two bridges once is enough to stop them in the order of their
  starts.

The theorems of section 4 have none of these bounds.

### 3.2 Fairness

`Fairness` asks for weak fairness of each step that asyncio or the websocket takes by itself: a
ready task runs, a suspended send resumes, a node reads its next message (`Node.run` is a loop
over the websocket), a sleeping timer wakes, time passes. It asks nothing of the programs
(`Write`, `Close`, `OpenConnection`), of losses and of failures. Weak fairness is enough because
no such step is disabled by another except by being done or by the connection's end. A raising
send is a disjunct of its own in `ADSPStream` (`FlushRaise` is not under fairness) so that nothing
is forced to fail.

`AURPBridge` needs no fairness, since nothing eventual is claimed of it: tunnelled traffic need not
come to an end (section 6). `SwitchNode` and `AppleTalk` need none either: what must
happen there is stated for the states in which nothing goes on of itself any more (`AtRest`), or in
which all is done (`Quiet`). `AtRest` spells out, guard by guard, when no step of `Underway` is possible
(`NodeRests`, `SwitchRests`), so that it can be proved about; that it is exactly
what ENABLED says TLC confirms when `AtRest <=> ~ENABLED Underway` is added to the run
`network`. Such a state is always reached, because every step of the network consumes a message or ends
something and programs act a bounded number of times.

`Prompt` is an assumption about the network, used by the liveness runs of the stream only: a
round trip is shorter than the retransmission interval of a second. Without it a dead-connection
timeout can end any connection and nothing eventual about data can be promised.

`MaxId` bounds the connections of a manager in the runs only. `TypeOK` of `ADSPSession` and `TP4`
does not mention it, so that the theorems hold for any number of connections. The liveness
properties of these two (`OpenReturns`, `OrphansGo`, `ConnectReturns`, `BothEnd`) state it beside what
they promise (`[]IdsBounded`): no run comes to an end of its connections only because the bound
was reached.

### 3.3 The properties

* `StreamSpec` (ADSPStream implements `ByteStream`): what a program is handed is what its peer
  wrote, in order, no gap, no repetition.
* `AckSound`, `InFlightSound`, `Accounting`, `WindowRespected`: the two ends' bookkeeping agrees
  to the byte; packets are harmless however late. `Accounting` is about OPEN connections,
  `WindowRespected` about runs without suspension (F2 is what suspension does to it).
* `NoTimerLeft`, `ProgramTold`, `ClosedIsFinal`: how a connection ends.
* `KeepAlive`, `EventuallyAcked`, `EventuallyResumed`, `BothClose`: liveness, up to a close.
* `Paired`, `OpenFaithful`, `OpenReturns`, `OrphansGo`: what `open_connection` and a listener
  may rely on.
* `Retired`, `MadeBeforeGone`, `ClosedIsFinal` of `ADSPSession`: the dictionary, the timers and
  the order of the program's callbacks.
* `InOrder`, `CompleteAtEOF`, `Retired`, `EndIsFinal`, `ConnectReturns`, `BothEnd` of `TP4`.
* `Directory`: the table names only connections whose handler runs, and every registered current
  one, however late the handlers of earlier runs end. `ListenerStays`: the death of a node costs
  only those their connection that have sent; who has only listened keeps its place.
* `ReplyFaithful`, `LookupAnswered`: replies are true, and when all is done a lookup that can be
  answered, in tuples and in bytes, has been, while both nodes stay. `NothingStuck`: when nothing goes on of itself, nothing is
  left over.
* `DatagramSpec` (`SwitchNode` implements `Datagrams`), checked and proved under `AppleTalk`.
* `RestoredInOrder`, `TransparentInOrder`: the hooks of bridges, at nodes where bridges go in the
  reverse of the order in which they came; `Restored`, without that condition, is what the code's comment
  says and the code does not do (F4). `OnePlace`: what becomes of tunnelled packets, in any order of starts
  and stops.

## 4. Proofs

### 4.1 ADSPStream

The theorems of this section are about `Spec` of `ADSPStream`, for all chunk sizes, windows, water marks,
timeouts and bounds and, where the table names no condition, with or without suspension and with any
number of losses and raising sends.
They rest on `SizesAssumption`, `EnvironmentAssumption` and `BoundsAssumption` of `ADSPStream`:
sizes are positive naturals, the low-water mark is below the high-water mark (16384 and 65536 in
the code), bounds are naturals.

| theorem | says |
|---|---|
| `TypeCorrect` | `Spec => []TypeOK` |
| `StreamSafe` | `Spec => []StreamInv` |
| `AckSafe`, `InFlightSafe` | the two parts of `StreamInv` a reader should know |
| `StreamRefinement` | `Spec => StreamSpec`: ADSPStream implements ByteStream |
| `AccountingIsExact` | `Spec => []Accounting` |
| `WindowIsRespected` | `[]WindowRespected`, where no send suspends (`~Backpressure`) or raises (`MaxFail = 0`) |
| `ConnectionStaysAlive` | `[]KeepAlive`, with `MaxFail = 0`, suspending sends or not, with a prompt network and at most `TimeoutTicks - 2` losses, over channels that can hold a packet (`ChanCap > 0`) |
| `NoTimerIsLeft`, `ProgramIsTold` | a CLOSED connection has no running timer, and its program was told |
| `ClosedStaysClosed` | `Spec => ClosedIsFinal` |

**Types.** `TypeOK` is inductive by itself. The part that needs an argument is that no counter
goes below zero: `wbuf` because the code clamps it, `unacked` and `nextSeq` because they take
values of acknowledgements and lengths only.

**The stream invariant.** That the receiver hands on a prefix of what was written does not follow
from itself: it needs to know what is in the packets under way. `StreamInv` relates all four
places a byte can be in:

* `ReadySound`: the tasks that wait carry the rest of what was written, in order;
* `BufferSound`, `BufferWritten`: the send buffer is the segment of the stream that starts at
  `unacked`, and not more than was written;
* `InFlightSound`: a packet acknowledges only what its sender has received, and its data are the
  bytes at its sequence number, still in its sender's buffer, or else lie before `unacked`;
* `AckSound`: `unacked` of the sender is at most `recvSeq` of the receiver, which is at most the
  end of the sender's buffer;
* `DeliveredSound`: what was handed to the program is 1, 2, ... up to what was received.

The difficult case is a chunk sent after an acknowledgement has overtaken `nextSeq` (F2): the
offset into the buffer is negative and the slice need not be the bytes at its sequence number.
`ChunkSound` shows that its number then lies below `unacked`, and by `AckSound` below what the
receiver expects, so the receiver drops it; F2 is a loop without end, never a corrupted stream. The other case is an acknowledgement and data in one packet: the flush between the two
halves of its handler may send, and be suspended, before the data are taken (`SequenceStep`).

**Refinement.** `written` and `delivered` are themselves the abstract variables. A step of
`ADSPStream` that writes is `Accept`, one that hands on data is `Deliver` (`DeliverStep`: by
`AckSound` and `BufferWritten` it hands on bytes the peer has written), every other one stutters.

**The end.** `NoTimerLeft` and `ProgramTold` break, taken alone, in `CloseFinish`, which sets
CLOSED after a suspension. `EndInv` adds what it relies on: a close task exists only after the
transport has told the program, and `CLOSE_CONN` is sent only after the timer was stopped.
`ClosedStaysClosed` rests on the same: what wakes up after the state has become CLOSED finds nothing to
do but what it was in the middle of (`Working`), and the one task that assigns the state behind an await,
`close_connection`, assigns CLOSED (359).

**Accounting.** The transport's count is the bytes in the tasks that wait and those in the send
buffer. `AccountingInv` adds to it that a program whose count is at the high-water mark has been
asked to pause. That an acknowledgement never takes more from the count than it takes from the
buffer, so that the clamp of the code never acts while the connection is OPEN, is `AckSound` with
`BufferWritten`.

**The window.** That `nextSeq - unacked` is at most the window does not follow from itself, nor from
`StreamInv`: a rewind sets `nextSeq` back below what has been sent, and an acknowledgement of what
was sent before it raises `unacked`. Without suspension a flush holds the loop until it ends
(`FlushHolds`), so between flushes everything ever sent lies below where the last flush went.
`Reach(e)` is where the flush of e under way will end: the end of the window or of the buffer,
whichever is first; between flushes it is `nextSeq`. `SendsWithin` says that `nextSeq` lies between
`unacked` and where a flush would end, `ReceivedWithin` that nothing of e that is under way, in its
peer's handler or received lies beyond `Reach(e)`, and so, by `InFlightSound`, no acknowledgement either.
An acknowledgement is taken only between flushes and hence never overtakes `nextSeq`. F2 shows that
suspension breaks this, and so does a send that raises in the middle of a retransmission (section 6),
hence `MaxFail = 0`.

**Staying alive.** `AliveInv` bounds the silence an end has counted: `idle[e]` is at most the packets
lost so far, one if e has ticked in this interval, and one if its peer has not `Spoken` in it: the peer
has not ticked, or what it sent is still under way, or its tick has set `nextSeq` back and the flush has
not sent yet; in between the timer's task holds the loop (`Owes`), so that nothing else of e runs and no
acknowledgement can move the window. The interval cannot end before both have spoken (`Prompt`); the peer's packet then either
arrives, and the count starts again, or is one more loss. A tick always sends: a probe with an empty
buffer, and with data a retransmission, because a rewound flush has room in the window. The rest of
`AliveInv` says that nothing of a close is anywhere, in a task, a packet or a handler. In the code
`TimeoutTicks` is 10 (timeout 10 s, interval 1 s: adsp.py 278-279), so the theorem covers
eight losses. A raising send ends the timer (section 6), and the silent end is closed by its
peer: `MaxFail = 0` is needed. The window is not: a task that is suspended after its first packet has
spoken already, whatever becomes of `nextSeq` meanwhile (F2 included).

### 4.2 ADSPSession

On `SessionAssumption`, for any `Opens`, so with any number of connections opened at both nodes at a
time, any number of losses, any timeout, prompt or not:

| theorem | says | assumes |
|---|---|---|
| `TypeCorrect` | `Spec => []TypeOK` | nothing |
| `BindingsHold` | `[](AcceptedForOpener /\ OpenerBound)`, two of the three parts of `Paired` | nothing |
| `PairedDespiteRaises` | `[]NoneHalfBound => []Paired` | nothing |
| `PairedAlways` | `[]Paired` | `MaxFail = 0` |
| `OpenTellsTheTruth` | `[]OpenFaithful` | `MaxFail = 0` |
| `RetiredAlways` | `[]Retired` | `~Backpressure` |
| `MadeOnceBeforeGone` | `MadeBeforeGone` | `~Backpressure` |
| `ClosedStaysClosed` | `ClosedIsFinal` | `~Backpressure` |

No condition can be left out. A raising send between binding an opener and making it OPEN
leaves it bound and OPENING, and then a second acceptor can bind it again, when the first has
been handed to its program already; a send that suspends
lets the timer close a connection that its handler then makes OPEN (both in section 6).
`NoneHalfBound` says that no opener is left in that state, bound and OPENING with no handler to go on:
the raising send of adsp.py 452 is the only step to it from `PairInv` (`HalfBoundByReqAck`), so no other
raising send, of the timer, of a close, of a request or of an answer, can break `Paired`.

**Who is connected to whom.** `Paired` is not inductive: it says nothing of the packets that make the
next connection. `PairInv` adds that an `OPEN_CONN_REQ` comes from an opener, that a `REQ_ACK` and an `ACK` carry the pair of ids
their sender is bound by, and that the `ACK` of an opener names itself, since it was sent after
the opener was bound (`PacketsSound`); that an accepted connection whose handler is suspended is the
bound one already (`MadeIsBound`); and that a bound opener is not OPENING any more unless the handler
that has bound it is suspended, during which the node reads nothing (`BoundIsOpened`), which is why a
second `REQ_ACK` finds nobody to bind again. From one id space for opened and accepted connections
no confusion comes because a packet's two ids name a pair, of which exactly one is an opener.
A step keeps `PairInv` if it leaves no opener half bound, if nothing raises in it, or if it is no
`RecvReqAck` (`Clean`); the first gives `PairedDespiteRaises`, the second `PairedAlways`.

**Whatever raises.** `BindInv` is the part of this that half bound openers do not disturb. `Mates` are an
opener and a connection accepted for it: an accepted connection names its opener from its first step and
never another, so two connections that are mates stay mates, even when the opener turns to another of
its mates. Every bound connection is bound to a mate, and so are the two ids of every `REQ_ACK` and
`ACK` under way, however old. `MildStep` collects what most steps do to a connection, for both
invariants.

**The life of a connection.** `LifeInv` is the types, which hold in any case, and, without suspension,
`Sound` of every connection: it is in the dictionary exactly while it is not CLOSED, its timer runs
only there, no handler or close is suspended, and while it is OPENING its program has been called
neither with `connection_made` nor with `connection_lost`, and its `_open_future` is not resolved. The
last part is what makes `MadeBeforeGone` hold: `connection_made` comes with the step out of OPENING,
and there is no step back. `Alters` is what a step may do to one connection, and each action is shown to
do no more than that to each of them.

### 4.3 TP4

For any number of calls of `connect` at both nodes, any number of writes, losses and raising sends,
with or without suspension, on the assumptions of `TP4` alone:

| theorem | says |
|---|---|
| `InvCorrect`, `TypeCorrect` | `Spec => []Inv`, `Spec => []TypeOK` |
| `DataInOrder` | `[]InOrder` |
| `EOFComplete` | `[]CompleteAtEOF` |
| `RetiredCorrect` | `[]Retired` |
| `EndFinal` | `EndIsFinal` |

`Inv` follows a byte's way. `Links` says who is connected to whom: an accepted connection names an
opener, an opener that is bound names an accepted connection that names it, and no opener has two,
because its one CR is taken once (`OneRequest`). `TasksSound` and `PDUsSound` say what the tasks that
wait and the PDUs under way can be: data that were written, a close after all data of its
connection, a DR only from a connection that has nothing to send any more (`Finished`), a DC only
from a CLOSED one. `Ordered` compares the places data can be in: received before under way, under way
before queued, each in the order of writing; so `feed_data` comes in order whatever is lost.

`Complete` holds as long as nothing has been lost and no send has raised (`Reliable`), which is all
the code can promise without retransmission. `NothingMissing` says that each write is received, under
way or queued; `BothClosing`, that a connection is CLOSED only because the peer has closed or has
answered a close, never by accident; `ConfirmFirst`, that the CC of an accepted connection comes before
its data, without which the opener would drop them. From the first and the order of data follows that
there are no gaps (`NoGaps`), and with `Finished`, that a DR finds all data of its sender received
(`AllDelivered`).

### 4.4 SwitchNode and AppleTalk

For any number of nodes and runs, any size of the queues and any number of datagrams, on
`SwitchNodeAssumption` (`*` is no node id, a queue holds at least one message) and, for `AppleTalk`,
`AppleTalkAssumption` (`=` is no object or type name, lookups are sequences of patterns, the limits of a reply and the sizes of
tuples are naturals).

| theorem | says |
|---|---|
| `NetworkTypes`, `NamesTypes` | `SwitchSpec => []NetworkTypeOK`, `Spec => []TypeOK` |
| `TableRight`, `NamesTableRight` | `[]Directory`, of the switch and nodes alone and under NBP |
| `ListenersKeepTheirPlace`, `NamesListenersStay` | `[]ListenerStays`, likewise |
| `SwitchImplementsDatagrams`, `NamesOverDatagrams` | `DatagramSpec`, likewise |
| `RepliesFaithful` | `Spec => []ReplyFaithful` |
| `LookupsAnswered` | `Spec => []LookupAnswered` |
| `StuckOnlyInCircle` | `Spec => [](AtRest => Quiet \/ Circle)` |
| `NamesNothingStuck` | `Spec => []NothingStuck`, if no node is asked that asks |

**Order.** `Datagrams` lets a node be handed a datagram only if it has got past none with a greater
number. That a queue is in order does not show it: a datagram may overtake an earlier one in
another queue, or in a handler, and a node that comes back reads another queue. `Flow` orders all
the places a datagram of one connection can be in: those handled come before those in `down`, and
these before those in `up`, each in the order of their numbers. A node that comes back has an
empty `down`, and what it is handed comes behind what its earlier run was handed, because the
switch had taken that out of `up` first. What stays behind in an old `down` is never handed to
anybody.

**The table.** `Directory` is not inductive: the handler of an earlier run could still register
after the new one. `RegisterFirst` says that a handler that has not registered has its
registration at the head of its queue, `OldNamed`, from the timing assumption of `Connected`, that
an old handler that still reads has registered; so an old handler never writes to the table again,
and its `finally` clause finds another websocket there.

**Listeners.** `EndsAgree`: the switch ends a connection before the node does only when its handler
has taken a datagram out of it, which is the one way a handler fails.

**Rest.** `EndsOpen` says which ends are open: a node that is connected has a websocket and one that has
none reads no more, a handler that runs has its end open, and what a suspended handler waits for is a
datagram it has sent. With it, a state of rest has nothing left over unless a handler of the
switch is suspended in a forward. Such a handler waits for a full queue of a node that does not read,
and a node that is at rest and does not read is suspended itself, in a reply, which its own handler at the
switch has to read, and that handler does not because it is suspended too (`DrainingWaits`). So the
suspended handlers form a set in which each waits for another one, which is `Circle`. The code has this
circle (section 6), so `NothingStuck` is no theorem without a condition: `StuckOnlyInCircle` says that
there is no other way to get stuck, for all lookups, crashes and queue sizes, and `NamesNothingStuck` that
there is none when askers are not asked. In that case `Roles` (requests come from lookups, replies
from a node that was asked) shows that the handler which a node waiting in a reply waits for would have
to wait for a node that asks, and that no such node ever waits in a reply.

**NBP.** A step of `AppleTalk` is a step of `SwitchSpec` or leaves switch and nodes alone
(`StepNetwork`), so what holds of `SwitchSpec` holds under it. `PacketInv` adds that a reply was made
from the question it names, and `LookupOwed`, that a run of a node that was registered when a lookup
was sent still has the services that lookup is owed: registries only grow while a run lasts.

**Answers.** `LookupInv` follows a lookup that is owed something, and its reply, while both connections
live (`OnWay`): the request is on its way to the switch, to the node asked, or in its hands, or more
matches than fits, or a reply to it is on its way to the switch, to the asker, or has arrived. A lookup
that has left the asker's queue has been sent by a handler that knows its node (`named`), which is what
lets its reply find the way back. When the asker comes back under its id, what was due to its earlier
connection is no longer claimed, since that connection does not live. `StillLive` and `SwitchWay`, `NodeWay`, `ReceiveWay`, `AskWay`,
`AnswerWay`, `SilentWay` go through the steps. That more matches than fits into a reply stays so
(`OverfullStays`), because taking tuples away makes a reply neither more nor longer (`FitsLess`; `Bytes`
counts the positions of bytes, so that no sum is needed), for which registries must be finite
(`RegistryFinite`): the one place of these proofs where cardinalities matter. In a `Quiet` state all queues and hands are empty, and what is left is the
answer.

### 4.5 AURPBridge

For any nodes, bridges and tunnels, cyclic ones too, and for any order of starts and stops, on
`AURPAssumption`: `BridgeTypes`, `BridgesRestore`, `BridgesTransparent` and `PacketsInOnePlace` are `[]` of
`TypeOK`, `RestoredInOrder`, `TransparentInOrder` and `OnePlace`. The second and the third promise
something of the nodes that are `orderly`, of the others nothing: there they fail (F4, section 6).

**Hooks.** `RestoredInOrder` says nothing of what the bridges under the top one have saved, and a stop
makes that the node's method. `Stacked` is the invariant it needs: for each orderly node there is a
sequence of its started bridges, in the order of their starts, of which the last one's hook is on the
node and each has saved the one before it, the first one the node's own method. A start pushes, a stop
pops; a start of a started bridge and a stop from below end the promise. What happens at one node
does not disturb another, orderly or not, because hooks stay on their nodes (`Local`).
`LoneBridgesRestore` is `[]Restored`, without mention of an order, where a bridge is alone on its node and
started at most once (`OnceAlone`), as in the tests: then it keeps its node orderly by itself.

**Transparency.** `Reached` says that any set of bridges closed under the hooks it passes holds every
started bridge of an orderly node and passes the node's own method; since `Chain` is the least such set, a
call comes through. It is an invariant of the set of closed sets, so no induction over the number
of bridges is needed: with a bridge on top, a set closed now was closed without it before. That no
bridge is passed twice (`NoLoop`) follows from the stack: the bridges below one are closed without it.

**Packets.** `Places`: a packet or a copy that is somewhere was sent or copied, waits at its own node, and
is in exactly one place: under way, lost, in one task that waits, or behind one call. Each step moves one
packet from one place to the next or makes new ones that were nowhere (`AllPlaced`), whatever the hooks
have become.

### 4.6 Only model-checked

* Liveness under fairness: `EventuallyAcked`, `EventuallyResumed` and `BothClose` of `ADSPStream`,
  `OpenReturns` and `OrphansGo` of `ADSPSession`, `ConnectReturns` and `BothEnd` of `TP4`.

Every invariant and action property that a passing run checks is a theorem. The conditions of
the theorems (`~Backpressure`, `MaxFail = 0`, those of `ConnectionStaysAlive` on time and losses, `[]NoneHalfBound`, and that
of `NamesNothingStuck` on who is asked) are met by the runs that check the same properties, and sections 5
and 6 say what happens without them.

## 5. Findings

* **F1** (`stream_drain`, `CloseDrains`). `close_connection` says that it waits until the send
  buffer is cleared (adsp.py 348), but it has left OPEN before (346), and acknowledgements are
  only taken while OPEN (465, 492). With data in the buffer it always waits the whole timeout, and
  what is lost in that time is not sent again (307).
* **F2** (`stream_overtaken`, `HandlerEnds`). The timer sets `send_next_seq` back (311) and is
  suspended in its send; an acknowledgement of the first copies raises `unacked_seq` beyond
  `send_next_seq`. The slice of 407 is empty, `send_next_seq` stays, and the loop of 394 sends
  empty packets for ever.
* **F3** (`session_half_open`, `HandshakeCompletes`). `OPEN_CONN_ACK` is sent once. When it is
  lost the opener is OPEN and ignores the repeated `OPEN_CONN_REQ_ACK` (448), the accepting side
  stays OPENING, drops the opener's data and probes, and neither times out, because each hears the
  other.

* **F4** (`aurp_restore`, `Restored`). `stop` says that it restores the original `send_datagram`
  (aurp.py 97), and a test verifies that it is restored (tests/test_aurp.py 96). It puts back what was there
  when this bridge started (99). Start p, start q, stop p, stop q: the first stop gives the node its own
  method while q is started, so that q is passed over from then on; the second one gives it p's hook,
  which has no method saved any more (100), and from then on nothing is sent at all (75), with every
  bridge stopped.

## 6. What the models show beyond the findings

These cases have no violation run: but for the one on `*`, no doc, comment or test of the
repository says what should happen in them.

* A send that raises in the timer task ends it for good (adsp.py 316 catches `CancelledError`
  only). If `CLOSE_CONN` is lost afterwards the connection stays OPEN: `BothClose` with
  `MaxFail` = 1.
* When it is a retransmission that raises, after the timer has set `send_next_seq` back and before all
  chunks are out again, an acknowledgement of the first copies overtakes `send_next_seq` without any
  suspension, and the loop of F2 then runs inside the receive loop: `WindowRespected` with `MaxFail` = 1
  and `MaxChunk` = 1.
* The state is assigned after the await of 452. Under backpressure the timer can close the
  connection during that send, and 453 then makes it OPEN again: `ClosedIsFinal` of `ADSPSession`
  with `Backpressure`.
* When the send of 452 raises, the opener's timer goes on with `OPEN_CONN_REQ_ACK`, which binds a
  second accepted connection to the same opener and opens it in a way (459-463) that does not
  resolve `_open_future`: `Paired` and `OpenReturns` with `MaxFail` = 1 in `session_handshake`. Of
  `Paired` it is `OnlyBoundIsMade` that fails, and no other raising send makes it fail (section 4.2).
* When the first send of `open_connection` raises (338), its connection stays in the dictionary
  and its timer repeats the request: a connection opens that no program holds. `OpenFaithful` with
  `MaxFail` = 1.
* `connection_lost` may be called twice (by `close` and by the peer's `CLOSE_CONN` or the timeout),
  and for an accepted connection that times out while OPENING without `connection_made`.
* A `connect` of TP4 that times out leaves its connection in SYN_SENT, and a late CC establishes
  it at both sides although the caller was told it failed (tp4_manager.py 214-220).
* A forward to a websocket that has just closed, or closes while the forward is suspended, raises in
  the sender's handler, outside its loop (switch.py 34, 39): the sender is removed from the table and
  disconnected because another node died. `ListenerStays` says who is safe from this: who has sent
  nothing.
* `Node.run` does not read while the handler of a message is suspended in a reply. When two nodes ask
  each other and all queues between them are full, both and their handlers in the switch wait in a
  circle, which is the only way to get stuck (`StuckOnlyInCircle`):
  `NothingStuck` with lookups of both nodes, four under way and `QueueCap` 1. The circle ends only when
  websockets' keepalive ends the connections.
* `stop` has no effect before the next message: a node that receives nothing stays in its loop
  (node.py 97-99), and the message that ends it is lost.
* Order is kept per connection only. A datagram that an earlier run of a node sent may be handed to
  the receiver after one of the next run, as the switch reads the two connections in tasks of their
  own.
* An `LkUpReply` arrives at the asker's NBP handler, which has no use for it (plugin.py 57): no program
  learns the answer to a lookup, and since every request has `nbp_id` 1 replies could not be told
  apart. `LookupAnswered` therefore ends at the asker's plugin.
* A lookup whose matches do not fit into one reply is not answered at all: with more than 15
  `NBPHeader.build` raises (90), with more than 1008 bytes `DDPHeader.build` (114), and the exception is
  printed (118). With long names the second limit comes first: from 64 bytes of names a tuple on, 14 matches
  are too long.
* A bridge that is started while it is started saves its own hook (aurp.py 87), which then calls itself
  until the recursion limit, sends the datagram to the peers at every round and never calls the node's own
  method. One `stop` does not undo it: it puts the bridge's own hook back (99), now with nothing saved,
  and the first socket stays open.
* Two bridges that are each other's peers: a tunnelled packet is injected through the hook of the
  receiving node, which sends it back (71), for ever; with copies made by UDP the traffic grows. `OnePlace`
  follows these packets; that they come to an end is stated nowhere.
* The comment at plugin.py 158 says that the node sends to all if the destination is `*`. Nothing does:
  the switch looks `*` up like any id (switch.py 31-36; `Known`, `Drop`) and drops the datagram. So
  `broadcast_lookup` reaches nobody, and neither does what an AURP bridge injects (aurp.py 44), except
  through other bridges. This is one branch of the code, read off it; no run is spent on it.
* TP4 has no retransmission: a lost DR or DC leaves connections in the dictionary for ever, a lost
  DT leaves a gap. `BothEnd` and `InOrder` are stated for what the code can promise.

## 7. Not modelled

* **Widths.** `seq_num` (32 bits), connection ids and TP4 references (16 bits) are unbounded in
  the models. Past the width the header's `build` raises; reaching it takes 4 GiB or 65535
  connections.
* **Bytes.** Headers, base64 and JSON are lossless conversions between records here, and a packet
  that does not parse is dropped by every handler before any state changes.
* **Several sockets.** Every connection of a node uses one ADSP socket; a second `open_connection`
  with the same `local_socket` replaces the plugin's handler by an equivalent one.
* **Restarted nodes** in `ADSPSession` and `TP4`. `SwitchNode` has them; that a restarted node counts
  its connections from 1 again, and that packets are matched by that number alone, is not modelled.
* **Foreign clients of the switch.** A websocket client that registers several ids, none, or sends
  what is no JSON: `Node` never does.
* **OSI dispatch, DDP dispatch.** `register_upper_layer` and the dispatch by socket or NLPID are a
  lookup in a dictionary that is filled before traffic begins; the models have the handlers that
  src/ registers. ES-IS and IS-IS packets go to handlers nothing in src/ registers.
* **A bridge's socket that cannot be bound.** A `start` whose endpoint fails raises before it changes
  anything.
* **Programs that do what the models exclude.** Each of these is a guard the code does not have:
  a program that is asked to pause goes on writing (`ADSPStream.Write` has `~paused`: it awaits the drain;
  the second half of `Accounting` relies on it); a program writes or closes after it has closed
  (`TP4.Write` and `TP4.Close` have `~closing`; the code accepts such writes and drops them later, and sends
  a second DR for a second close); a program sends while a reply of its node is suspended (`SwitchNode.Send`
  waits for it; the code puts one more message into the full buffer and then suspends).
* **A node that reconnects before the switch has read its earlier registration.** The timing assumption
  of `Connected` (2.4).
* **Interfaces, logger, `TCPBridgeService`, `run.py`.** They have no behaviour to model: abstract
  methods, printing and empty bodies.

## 8. Plan

Done, in this order because the data path is what everything else relies on: `ByteStream` and
`ADSPStream` with its proofs, `ADSPSession`, `TP4`; then `Datagrams` and `SwitchNode`, which justify the
channels of these three, with their proofs, `AppleTalk` over `SwitchNode`, and `AURPBridge`; then the
proofs about `ADSPSession`, `TP4` and `AURPBridge`, those about the accounting, the window and the
keeping alive of `ADSPStream`, those about rest and answers in `AppleTalk`, and `Paired` of `ADSPSession`
where sends raise.

Next: restarts in `ADSPSession`.

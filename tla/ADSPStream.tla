------------------------------ MODULE ADSPStream ------------------------------
(***************************************************************************)
(* An established ADSP connection (retro_net/protocols/appletalk/adsp.py): *)
(* the ADSPConnection and ADSPTransport objects of its two ends, from the  *)
(* moment both are OPEN until both are CLOSED.  Opening is ADSPSession.    *)
(*                                                                         *)
(* Grain.  The code runs on asyncio: one task at a time per end, switching *)
(* only at an `await' that really suspends.  An action is the code between *)
(* two such points.  running[e] names the task that holds e's event loop   *)
(* between two actions; "none" means that any ready task may go next.  An  *)
(* `await send' suspends only when the websocket under it applies          *)
(* backpressure, so the constant Backpressure says whether a task may lose *)
(* the loop there.  At most one packet per end is being handled at a time  *)
(* (Node.run handles messages one after the other).                        *)
(*                                                                         *)
(* Data.  Byte i of a direction is the number i: it is what tells a byte   *)
(* that is misplaced, repeated or lost.  send_seq is kept equal to         *)
(* unacked_seq by every assignment to either, so unacked stands for both;  *)
(* send_window is always the peer's recv_window, a constant of the code.   *)
(***************************************************************************)
EXTENDS Integers, Sequences, FiniteSets

CONSTANTS
    MaxChunk,       \* bytes per data packet (max_data_len, 571 in the code)
    Window,         \* recv_window (4096 in the code)
    HighWater,      \* _high_water of the transport (65536)
    LowWater,       \* _low_water of the transport (16384)
    TimeoutTicks,   \* _timeout_interval in units of _retransmit_interval (10)
    Backpressure,   \* may an `await send' suspend the sending task?
    Prompt,         \* is a round trip shorter than _retransmit_interval?
    Closers,        \* ends whose program may close the connection
    WriteLimit,     \* bound: bytes the program at each end writes
    MaxWrite,       \* bound: bytes per write()
    MaxLost,        \* bound: packets lost between the nodes
    MaxFail,        \* bound: sends that raise (the node has lost its switch)
    ChanCap         \* bound: packets in flight per direction, more are lost

Ends == {"client", "server"}
Peer(e) == IF e = "client" THEN "server" ELSE "client"

ASSUME SizesAssumption ==
    /\ MaxChunk \in Nat \ {0} /\ Window \in Nat \ {0}
    /\ HighWater \in Nat /\ LowWater \in Nat /\ LowWater < HighWater
    /\ TimeoutTicks \in Nat \ {0}

ASSUME EnvironmentAssumption ==
    /\ Backpressure \in BOOLEAN /\ Prompt \in BOOLEAN
    /\ Closers \subseteq Ends

ASSUME BoundsAssumption ==
    /\ WriteLimit \in [Ends -> Nat]
    /\ MaxWrite \in Nat /\ MaxLost \in Nat /\ MaxFail \in Nat /\ ChanCap \in Nat

VARIABLES
    state,      \* ADSPConnection.state; CLOSED also means removed from the manager
    buf,        \* send_buffer
    unacked,    \* unacked_seq, and send_seq
    nextSeq,    \* send_next_seq
    recvSeq,    \* recv_seq
    delivered,  \* history: bytes handed to the protocol while it reads
    written,    \* history: bytes the program passed to ADSPTransport.write
    wbuf,       \* _write_buffer_size
    paused,     \* _paused
    closing,    \* ADSPTransport._closing
    lostCalls,  \* history: how often protocol.connection_lost was called
    ready,      \* tasks created and not started: send_data chunks, close_connection
    rx,         \* packet whose handler is suspended, or NoPacket
    flushing,   \* flushing[e][t]: tasks of kind t inside _flush_send_buffer
    closeTask,  \* where close_connection is
    waited,     \* ticks close_connection has waited for the buffer to empty
    timer,      \* the timer task: running, stopped, or dead of an exception
    idle,       \* ticks since the last packet from the peer (_last_recv_time)
    ticked,     \* ends whose timer has fired in the current interval
    running,    \* the task that holds the event loop
    chan,       \* chan[e]: packets sent by e and not yet received
    lost,       \* packets lost so far
    failed      \* sends that have raised so far

sendVars == <<buf, unacked, nextSeq, flushing>>
recvVars == <<recvSeq, delivered, rx>>
appVars  == <<written, wbuf, paused, closing, ready>>
lifeVars == <<state, lostCalls, closeTask, waited>>
timeVars == <<timer, idle, ticked>>
netVars  == <<chan, lost, failed>>
vars == <<sendVars, recvVars, appVars, lifeVars, timeVars, netVars, running>>

-------------------------------------------------------------------------------
(* Packets.  window_size is constant, seq_num of a control packet is not   *)
(* read by an OPEN receiver, ack_req is always set on data.                *)

Control(kind, ack) == [kind |-> kind, seq |-> 0, ack |-> ack, data |-> <<>>]
DataPacket(seq, ack, data) ==
    [kind |-> "data", seq |-> seq, ack |-> ack, data |-> data]
NoPacket == Control("none", 0)

FlushTasks == {"recv", "timer", "send"}
Tasks == FlushTasks \cup {"close"}

(* A created task: send_data(bytes from+1..to) or, for the last byte       *)
(* written, close_connection().                                            *)
SendTask(from, to) == [kind |-> "send", from |-> from, to |-> to]
CloseTask(last) == [kind |-> "close", from |-> last, to |-> last]

Bytes(from, to) == [i \in 1..(to - from) |-> from + i]

Lesser(a, b) == IF a <= b THEN a ELSE b

(* Python's b[lo:hi] of a bytearray, negative indices included.            *)
SliceIndex(b, k) ==
    IF k >= 0 THEN Lesser(k, Len(b))
    ELSE IF Len(b) + k >= 0 THEN Len(b) + k ELSE 0
PySlice(b, lo, hi) == SubSeq(b, SliceIndex(b, lo) + 1, SliceIndex(b, hi))

(* The channels c after e has sent p, and after e's next packet was taken. *)
Put(c, e, p) == IF Len(c[e]) < ChanCap THEN [c EXCEPT ![e] = Append(@, p)] ELSE c
Taken(e) == [chan EXCEPT ![Peer(e)] = Tail(@)]

(* A send that ends its task: sent, or raised with nothing left to abort.  *)
LastSend(c, e, p) ==
    \/ chan' = Put(c, e, p) /\ failed' = failed
    \/ /\ failed < MaxFail
       /\ failed' = failed + 1
       /\ chan' = c

MayRun(e, t) == running[e] \in {"none", t}
Idle(e) == running[e] = "none"

(* After a send, task t keeps the loop or is suspended.                    *)
AfterSend(e, t) ==
    \E r \in IF Backpressure THEN {t, "none"} ELSE {t} :
        running' = [running EXCEPT ![e] = r]

-------------------------------------------------------------------------------
Init ==
    /\ state = [e \in Ends |-> "OPEN"]
    /\ buf = [e \in Ends |-> <<>>]
    /\ unacked = [e \in Ends |-> 0]
    /\ nextSeq = [e \in Ends |-> 0]
    /\ recvSeq = [e \in Ends |-> 0]
    /\ delivered = [e \in Ends |-> <<>>]
    /\ written = [e \in Ends |-> 0]
    /\ wbuf = [e \in Ends |-> 0]
    /\ paused = [e \in Ends |-> FALSE]
    /\ closing = [e \in Ends |-> FALSE]
    /\ lostCalls = [e \in Ends |-> 0]
    /\ ready = [e \in Ends |-> <<>>]
    /\ rx = [e \in Ends |-> NoPacket]
    /\ flushing = [e \in Ends |-> [t \in FlushTasks |-> 0]]
    /\ closeTask = [e \in Ends |-> "none"]
    /\ waited = [e \in Ends |-> 0]
    /\ timer = [e \in Ends |-> "running"]
    /\ idle = [e \in Ends |-> 0]
    /\ ticked = {}
    /\ running = [e \in Ends |-> "none"]
    /\ chan = [e \in Ends |-> <<>>]
    /\ lost = 0
    /\ failed = 0

-------------------------------------------------------------------------------
(* The program.                                                            *)

(* StreamWriter.write: the transport counts the bytes, asks the program to *)
(* pause at the high-water mark and creates a send_data task.  The program *)
(* awaits drain() before it writes again, as the repository's tests do.    *)
Write(e) ==
    /\ Idle(e) /\ ~closing[e] /\ ~paused[e]
    /\ \E n \in 1..Lesser(MaxWrite, WriteLimit[e] - written[e]) :
        /\ written' = [written EXCEPT ![e] = @ + n]
        /\ wbuf' = [wbuf EXCEPT ![e] = @ + n]
        /\ paused' = [paused EXCEPT ![e] = wbuf[e] + n >= HighWater]
        /\ ready' = [ready EXCEPT ![e] =
                        Append(@, SendTask(written[e], written[e] + n))]
    /\ UNCHANGED <<sendVars, recvVars, closing, lifeVars, timeVars, netVars, running>>

(* StreamWriter.close, write_eof and abort.                                *)
Close(e) ==
    /\ Idle(e) /\ e \in Closers /\ ~closing[e]
    /\ closing' = [closing EXCEPT ![e] = TRUE]
    /\ ready' = [ready EXCEPT ![e] = Append(@, CloseTask(written[e]))]
    /\ lostCalls' = [lostCalls EXCEPT ![e] = @ + 1]
    /\ UNCHANGED <<sendVars, recvVars, written, wbuf, paused, state, closeTask,
                   waited, timeVars, netVars, running>>

-------------------------------------------------------------------------------
(* Sending.                                                                *)

InFlight(e) == nextSeq[e] - unacked[e]
AvailableWhole(e) == Window                              \* mutant of Available
Available(e) == Window - InFlight(e)
Remaining(e) == unacked[e] + Len(buf[e]) - nextSeq[e]

FlushStops(e) == Remaining(e) <= 0 \/ Available(e) <= 0

ChunkSize(e) == Lesser(MaxChunk, Lesser(Available(e), Remaining(e)))
ChunkSeqOfWindow(e) == unacked[e]                        \* mutant of ChunkSeq
ChunkSeq(e) == unacked[e] + InFlight(e)
Chunk(e) == PySlice(buf[e], InFlight(e), InFlight(e) + ChunkSize(e))

MaySendAlways(e) == TRUE                                 \* mutant of MaySend
MaySend(e) == state[e] = "OPEN"

(* send_data starts: outside OPEN the bytes are dropped.                   *)
SendDataStart(e) ==
    /\ Idle(e) /\ ready[e] # <<>> /\ Head(ready[e]).kind = "send"
    /\ ready' = [ready EXCEPT ![e] = Tail(@)]
    /\ \/ /\ MaySend(e)
          /\ buf' = [buf EXCEPT ![e] =
                        @ \o Bytes(Head(ready[e]).from, Head(ready[e]).to)]
          /\ flushing' = [flushing EXCEPT ![e]["send"] = @ + 1]
          /\ running' = [running EXCEPT ![e] = "send"]
       \/ /\ ~MaySend(e)
          /\ UNCHANGED <<buf, flushing, running>>
    /\ UNCHANGED <<unacked, nextSeq, recvVars, written, wbuf, paused, closing,
                   lifeVars, timeVars, netVars>>

(* One round of the loop of _flush_send_buffer: a chunk goes out.          *)
FlushSend(e, t) ==
    /\ MayRun(e, t) /\ flushing[e][t] > 0 /\ ~FlushStops(e)
    /\ chan' = Put(chan, e,
                DataPacket(ChunkSeq(e), recvSeq[e], Chunk(e)))
    /\ nextSeq' = [nextSeq EXCEPT ![e] = @ + Len(Chunk(e))]
    /\ AfterSend(e, t)
    /\ UNCHANGED <<buf, unacked, flushing, recvVars, appVars, lifeVars, timeVars,
                   lost, failed>>

(* The send raises: send_next_seq has advanced, the task dies.  For the    *)
(* receive loop handle_incoming catches the exception, so that the rest of *)
(* the packet's handling is skipped; the timer task never runs again.      *)
FlushRaise(e, t) ==
    /\ MayRun(e, t) /\ flushing[e][t] > 0 /\ ~FlushStops(e)
    /\ failed < MaxFail
    /\ failed' = failed + 1
    /\ nextSeq' = [nextSeq EXCEPT ![e] = @ + Len(Chunk(e))]
    /\ flushing' = [flushing EXCEPT ![e][t] = @ - 1]
    /\ running' = [running EXCEPT ![e] = "none"]
    /\ rx' = IF t = "recv" THEN [rx EXCEPT ![e] = NoPacket] ELSE rx
    /\ timer' = IF t = "timer" THEN [timer EXCEPT ![e] = "dead"] ELSE timer
    /\ UNCHANGED <<buf, unacked, recvSeq, delivered, appVars, lifeVars, idle,
                   ticked, chan, lost>>

(* The loop ends, and with it the task, unless it is the handler of a data *)
(* packet (FlushEndDeliver).                                               *)
FlushEnd(e, t) ==
    /\ MayRun(e, t) /\ flushing[e][t] > 0 /\ FlushStops(e)
    /\ ~(t = "recv" /\ rx[e].kind = "data")
    /\ flushing' = [flushing EXCEPT ![e][t] = @ - 1]
    /\ running' = [running EXCEPT ![e] = "none"]
    /\ rx' = IF t = "recv" THEN [rx EXCEPT ![e] = NoPacket] ELSE rx
    /\ UNCHANGED <<buf, unacked, nextSeq, recvSeq, delivered, appVars, lifeVars,
                   timeVars, netVars>>

-------------------------------------------------------------------------------
(* Receiving.                                                              *)

InSequenceOrBefore(e, p) == p.seq <= recvSeq[e]          \* mutant of InSequence
InSequence(e, p) == p.seq = recvSeq[e]

(* The second half of _process_data, for packet p and channels c: in-order *)
(* data is counted, handed to the protocol and acknowledged.  After        *)
(* connection_lost the protocol (asyncio's StreamReaderProtocol) discards  *)
(* what it is handed.                                                      *)
HandleSequence(e, p, c) ==
    \/ /\ InSequence(e, p)
       /\ recvSeq' = [recvSeq EXCEPT ![e] = @ + Len(p.data)]
       /\ delivered' = IF lostCalls[e] = 0
                       THEN [delivered EXCEPT ![e] = @ \o p.data]
                       ELSE delivered
       /\ LastSend(c, e, Control("ack", recvSeq'[e]))
    \/ /\ ~InSequence(e, p)
       /\ chan' = c
       /\ UNCHANGED <<recvSeq, delivered, failed>>

AckedBytesInclusive(e, p) == p.ack - unacked[e] + 1      \* mutant of AckedBytes
AckedBytes(e, p) == p.ack - unacked[e]
StaysPausedForGood(e, size) == paused[e]                 \* mutant of StaysPaused
StaysPaused(e, size) == paused[e] /\ size > LowWater

(* An acknowledgement of new bytes: they leave the buffer and the          *)
(* transport's count, and the handler goes on to flush what now fits.      *)
TakeAck(e, p) ==
    LET acked == AckedBytes(e, p)
        left  == IF wbuf[e] >= acked THEN wbuf[e] - acked ELSE 0
    IN  /\ unacked' = [unacked EXCEPT ![e] = p.ack]
        /\ buf' = [buf EXCEPT ![e] = SubSeq(@, acked + 1, Len(@))]
        /\ wbuf' = [wbuf EXCEPT ![e] = left]
        /\ paused' = [paused EXCEPT ![e] = StaysPaused(e, left)]
        /\ flushing' = [flushing EXCEPT ![e]["recv"] = 1]
        /\ rx' = [rx EXCEPT ![e] = p]
        /\ running' = [running EXCEPT ![e] = "recv"]

(* process_packet notes the time of every packet of a known connection.    *)
HeardNothing(e) == idle                                  \* mutant of Heard
Heard(e) == IF state[e] = "CLOSED" THEN idle ELSE [idle EXCEPT ![e] = 0]

(* e's receive loop takes the next packet from its peer.                   *)
Receiving(e, kinds) ==
    /\ Idle(e) /\ rx[e] = NoPacket
    /\ chan[Peer(e)] # <<>> /\ Head(chan[Peer(e)]).kind \in kinds
    /\ idle' = Heard(e)

(* Packets without effect: the connection is gone from the manager, or it  *)
(* is CLOSING and looks only at CLOSE_CONN.                                *)
RecvIgnored(e) ==
    /\ Receiving(e, {"data", "ack", "close"})
    /\ \/ state[e] = "CLOSED"
       \/ state[e] = "CLOSING" /\ Head(chan[Peer(e)]).kind # "close"
    /\ chan' = Taken(e)
    /\ UNCHANGED <<sendVars, recvVars, appVars, lifeVars, timer, ticked, lost,
                   failed, running>>

(* PROBE_OR_ACK or data that acknowledges new bytes.                       *)
RecvNewAck(e) ==
    /\ Receiving(e, {"data", "ack"}) /\ state[e] = "OPEN"
    /\ LET p == Head(chan[Peer(e)])
       IN  p.ack > unacked[e] /\ TakeAck(e, p)
    /\ chan' = Taken(e)
    /\ UNCHANGED <<nextSeq, recvSeq, delivered, written, closing, ready, lifeVars,
                   timer, ticked, lost, failed>>

(* PROBE_OR_ACK or data that does not.                                     *)
RecvNoAck(e) ==
    /\ Receiving(e, {"data", "ack"}) /\ state[e] = "OPEN"
    /\ LET p == Head(chan[Peer(e)])
       IN  /\ p.ack <= unacked[e]
           /\ IF p.kind = "data"
              THEN HandleSequence(e, p, Taken(e))
              ELSE /\ chan' = Taken(e)
                   /\ UNCHANGED <<recvSeq, delivered, failed>>
    /\ UNCHANGED <<sendVars, rx, appVars, lifeVars, timer, ticked, lost, running>>

(* The handler of a data packet resumes after its flush has ended.         *)
FlushEndDeliver(e) ==
    /\ MayRun(e, "recv") /\ flushing[e]["recv"] > 0 /\ FlushStops(e)
    /\ rx[e].kind = "data"
    /\ HandleSequence(e, rx[e], chan)
    /\ flushing' = [flushing EXCEPT ![e]["recv"] = 0]
    /\ rx' = [rx EXCEPT ![e] = NoPacket]
    /\ running' = [running EXCEPT ![e] = "none"]
    /\ UNCHANGED <<buf, unacked, nextSeq, appVars, lifeVars, timeVars, lost>>

-------------------------------------------------------------------------------
(* Closing.                                                                *)

(* _stop_timer: the task is cancelled wherever it is suspended.            *)
StopTimerNot(e) == UNCHANGED timer                       \* mutant of StopTimer
StopTimer(e) == timer' = [timer EXCEPT ![e] = "stopped"]
CancelTimerFlush(e) == flushing' = [flushing EXCEPT ![e]["timer"] = 0]

PeerClosedSilently(e) ==                                 \* mutant of PeerClosed
    /\ StopTimer(e) /\ CancelTimerFlush(e)
    /\ state' = [state EXCEPT ![e] = "CLOSED"]
    /\ UNCHANGED lostCalls

(* The end of the CLOSE_CONN branch of _process_control.                   *)
PeerClosed(e) ==
    /\ StopTimer(e) /\ CancelTimerFlush(e)
    /\ state' = [state EXCEPT ![e] = "CLOSED"]
    /\ lostCalls' = [lostCalls EXCEPT ![e] = @ + 1]

(* CLOSE_CONN while CLOSING: no answer, straight to CLOSED.                *)
RecvCloseClosing(e) ==
    /\ Receiving(e, {"close"}) /\ state[e] = "CLOSING"
    /\ PeerClosed(e)
    /\ chan' = Taken(e)
    /\ UNCHANGED <<buf, unacked, nextSeq, recvVars, appVars, closeTask, waited,
                   ticked, lost, failed, running>>

(* CLOSE_CONN while OPEN: it is answered first; the answer may raise, and  *)
(* then nothing else happens.                                              *)
RecvCloseOpen(e) ==
    /\ Receiving(e, {"close"}) /\ state[e] = "OPEN"
    /\ \/ /\ chan' = Put(Taken(e), e, Control("close", recvSeq[e]))
          /\ rx' = [rx EXCEPT ![e] = Head(chan[Peer(e)])]
          /\ AfterSend(e, "recv")
          /\ UNCHANGED failed
       \/ /\ failed < MaxFail
          /\ failed' = failed + 1
          /\ chan' = Taken(e)
          /\ UNCHANGED <<rx, running>>
    /\ UNCHANGED <<sendVars, recvSeq, delivered, appVars, lifeVars, timer, ticked,
                   lost>>

RecvCloseFinish(e) ==
    /\ MayRun(e, "recv") /\ rx[e].kind = "close"
    /\ PeerClosed(e)
    /\ rx' = [rx EXCEPT ![e] = NoPacket]
    /\ running' = [running EXCEPT ![e] = "none"]
    /\ UNCHANGED <<buf, unacked, nextSeq, recvSeq, delivered, appVars, closeTask,
                   waited, idle, ticked, netVars>>

(* close_connection starts.                                                *)
CloseStart(e) ==
    /\ Idle(e) /\ ready[e] # <<>> /\ Head(ready[e]).kind = "close"
    /\ ready' = [ready EXCEPT ![e] = Tail(@)]
    /\ \/ /\ state[e] \in {"CLOSED", "CLOSING"}
          /\ closeTask' = [closeTask EXCEPT ![e] = "done"]
          /\ UNCHANGED <<state, running>>
       \/ /\ state[e] = "OPEN"
          /\ state' = [state EXCEPT ![e] = "CLOSING"]
          /\ closeTask' = [closeTask EXCEPT ![e] =
                            IF buf[e] = <<>> THEN "proceed" ELSE "waiting"]
          /\ running' = [running EXCEPT ![e] =
                            IF buf[e] = <<>> THEN "close" ELSE "none"]
    /\ UNCHANGED <<sendVars, recvVars, written, wbuf, paused, closing, lostCalls,
                   waited, timeVars, netVars>>

WaitOver(e) == buf[e] = <<>> \/ waited[e] = TimeoutTicks

(* The wait for _buffer_empty_event (set exactly when the buffer is empty) *)
(* is over or has timed out; the timer is stopped and, unless the peer has *)
(* closed meanwhile, CLOSE_CONN is sent.  If that raises, the connection   *)
(* stays CLOSING.                                                          *)
CloseSend(e) ==
    /\ MayRun(e, "close")
    /\ \/ closeTask[e] = "proceed"
       \/ closeTask[e] = "waiting" /\ WaitOver(e)
    /\ StopTimer(e) /\ CancelTimerFlush(e)
    /\ \/ /\ state[e] = "CLOSED"
          /\ closeTask' = [closeTask EXCEPT ![e] = "done"]
          /\ running' = [running EXCEPT ![e] = "none"]
          /\ UNCHANGED <<chan, failed>>
       \/ /\ state[e] # "CLOSED"
          /\ chan' = Put(chan, e, Control("close", recvSeq[e]))
          /\ closeTask' = [closeTask EXCEPT ![e] = "sent"]
          /\ AfterSend(e, "close")
          /\ UNCHANGED failed
       \/ /\ state[e] # "CLOSED"
          /\ failed < MaxFail
          /\ failed' = failed + 1
          /\ closeTask' = [closeTask EXCEPT ![e] = "done"]
          /\ running' = [running EXCEPT ![e] = "none"]
          /\ UNCHANGED chan
    /\ UNCHANGED <<buf, unacked, nextSeq, recvVars, appVars, state, lostCalls,
                   waited, idle, ticked, lost>>

CloseFinish(e) ==
    /\ MayRun(e, "close") /\ closeTask[e] = "sent"
    /\ state' = [state EXCEPT ![e] = "CLOSED"]
    /\ closeTask' = [closeTask EXCEPT ![e] = "done"]
    /\ running' = [running EXCEPT ![e] = "none"]
    /\ UNCHANGED <<sendVars, recvVars, appVars, lostCalls, waited, timeVars, netVars>>

-------------------------------------------------------------------------------
(* The timer and the passing of time.                                      *)

(* The timer task is in asyncio.sleep.                                     *)
Sleeping(e) == timer[e] = "running" /\ flushing[e]["timer"] = 0

Ticks(e) ==
    /\ Idle(e) /\ Sleeping(e) /\ e \notin ticked
    /\ ticked' = ticked \cup {e}

SilentWithData(e) == idle[e] = TimeoutTicks /\ buf[e] # <<>>  \* mutant of Silent
Silent(e) == idle[e] = TimeoutTicks

(* Nothing heard for longer than _timeout_interval: _force_close.          *)
TickTimeout(e) ==
    /\ Ticks(e) /\ Silent(e)
    /\ state' = [state EXCEPT ![e] = "CLOSED"]
    /\ lostCalls' = [lostCalls EXCEPT ![e] = @ + 1]
    /\ StopTimer(e)
    /\ UNCHANGED <<sendVars, recvVars, appVars, closeTask, waited, idle, netVars,
                   running>>

RewindNot(e) == nextSeq                                  \* mutant of Rewind
RewindTooFar(e) == [nextSeq EXCEPT ![e] = unacked[e] - 1] \* mutant of Rewind
Rewind(e) == [nextSeq EXCEPT ![e] = unacked[e]]

(* Unacknowledged data: go back to the first unacknowledged byte.          *)
TickRetransmit(e) ==
    /\ Ticks(e) /\ idle[e] < TimeoutTicks /\ state[e] = "OPEN" /\ buf[e] # <<>>
    /\ idle' = [idle EXCEPT ![e] = @ + 1]
    /\ nextSeq' = Rewind(e)
    /\ flushing' = [flushing EXCEPT ![e]["timer"] = 1]
    /\ running' = [running EXCEPT ![e] = "timer"]
    /\ UNCHANGED <<buf, unacked, recvVars, appVars, lifeVars, timer, netVars>>

(* No unacknowledged data: a probe, whose exception would end the timer.   *)
TickProbe(e) ==
    /\ Ticks(e) /\ idle[e] < TimeoutTicks /\ state[e] = "OPEN" /\ buf[e] = <<>>
    /\ idle' = [idle EXCEPT ![e] = @ + 1]
    /\ \/ /\ chan' = Put(chan, e, Control("ack", recvSeq[e]))
          /\ UNCHANGED <<timer, failed>>
       \/ /\ failed < MaxFail
          /\ failed' = failed + 1
          /\ timer' = [timer EXCEPT ![e] = "dead"]
          /\ UNCHANGED chan
    /\ UNCHANGED <<sendVars, recvVars, appVars, lifeVars, lost, running>>

(* CLOSING: the timer only watches for silence.                            *)
TickClosing(e) ==
    /\ Ticks(e) /\ idle[e] < TimeoutTicks /\ state[e] = "CLOSING"
    /\ idle' = [idle EXCEPT ![e] = @ + 1]
    /\ UNCHANGED <<sendVars, recvVars, appVars, lifeVars, timer, netVars, running>>

TimerTick(e) ==
    TickTimeout(e) \/ TickRetransmit(e) \/ TickProbe(e) \/ TickClosing(e)

Quiet ==
    \A e \in Ends :
        /\ chan[e] = <<>> /\ ready[e] = <<>>
        /\ Idle(e) /\ rx[e] = NoPacket
        /\ \A t \in FlushTasks : flushing[e][t] = 0
        /\ closeTask[e] # "sent"

(* The next interval of _retransmit_interval begins: both nodes' clocks    *)
(* run at the same rate, so each sleeping timer has fired in the last one. *)
NextInterval ==
    /\ ticked # {} \/ \E e \in Ends : closeTask[e] = "waiting" /\ waited[e] < TimeoutTicks
    /\ \A e \in Ends : Sleeping(e) => e \in ticked
    /\ Prompt => Quiet
    /\ ticked' = {}
    /\ waited' = [e \in Ends |->
                    IF closeTask[e] = "waiting" THEN Lesser(waited[e] + 1, TimeoutTicks)
                    ELSE waited[e]]
    /\ UNCHANGED <<sendVars, recvVars, appVars, state, lostCalls, closeTask, timer,
                   idle, netVars, running>>

(* The network between the nodes is a FIFO per direction; the switch drops *)
(* what is addressed to a node that is not registered at the moment.       *)
Lose(e) ==
    /\ lost < MaxLost
    /\ \E i \in 1..Len(chan[e]) :
        chan' = [chan EXCEPT ![e] = SubSeq(@, 1, i - 1) \o SubSeq(@, i + 1, Len(@))]
    /\ lost' = lost + 1
    /\ UNCHANGED <<sendVars, recvVars, appVars, lifeVars, timeVars, failed, running>>

-------------------------------------------------------------------------------
Program(e) == Write(e) \/ Close(e)

FlushStep(e, t) == FlushSend(e, t) \/ FlushRaise(e, t) \/ FlushEnd(e, t)

Receive(e) ==
    RecvIgnored(e) \/ RecvNewAck(e) \/ RecvNoAck(e) \/ RecvCloseClosing(e)
        \/ RecvCloseOpen(e)

CloseStep(e) == CloseStart(e) \/ CloseSend(e) \/ CloseFinish(e)

Next ==
    \/ \E e \in Ends :
        \/ Program(e) \/ SendDataStart(e) \/ Receive(e) \/ RecvCloseFinish(e)
        \/ FlushEndDeliver(e) \/ CloseStep(e) \/ TimerTick(e) \/ Lose(e)
        \/ \E t \in FlushTasks : FlushStep(e, t)
    \/ NextInterval

Spec == Init /\ [][Next]_vars

(* asyncio runs every task that is ready and every node keeps reading its  *)
(* websocket; programs, losses and failures are under no obligation.       *)
Fairness ==
    /\ \A e \in Ends :
        /\ WF_vars(SendDataStart(e)) /\ WF_vars(Receive(e))
        /\ WF_vars(RecvCloseFinish(e)) /\ WF_vars(FlushEndDeliver(e))
        /\ WF_vars(CloseStart(e)) /\ WF_vars(CloseSend(e)) /\ WF_vars(CloseFinish(e))
        /\ WF_vars(TimerTick(e))
        /\ \A t \in FlushTasks : WF_vars(FlushSend(e, t) \/ FlushEnd(e, t))
    /\ WF_vars(NextInterval)

FairSpec == Spec /\ Fairness

-------------------------------------------------------------------------------
(* Properties.                                                             *)

Packets == [kind : {"data", "ack", "close", "none"}, seq : Nat, ack : Nat,
            data : Seq(Nat)]

(* Every variable keeps its type: no counter of the code goes below zero   *)
(* and no clock runs past its limit.                                       *)
TypeOK ==
    /\ state \in [Ends -> {"OPEN", "CLOSING", "CLOSED"}]
    /\ buf \in [Ends -> Seq(Nat)] /\ delivered \in [Ends -> Seq(Nat)]
    /\ unacked \in [Ends -> Nat] /\ nextSeq \in [Ends -> Nat]
    /\ recvSeq \in [Ends -> Nat]
    /\ written \in [Ends -> Nat] /\ wbuf \in [Ends -> Nat]
    /\ paused \in [Ends -> BOOLEAN] /\ closing \in [Ends -> BOOLEAN]
    /\ lostCalls \in [Ends -> Nat]
    /\ ready \in [Ends -> Seq([kind : {"send", "close"}, from : Nat, to : Nat])]
    /\ rx \in [Ends -> Packets]
    /\ flushing \in [Ends -> [FlushTasks -> Nat]]
    /\ closeTask \in [Ends -> {"none", "proceed", "waiting", "sent", "done"}]
    /\ waited \in [Ends -> 0..TimeoutTicks]
    /\ timer \in [Ends -> {"running", "stopped", "dead"}]
    /\ idle \in [Ends -> 0..TimeoutTicks]
    /\ ticked \in SUBSET Ends
    /\ running \in [Ends -> Tasks \cup {"none"}]
    /\ chan \in [Ends -> Seq(Packets)]
    /\ lost \in 0..MaxLost /\ failed \in 0..MaxFail

(* The refinement mapping: the promise is about what programs write and    *)
(* what they are handed; everything else is how the code keeps it.         *)
Stream == INSTANCE ByteStream WITH written <- written, delivered <- delivered

(* Each direction is a reliable byte stream: what an end is handed is what *)
(* its peer wrote, in order, without gap, repetition or corruption, over   *)
(* retransmissions, lost packets, failed sends and a closing connection.   *)
StreamSpec == Stream!Spec

(* The two ends agree on what has arrived: an acknowledged byte has been   *)
(* received, and a received byte was still the sender's to resend, in its  *)
(* send_buffer, unless acknowledged.                                       *)
AckSound ==
    \A e \in Ends :
        /\ unacked[e] <= recvSeq[Peer(e)]
        /\ recvSeq[Peer(e)] <= unacked[e] + Len(buf[e])

(* Every packet that can still reach the receiver is harmless, however     *)
(* late: it acknowledges only what its sender has received, and the bytes  *)
(* it carries are those at its sequence number and still in its sender's   *)
(* buffer, or lie before what the sender has seen acknowledged.            *)
PacketSound(e, p) ==
    /\ p.ack <= recvSeq[e]
    /\ p.kind = "data" =>
        \/ p.seq < unacked[e]
        \/ /\ \A i \in 1..Len(p.data) : p.data[i] = p.seq + i
           /\ p.seq + Len(p.data) <= unacked[e] + Len(buf[e])

InFlightSound ==
    \A e \in Ends :
        /\ \A i \in 1..Len(chan[e]) : PacketSound(e, chan[e][i])
        /\ PacketSound(e, rx[Peer(e)])

(* The send buffer is the segment of the stream that starts at unacked_seq.*)
BufferSound ==
    \A e \in Ends : \A i \in 1..Len(buf[e]) : buf[e][i] = unacked[e] + i

(* While OPEN the tasks that wait to run carry the rest of what was        *)
(* written, in order: the first starts where the send buffer ends, each    *)
(* other one where its predecessor ends.                                   *)
Chained(tasks, end, last) ==
    /\ tasks = <<>> => end = last
    /\ tasks # <<>> => tasks[1].from = end /\ tasks[Len(tasks)].to = last
    /\ \A i \in 1..Len(tasks) :
        tasks[i].from <= tasks[i].to /\ tasks[i].to <= last
    /\ \A i \in 1..(Len(tasks) - 1) : tasks[i + 1].from = tasks[i].to

ReadySound ==
    \A e \in Ends : state[e] = "OPEN" =>
        Chained(ready[e], unacked[e] + Len(buf[e]), written[e])

(* What the program was handed is a prefix of 1, 2, ..., and all that was  *)
(* received until the connection ended.                                    *)
DeliveredSound ==
    \A e \in Ends :
        /\ \A i \in 1..Len(delivered[e]) : delivered[e][i] = i
        /\ Len(delivered[e]) <= recvSeq[e]
        /\ lostCalls[e] = 0 => Len(delivered[e]) = recvSeq[e]

BufferWritten == \A e \in Ends : unacked[e] + Len(buf[e]) <= written[e]

(* The inductive invariant behind StreamSpec: sender's buffer, tasks to    *)
(* run, packets in flight and receiver agree on the stream of each         *)
(* direction at every step.                                                *)
StreamInv ==
    /\ AckSound /\ InFlightSound /\ BufferSound /\ BufferWritten /\ ReadySound
    /\ DeliveredSound

(* While OPEN the transport's count of unsent bytes is exactly what the    *)
(* peer has not acknowledged, across the tasks that carry a write to the   *)
(* send buffer, and the water marks bound it.                              *)
Accounting ==
    \A e \in Ends :
        /\ state[e] = "OPEN" => wbuf[e] = written[e] - unacked[e]
        /\ wbuf[e] < HighWater + MaxWrite

(* As long as no send suspends or raises half way, send_next_seq stays     *)
(* inside the window of the first unacknowledged byte, after an            *)
(* acknowledgement, and after a retransmission that went back to it.       *)
WindowRespected ==
    \A e \in Ends : unacked[e] <= nextSeq[e] /\ nextSeq[e] <= unacked[e] + Window

(* A connection that is gone leaves no timer behind.                       *)
NoTimerLeft == \A e \in Ends : state[e] = "CLOSED" => timer[e] # "running"

(* A connection ends with its program told (connection_lost), whoever      *)
(* closes and whatever is lost.                                            *)
ProgramTold == \A e \in Ends : state[e] = "CLOSED" => lostCalls[e] > 0

(* CLOSED is final: the state never changes again, the program is handed   *)
(* nothing more, and nothing is sent or received but by a task that was    *)
(* suspended in a send when the connection closed; no task created before  *)
(* and no packet in flight starts such work anew.                          *)
Working(e) == rx[e] # NoPacket \/ \E t \in FlushTasks : flushing[e][t] > 0
ClosedIsFinal ==
    [][\A e \in Ends : state[e] = "CLOSED" =>
        /\ state'[e] = "CLOSED" /\ delivered'[e] = delivered[e]
        /\ Working(e) \/ /\ ~Working(e)' /\ recvSeq'[e] = recvSeq[e]
                         /\ Len(chan'[e]) <= Len(chan[e])]_vars

(* When a round trip is shorter than the retransmission interval, probes   *)
(* and retransmissions keep a connection nobody closes alive, though up to *)
(* TimeoutTicks - 2 packets are lost in a row: of the TimeoutTicks that    *)
(* must pass in silence one goes to the first tick, right after a packet,  *)
(* and one to a last packet that comes right after the tick.               *)
NobodyCloses == \A e \in Ends : ~closing[e]
KeepAlive == NobodyCloses => \A e \in Ends : state[e] # "CLOSED"

(* Until somebody closes, every written byte is in the end acknowledged,   *)
(* however packets are lost, and a program asked to pause is resumed.      *)
EventuallyAcked ==
    \A e \in Ends : \A n \in 1..WriteLimit[e] :
        written[e] >= n ~> unacked[e] >= n \/ ~NobodyCloses
EventuallyResumed ==
    \A e \in Ends : paused[e] ~> ~paused[e] \/ ~NobodyCloses

(* A close at either end closes both, CLOSE_CONN lost or not: at the end   *)
(* that does not learn of it the timer's check for a dead connection does. *)
BothClose ==
    (\E e \in Ends : closing[e]) ~> (\A e \in Ends : state[e] = "CLOSED")

(* A packet's handler ends: _flush_send_buffer sends what fits the window  *)
(* and returns.                                                            *)
HandlerEnds == \A e \in Ends : rx[e] # NoPacket ~> rx[e] = NoPacket

(* close_connection waits until the send buffer is cleared: nothing being  *)
(* lost and the peer open, the acknowledgements of the bytes in the buffer *)
(* clear it before the wait times out.                                     *)
CloseDrains == \A e \in Ends : waited[e] = TimeoutTicks => buf[e] = <<>>
===============================================================================

------------------------- MODULE ADSPStreamTypeProofs -------------------------
(* ADSPStream keeps its types, for every value of its constants, and the   *)
(* facts about its operators that the other proofs rest on.                *)
EXTENDS ADSPStream, SequenceTheorems, TLAPS

-------------------------------------------------------------------------------
(* Facts about the operators of the specification.                         *)

(* The two ends are each other's peer. *)
LEMMA PeerFacts ==
    ASSUME NEW e \in Ends
    PROVE  /\ Peer(e) \in Ends /\ Peer(e) # e /\ Peer(Peer(e)) = e
           /\ Ends = {e, Peer(e)}
    BY DEF Ends, Peer

(* A control packet and NoPacket are packets; so is a data packet. *)
LEMMA PacketType ==
    /\ NoPacket \in Packets /\ NoPacket.kind = "none" /\ NoPacket.ack = 0
    /\ \A kind \in {"ack", "close"} : \A ack \in Nat : Control(kind, ack) \in Packets
    /\ \A seq, ack \in Nat : \A data \in Seq(Nat) :
        DataPacket(seq, ack, data) \in Packets
<1>1. <<>> \in Seq(Nat)
    OBVIOUS
<1> QED
    BY <1>1 DEF NoPacket, Control, DataPacket, Packets

(* Put adds at most the packet it is given, at its sender's end. *)
LEMMA PutFacts ==
    ASSUME NEW c \in [Ends -> Seq(Packets)], NEW e \in Ends, NEW p \in Packets
    PROVE  /\ Put(c, e, p) \in [Ends -> Seq(Packets)]
           /\ \A d \in Ends : \A i \in 1..Len(Put(c, e, p)[d]) :
                \/ d = e /\ Put(c, e, p)[d][i] = p
                \/ \E j \in 1..Len(c[d]) : Put(c, e, p)[d][i] = c[d][j]
<1>1. CASE Len(c[e]) < ChanCap
    <2>1. Put(c, e, p) = [c EXCEPT ![e] = Append(c[e], p)]
        BY <1>1 DEF Put
    <2>2. Append(c[e], p) \in Seq(Packets)
        OBVIOUS
    <2>3. \A i \in 1..Len(Append(c[e], p)) :
            \/ Append(c[e], p)[i] = p
            \/ i \in 1..Len(c[e]) /\ Append(c[e], p)[i] = c[e][i]
        OBVIOUS
    <2> QED
        BY <2>1, <2>2, <2>3
<1>2. CASE ~(Len(c[e]) < ChanCap)
    BY <1>2 DEF Put
<1> QED
    BY <1>1, <1>2

(* Receiving takes a packet out of the peer's channel. *)
LEMMA TakenFacts ==
    ASSUME chan \in [Ends -> Seq(Packets)], NEW e \in Ends, chan[Peer(e)] # <<>>
    PROVE  /\ Taken(e) \in [Ends -> Seq(Packets)]
           /\ Head(chan[Peer(e)]) \in Packets
           /\ 1 \in 1..Len(chan[Peer(e)])
           /\ Head(chan[Peer(e)]) = chan[Peer(e)][1]
           /\ \A d \in Ends : \A i \in 1..Len(Taken(e)[d]) :
                \E j \in 1..Len(chan[d]) : Taken(e)[d][i] = chan[d][j]
<1> DEFINE q == chan[Peer(e)]
<1>1. Peer(e) \in Ends /\ q \in Seq(Packets) /\ q # <<>>
    BY PeerFacts
<1>2. /\ Tail(q) \in Seq(Packets) /\ Head(q) \in Packets
      /\ 1 \in 1..Len(q) /\ Head(q) = q[1]
    BY <1>1
<1>3. \A i \in 1..Len(Tail(q)) : i + 1 \in 1..Len(q) /\ Tail(q)[i] = q[i + 1]
    BY <1>1
<1>4. Taken(e) = [chan EXCEPT ![Peer(e)] = Tail(q)]
    BY DEF Taken
<1> HIDE DEF q
<1>5. Taken(e) \in [Ends -> Seq(Packets)]
    BY <1>1, <1>2, <1>4
<1>6. ASSUME NEW d \in Ends, NEW i \in 1..Len(Taken(e)[d])
      PROVE  \E j \in 1..Len(chan[d]) : Taken(e)[d][i] = chan[d][j]
    <2>1. CASE d = Peer(e)
        <3>1. Taken(e)[d] = Tail(q) /\ chan[d] = q
            BY <2>1, <1>4 DEF q
        <3> QED
            BY <3>1, <1>3
    <2>2. CASE d # Peer(e)
        BY <2>2, <1>4
    <2> QED
        BY <2>1, <2>2
<1> QED
    BY <1>2, <1>5, <1>6 DEF q

(* Lesser is the minimum. *)
LEMMA LesserFacts ==
    ASSUME NEW a \in Int, NEW b \in Int
    PROVE  /\ Lesser(a, b) \in Int /\ Lesser(a, b) <= a /\ Lesser(a, b) <= b
           /\ Lesser(a, b) = a \/ Lesser(a, b) = b
    BY DEF Lesser

(* Slices and segments of bytes are sequences of bytes. *)
LEMMA BytesType ==
    /\ \A from, to \in Nat : Bytes(from, to) \in Seq(Nat)
    /\ \A b \in Seq(Nat) : \A lo, hi \in Int :
        /\ SliceIndex(b, lo) \in 0..Len(b)
        /\ PySlice(b, lo, hi) \in Seq(Nat)
<1>1. ASSUME NEW from \in Nat, NEW to \in Nat
      PROVE  Bytes(from, to) \in Seq(Nat)
    <2>1. CASE to >= from
        BY <2>1 DEF Bytes
    <2>2. CASE ~(to >= from)
        <3>1. Bytes(from, to) = <<>>
            BY <2>2 DEF Bytes
        <3> QED
            BY <3>1
    <2> QED
        BY <2>1, <2>2
<1>2. ASSUME NEW b \in Seq(Nat), NEW lo \in Int, NEW hi \in Int
      PROVE  SliceIndex(b, lo) \in 0..Len(b) /\ PySlice(b, lo, hi) \in Seq(Nat)
    <2>1. SliceIndex(b, lo) \in 0..Len(b) /\ SliceIndex(b, hi) \in 0..Len(b)
        BY DEF SliceIndex, Lesser
    <2> QED
        BY <2>1 DEF PySlice
<1> QED
    BY <1>1, <1>2

-------------------------------------------------------------------------------
(* Type correctness.                                                       *)

(* What the operators that several actions share do to the types. *)
LEMMA ChunkType ==
    ASSUME TypeOK, SizesAssumption, NEW e \in Ends, ~FlushStops(e)
    PROVE  /\ InFlight(e) \in Int
           /\ ChunkSize(e) \in Nat \ {0}
           /\ ChunkSize(e) <= Remaining(e)
           /\ ChunkSeq(e) = nextSeq[e] /\ ChunkSeq(e) \in Nat
           /\ Chunk(e) \in Seq(Nat)
           /\ nextSeq[e] + Len(Chunk(e)) \in Nat
<1>1. /\ nextSeq[e] \in Nat /\ unacked[e] \in Nat /\ buf[e] \in Seq(Nat)
      /\ Len(buf[e]) \in Nat /\ MaxChunk \in Nat \ {0} /\ Window \in Nat
    BY DEF TypeOK, SizesAssumption
<1>2. InFlight(e) \in Int /\ Available(e) \in Int /\ Remaining(e) \in Int
    BY <1>1 DEF InFlight, Available, Remaining
<1>3. Remaining(e) > 0 /\ Available(e) > 0
    BY <1>2 DEF FlushStops
<1>4. ChunkSize(e) \in Nat \ {0} /\ ChunkSize(e) <= Remaining(e)
    BY <1>1, <1>2, <1>3 DEF ChunkSize, Lesser
<1>5. ChunkSeq(e) = nextSeq[e]
    BY <1>1 DEF ChunkSeq, InFlight
<1>6. Chunk(e) \in Seq(Nat)
    <2>1. \A lo, hi \in Int : PySlice(buf[e], lo, hi) \in Seq(Nat)
        BY <1>1, BytesType
    <2>2. InFlight(e) + ChunkSize(e) \in Int
        BY <1>2, <1>4
    <2> QED
        BY <1>2, <2>1, <2>2 DEF Chunk
<1>7. Len(Chunk(e)) \in Nat
    BY <1>6
<1> QED
    BY <1>1, <1>2, <1>4, <1>5, <1>6, <1>7

LEMMA SendType ==
    ASSUME TypeOK, NEW e \in Ends
    PROVE  /\ \A c \in [Ends -> Seq(Packets)] : \A p \in Packets :
                LastSend(c, e, p) => /\ chan' \in [Ends -> Seq(Packets)]
                                     /\ failed' \in 0..MaxFail
           /\ \A t \in Tasks : AfterSend(e, t) =>
                running' \in [Ends -> Tasks \cup {"none"}]
<1>1. ASSUME NEW c \in [Ends -> Seq(Packets)], NEW p \in Packets, LastSend(c, e, p)
      PROVE  chan' \in [Ends -> Seq(Packets)] /\ failed' \in 0..MaxFail
    <2>1. Put(c, e, p) \in [Ends -> Seq(Packets)]
        BY PutFacts
    <2>2. failed \in Nat /\ failed <= MaxFail /\ MaxFail \in Nat
        BY BoundsAssumption DEF TypeOK, BoundsAssumption
    <2>3. (chan' = Put(c, e, p) /\ failed' = failed)
            \/ (failed < MaxFail /\ failed' = failed + 1 /\ chan' = c)
        BY <1>1 DEF LastSend
    <2> QED
        BY <2>1, <2>2, <2>3
<1>2. ASSUME NEW t \in Tasks, AfterSend(e, t)
      PROVE  running' \in [Ends -> Tasks \cup {"none"}]
    BY <1>2 DEF AfterSend, TypeOK
<1> QED
    BY <1>1, <1>2

LEMMA ReceivingType ==
    ASSUME TypeOK, SizesAssumption, NEW e \in Ends, NEW kinds, Receiving(e, kinds)
    PROVE  /\ idle' \in [Ends -> 0..TimeoutTicks]
           /\ Taken(e) \in [Ends -> Seq(Packets)]
           /\ Head(chan[Peer(e)]) \in Packets
           /\ Head(chan[Peer(e)]).kind \in kinds
<1>1. chan \in [Ends -> Seq(Packets)]
    BY DEF TypeOK
<1>2. idle' \in [Ends -> 0..TimeoutTicks]
    BY DEF TypeOK, SizesAssumption, Receiving, Heard
<1> QED
    BY <1>1, <1>2, TakenFacts DEF Receiving

LEMMA HandleSequenceType ==
    ASSUME TypeOK, NEW e \in Ends, NEW p \in Packets,
           NEW c \in [Ends -> Seq(Packets)], HandleSequence(e, p, c)
    PROVE  /\ recvSeq' \in [Ends -> Nat] /\ delivered' \in [Ends -> Seq(Nat)]
           /\ chan' \in [Ends -> Seq(Packets)] /\ failed' \in 0..MaxFail
<1>1. p.data \in Seq(Nat) /\ Len(p.data) \in Nat
    BY DEF Packets
<1>2. CASE ~InSequence(e, p)
    BY <1>2 DEF HandleSequence, TypeOK
<1>3. CASE InSequence(e, p)
    <2>1. recvSeq' \in [Ends -> Nat] /\ recvSeq'[e] \in Nat
        <3>1. recvSeq' = [recvSeq EXCEPT ![e] = @ + Len(p.data)]
            BY <1>3 DEF HandleSequence
        <3>2. recvSeq \in [Ends -> Nat]
            BY DEF TypeOK
        <3>3. recvSeq[e] + Len(p.data) \in Nat
            BY <1>1, <3>2
        <3> QED
            BY <3>1, <3>2, <3>3
    <2>2. delivered' \in [Ends -> Seq(Nat)]
        <3>1. delivered[e] \o p.data \in Seq(Nat)
            BY <1>1 DEF TypeOK
        <3>2. \/ delivered' = [delivered EXCEPT ![e] = @ \o p.data]
              \/ delivered' = delivered
            BY <1>3 DEF HandleSequence
        <3> QED
            BY <3>1, <3>2 DEF TypeOK
    <2>3. Control("ack", recvSeq'[e]) \in Packets
        BY <2>1, PacketType
    <2>4. LastSend(c, e, Control("ack", recvSeq'[e]))
        BY <1>3 DEF HandleSequence
    <2> QED
        BY <2>1, <2>2, <2>3, <2>4, SendType
<1> QED
    BY <1>2, <1>3

LEMMA TakeAckType ==
    ASSUME TypeOK, NEW e \in Ends, NEW p \in Packets, p.ack > unacked[e], TakeAck(e, p)
    PROVE  /\ unacked' \in [Ends -> Nat] /\ buf' \in [Ends -> Seq(Nat)]
           /\ wbuf' \in [Ends -> Nat] /\ paused' \in [Ends -> BOOLEAN]
           /\ flushing' \in [Ends -> [FlushTasks -> Nat]]
           /\ rx' \in [Ends -> Packets]
           /\ running' \in [Ends -> Tasks \cup {"none"}]
<1>1. p.ack \in Nat /\ unacked[e] \in Nat
    BY DEF Packets, TypeOK
<1>2. AckedBytes(e, p) \in Nat
    BY <1>1 DEF AckedBytes
<1> DEFINE left == IF wbuf[e] >= AckedBytes(e, p) THEN wbuf[e] - AckedBytes(e, p) ELSE 0
<1>3. left \in Nat
    BY <1>2 DEF TypeOK
<1>4. SubSeq(buf[e], AckedBytes(e, p) + 1, Len(buf[e])) \in Seq(Nat)
    <2>1. buf[e] \in Seq(Nat) /\ Len(buf[e]) \in Nat
        BY DEF TypeOK
    <2>2. CASE AckedBytes(e, p) <= Len(buf[e])
        BY <1>2, <2>1, <2>2
    <2>3. CASE ~(AckedBytes(e, p) <= Len(buf[e]))
        <3>1. SubSeq(buf[e], AckedBytes(e, p) + 1, Len(buf[e])) = <<>>
            BY <1>2, <2>1, <2>3
        <3>2. <<>> \in Seq(Nat)
            OBVIOUS
        <3> QED
            BY <3>1, <3>2
    <2> QED
        BY <2>2, <2>3
<1>5. StaysPaused(e, left) \in BOOLEAN
    BY <1>3 DEF StaysPaused, TypeOK
<1> HIDE DEF left
<1>6. /\ unacked' = [unacked EXCEPT ![e] = p.ack]
      /\ buf' = [buf EXCEPT ![e] = SubSeq(@, AckedBytes(e, p) + 1, Len(@))]
      /\ wbuf' = [wbuf EXCEPT ![e] = left]
      /\ paused' = [paused EXCEPT ![e] = StaysPaused(e, left)]
      /\ flushing' = [flushing EXCEPT ![e]["recv"] = 1]
      /\ rx' = [rx EXCEPT ![e] = p]
      /\ running' = [running EXCEPT ![e] = "recv"]
    BY DEF TakeAck, left
<1>7. flushing' \in [Ends -> [FlushTasks -> Nat]]
    BY <1>6 DEF TypeOK
<1>8. running' \in [Ends -> Tasks \cup {"none"}]
    BY <1>6 DEF TypeOK, Tasks, FlushTasks
<1> QED
    BY <1>1, <1>3, <1>4, <1>5, <1>6, <1>7, <1>8 DEF TypeOK

LEMMA PeerClosedType ==
    ASSUME TypeOK, NEW e \in Ends
    PROVE  /\ StopTimer(e) => timer' \in [Ends -> {"running", "stopped", "dead"}]
           /\ CancelTimerFlush(e) => flushing' \in [Ends -> [FlushTasks -> Nat]]
           /\ PeerClosed(e) =>
                /\ timer' \in [Ends -> {"running", "stopped", "dead"}]
                /\ flushing' \in [Ends -> [FlushTasks -> Nat]]
                /\ state' \in [Ends -> {"OPEN", "CLOSING", "CLOSED"}]
                /\ lostCalls' \in [Ends -> Nat]
<1>1. StopTimer(e) => timer' \in [Ends -> {"running", "stopped", "dead"}]
    BY DEF TypeOK, StopTimer
<1>2. ASSUME CancelTimerFlush(e) PROVE flushing' \in [Ends -> [FlushTasks -> Nat]]
    <2>1. /\ flushing' = [flushing EXCEPT ![e] = [flushing[e] EXCEPT !["timer"] = 0]]
          /\ flushing \in [Ends -> [FlushTasks -> Nat]]
        BY <1>2 DEF TypeOK, CancelTimerFlush
    <2>2. [flushing[e] EXCEPT !["timer"] = 0] \in [FlushTasks -> Nat]
        BY <2>1
    <2> QED
        BY <2>1, <2>2
<1>3. ASSUME PeerClosed(e)
      PROVE  /\ state' \in [Ends -> {"OPEN", "CLOSING", "CLOSED"}]
             /\ lostCalls' \in [Ends -> Nat]
             /\ StopTimer(e) /\ CancelTimerFlush(e)
    <2>1. /\ state' = [state EXCEPT ![e] = "CLOSED"]
          /\ lostCalls' = [lostCalls EXCEPT ![e] = @ + 1]
          /\ StopTimer(e) /\ CancelTimerFlush(e)
        BY <1>3 DEF PeerClosed
    <2> QED
        BY SMTT(30), <2>1 DEF TypeOK
<1> QED
    BY <1>1, <1>2, <1>3

(* A step in which no send raises, or one does.                            *)
LEMMA FailedType ==
    ASSUME TypeOK, failed' = failed \/ (failed < MaxFail /\ failed' = failed + 1)
    PROVE  failed' \in 0..MaxFail
    BY BoundsAssumption DEF TypeOK, BoundsAssumption

(* Every step keeps the types. *)
LEMMA TypeStep ==
    ASSUME TypeOK, [Next]_vars
    PROVE  TypeOK'
<1>1. ASSUME NEW e \in Ends, Write(e) PROVE TypeOK'
    <2>1. PICK n \in 1..Lesser(MaxWrite, WriteLimit[e] - written[e]) :
            /\ written' = [written EXCEPT ![e] = @ + n]
            /\ wbuf' = [wbuf EXCEPT ![e] = @ + n]
            /\ paused' = [paused EXCEPT ![e] = wbuf[e] + n >= HighWater]
            /\ ready' = [ready EXCEPT ![e] =
                            Append(@, SendTask(written[e], written[e] + n))]
        BY <1>1 DEF Write
    <2>2. Lesser(MaxWrite, WriteLimit[e] - written[e]) \in Int
        BY SMTT(30), LesserFacts, BoundsAssumption DEF BoundsAssumption, TypeOK
    <2>3. n \in Nat
        BY <2>2
    <2>4. written' \in [Ends -> Nat] /\ wbuf' \in [Ends -> Nat] /\ written[e] \in Nat
        <3>1. written \in [Ends -> Nat] /\ wbuf \in [Ends -> Nat]
            BY DEF TypeOK
        <3> QED
            BY <2>1, <2>3, <3>1
    <2>5. paused' \in [Ends -> BOOLEAN]
        BY <2>1 DEF TypeOK
    <2>6. SendTask(written[e], written[e] + n) \in [kind : {"send", "close"}, from : Nat, to : Nat]
        BY <2>3, <2>4 DEF SendTask
    <2>7. ready' \in [Ends -> Seq([kind : {"send", "close"}, from : Nat, to : Nat])]
        BY <2>1, <2>6 DEF TypeOK
    <2> QED
        BY <1>1, <2>1, <2>2, <2>3, <2>4, <2>5, <2>6, <2>7 DEF Write, TypeOK, sendVars, recvVars, appVars, lifeVars, timeVars, netVars
<1>2. ASSUME NEW e \in Ends, Close(e) PROVE TypeOK'
    <2>1. CloseTask(written[e]) \in [kind : {"send", "close"}, from : Nat, to : Nat]
        BY DEF CloseTask, TypeOK
    <2>2. ready' \in [Ends -> Seq([kind : {"send", "close"}, from : Nat, to : Nat])]
        BY <1>2, <2>1 DEF Close, TypeOK
    <2>3. lostCalls' \in [Ends -> Nat] /\ closing' \in [Ends -> BOOLEAN]
        BY SMTT(30), <1>2 DEF Close, TypeOK
    <2> QED
        BY <1>2, <2>1, <2>2, <2>3 DEF Close, TypeOK, sendVars, recvVars, appVars, lifeVars, timeVars, netVars
<1>3. ASSUME NEW e \in Ends, SendDataStart(e) PROVE TypeOK'
    <2>1. /\ ready[e] \in Seq([kind : {"send", "close"}, from : Nat, to : Nat]) /\ ready[e] # <<>>
          /\ ready' = [ready EXCEPT ![e] = Tail(ready[e])]
        BY <1>3 DEF SendDataStart, TypeOK
    <2>2. /\ Head(ready[e]) \in [kind : {"send", "close"}, from : Nat, to : Nat]
          /\ Tail(ready[e]) \in Seq([kind : {"send", "close"}, from : Nat, to : Nat])
        BY <2>1, HeadTailProperties
    <2>3. ready' \in [Ends -> Seq([kind : {"send", "close"}, from : Nat, to : Nat])]
        BY <2>1, <2>2 DEF TypeOK
    <2>4. Bytes(Head(ready[e]).from, Head(ready[e]).to) \in Seq(Nat)
        BY <2>2, BytesType
    <2>5. buf' \in [Ends -> Seq(Nat)]
        <3>1. \/ buf' = [buf EXCEPT ![e] =
                            @ \o Bytes(Head(ready[e]).from, Head(ready[e]).to)]
              \/ buf' = buf
            BY <1>3 DEF SendDataStart
        <3>2. buf \in [Ends -> Seq(Nat)]
            BY DEF TypeOK
        <3>3. buf[e] \o Bytes(Head(ready[e]).from, Head(ready[e]).to) \in Seq(Nat)
            BY <2>4, <3>2
        <3> QED
            BY <3>1, <3>2, <3>3
    <2>6. flushing' \in [Ends -> [FlushTasks -> Nat]]
        <3> DEFINE tasks == [flushing[e] EXCEPT !["send"] = flushing[e]["send"] + 1]
        <3>1. flushing' = [flushing EXCEPT ![e] = tasks] \/ flushing' = flushing
            BY <1>3 DEF SendDataStart
        <3>2. flushing \in [Ends -> [FlushTasks -> Nat]]
            BY DEF TypeOK
        <3>3. flushing[e] \in [FlushTasks -> Nat] /\ flushing[e]["send"] + 1 \in Nat
            BY <3>2 DEF FlushTasks
        <3>4. tasks \in [FlushTasks -> Nat]
            BY <3>3
        <3> HIDE DEF tasks
        <3> QED
            BY <3>1, <3>2, <3>4
    <2>7. running' \in [Ends -> Tasks \cup {"none"}]
        BY <1>3 DEF SendDataStart, TypeOK, Tasks, FlushTasks
    <2> QED
        BY <1>3, <2>1, <2>2, <2>3, <2>4, <2>5, <2>6, <2>7 DEF SendDataStart, TypeOK, sendVars, recvVars, appVars, lifeVars, timeVars, netVars
<1>4. ASSUME NEW e \in Ends, RecvIgnored(e) PROVE TypeOK'
    <2>1. idle' \in [Ends -> 0..TimeoutTicks] /\ chan' \in [Ends -> Seq(Packets)]
        BY <1>4, ReceivingType, SizesAssumption DEF RecvIgnored
    <2> QED
        BY <1>4, <2>1 DEF RecvIgnored, TypeOK, sendVars, recvVars, appVars, lifeVars, timeVars, netVars
<1>5. ASSUME NEW e \in Ends, RecvNewAck(e) PROVE TypeOK'
    <2>1. idle' \in [Ends -> 0..TimeoutTicks] /\ chan' \in [Ends -> Seq(Packets)]
        BY <1>5, ReceivingType, SizesAssumption DEF RecvNewAck
    <2>2. Head(chan[Peer(e)]) \in Packets
        BY <1>5, ReceivingType, SizesAssumption DEF RecvNewAck
    <2>3. /\ unacked' \in [Ends -> Nat] /\ buf' \in [Ends -> Seq(Nat)]
          /\ wbuf' \in [Ends -> Nat] /\ paused' \in [Ends -> BOOLEAN]
          /\ flushing' \in [Ends -> [FlushTasks -> Nat]]
          /\ rx' \in [Ends -> Packets]
          /\ running' \in [Ends -> Tasks \cup {"none"}]
        BY <1>5, <2>2, TakeAckType DEF RecvNewAck
    <2> QED
        BY <1>5, <2>1, <2>2, <2>3 DEF RecvNewAck, TypeOK, sendVars, recvVars, appVars, lifeVars, timeVars, netVars
<1>6. ASSUME NEW e \in Ends, RecvNoAck(e) PROVE TypeOK'
    <2>1. /\ idle' \in [Ends -> 0..TimeoutTicks] /\ Taken(e) \in [Ends -> Seq(Packets)]
          /\ Head(chan[Peer(e)]) \in Packets
        BY <1>6, ReceivingType, SizesAssumption DEF RecvNoAck
    <2>2. \/ HandleSequence(e, Head(chan[Peer(e)]), Taken(e))
          \/ /\ chan' = Taken(e)
             /\ UNCHANGED <<recvSeq, delivered, failed>>
        BY <1>6 DEF RecvNoAck
    <2>3. /\ recvSeq' \in [Ends -> Nat] /\ delivered' \in [Ends -> Seq(Nat)]
          /\ chan' \in [Ends -> Seq(Packets)] /\ failed' \in 0..MaxFail
        BY <2>1, <2>2, HandleSequenceType DEF TypeOK
    <2> QED
        BY <1>6, <2>1, <2>2, <2>3 DEF RecvNoAck, TypeOK, sendVars, recvVars, appVars, lifeVars, timeVars, netVars
<1>7. ASSUME NEW e \in Ends, RecvCloseClosing(e) PROVE TypeOK'
    <2>1. idle' \in [Ends -> 0..TimeoutTicks] /\ chan' \in [Ends -> Seq(Packets)]
        BY <1>7, ReceivingType, SizesAssumption DEF RecvCloseClosing
    <2>2. /\ timer' \in [Ends -> {"running", "stopped", "dead"}]
          /\ flushing' \in [Ends -> [FlushTasks -> Nat]]
          /\ state' \in [Ends -> {"OPEN", "CLOSING", "CLOSED"}]
          /\ lostCalls' \in [Ends -> Nat]
        BY <1>7, PeerClosedType DEF RecvCloseClosing
    <2> QED
        BY <1>7, <2>1, <2>2 DEF RecvCloseClosing, TypeOK, sendVars, recvVars, appVars, lifeVars, timeVars, netVars
<1>8. ASSUME NEW e \in Ends, RecvCloseOpen(e) PROVE TypeOK'
    <2>1. /\ idle' \in [Ends -> 0..TimeoutTicks] /\ Taken(e) \in [Ends -> Seq(Packets)]
          /\ Head(chan[Peer(e)]) \in Packets
        BY <1>8, ReceivingType, SizesAssumption DEF RecvCloseOpen
    <2>2. Control("close", recvSeq[e]) \in Packets
        BY PacketType DEF TypeOK
    <2>3. Put(Taken(e), e, Control("close", recvSeq[e])) \in [Ends -> Seq(Packets)]
        BY <2>1, <2>2, PutFacts
    <2>4. chan' \in [Ends -> Seq(Packets)] /\ rx' \in [Ends -> Packets]
        <3>1. \/ /\ chan' = Put(Taken(e), e, Control("close", recvSeq[e]))
                 /\ rx' = [rx EXCEPT ![e] = Head(chan[Peer(e)])]
              \/ chan' = Taken(e) /\ rx' = rx
            BY <1>8 DEF RecvCloseOpen
        <3>2. rx \in [Ends -> Packets]
            BY DEF TypeOK
        <3> QED
            BY <2>1, <2>3, <3>1, <3>2
    <2>5. failed' \in 0..MaxFail
        <3> failed' = failed \/ (failed < MaxFail /\ failed' = failed + 1)
            BY <1>8 DEF RecvCloseOpen
        <3> QED
            BY FailedType
    <2>6. running' \in [Ends -> Tasks \cup {"none"}]
        BY <1>8, SendType DEF RecvCloseOpen, TypeOK, Tasks, FlushTasks
    <2> QED
        BY <1>8, <2>1, <2>2, <2>3, <2>4, <2>5, <2>6 DEF RecvCloseOpen, TypeOK, sendVars, recvVars, appVars, lifeVars, timeVars, netVars
<1>9. ASSUME NEW e \in Ends, RecvCloseFinish(e) PROVE TypeOK'
    <2>1. /\ timer' \in [Ends -> {"running", "stopped", "dead"}]
          /\ flushing' \in [Ends -> [FlushTasks -> Nat]]
          /\ state' \in [Ends -> {"OPEN", "CLOSING", "CLOSED"}]
          /\ lostCalls' \in [Ends -> Nat]
        BY <1>9, PeerClosedType DEF RecvCloseFinish
    <2>2. rx' \in [Ends -> Packets]
        BY <1>9, PacketType DEF RecvCloseFinish, TypeOK
    <2>3. running' \in [Ends -> Tasks \cup {"none"}]
        BY <1>9 DEF RecvCloseFinish, TypeOK
    <2> QED
        BY <1>9, <2>1, <2>2, <2>3 DEF RecvCloseFinish, TypeOK, sendVars, recvVars, appVars, lifeVars, timeVars, netVars
<1>10. ASSUME NEW e \in Ends, FlushEndDeliver(e) PROVE TypeOK'
    <2>1. /\ recvSeq' \in [Ends -> Nat] /\ delivered' \in [Ends -> Seq(Nat)]
          /\ chan' \in [Ends -> Seq(Packets)] /\ failed' \in 0..MaxFail
        BY <1>10, HandleSequenceType DEF FlushEndDeliver, TypeOK
    <2>2. flushing' \in [Ends -> [FlushTasks -> Nat]]
        BY <1>10 DEF FlushEndDeliver, TypeOK
    <2>3. rx' \in [Ends -> Packets]
        BY <1>10, PacketType DEF FlushEndDeliver, TypeOK
    <2>4. running' \in [Ends -> Tasks \cup {"none"}]
        BY <1>10 DEF FlushEndDeliver, TypeOK
    <2> QED
        BY <1>10, <2>1, <2>2, <2>3, <2>4 DEF FlushEndDeliver, TypeOK, sendVars, recvVars, appVars, lifeVars, timeVars, netVars
<1>11. ASSUME NEW e \in Ends, CloseStart(e) PROVE TypeOK'
    <2>1. ready' \in [Ends -> Seq([kind : {"send", "close"}, from : Nat, to : Nat])]
        BY <1>11 DEF CloseStart, TypeOK
    <2>2. closeTask' \in [Ends -> {"none", "proceed", "waiting", "sent", "done"}]
        BY <1>11 DEF CloseStart, TypeOK
    <2>3. state' \in [Ends -> {"OPEN", "CLOSING", "CLOSED"}]
        <3>1. state' = state \/ state' = [state EXCEPT ![e] = "CLOSING"]
            BY <1>11 DEF CloseStart
        <3> QED
            BY <3>1 DEF TypeOK
    <2>4. running' \in [Ends -> Tasks \cup {"none"}]
        BY <1>11 DEF CloseStart, TypeOK, Tasks
    <2> QED
        BY <1>11, <2>1, <2>2, <2>3, <2>4 DEF CloseStart, TypeOK, sendVars, recvVars, appVars, lifeVars, timeVars, netVars
<1>12. ASSUME NEW e \in Ends, CloseSend(e) PROVE TypeOK'
    <2>1. /\ timer' \in [Ends -> {"running", "stopped", "dead"}]
          /\ flushing' \in [Ends -> [FlushTasks -> Nat]]
        BY <1>12, PeerClosedType DEF CloseSend
    <2>2. Put(chan, e, Control("close", recvSeq[e])) \in [Ends -> Seq(Packets)]
        BY PacketType, PutFacts DEF TypeOK
    <2>3. chan' \in [Ends -> Seq(Packets)]
        BY <1>12, <2>2 DEF CloseSend, TypeOK
    <2>4. failed' \in 0..MaxFail
        <3> failed' = failed \/ (failed < MaxFail /\ failed' = failed + 1)
            BY <1>12 DEF CloseSend
        <3> QED
            BY FailedType
    <2>5. closeTask' \in [Ends -> {"none", "proceed", "waiting", "sent", "done"}]
        BY <1>12 DEF CloseSend, TypeOK
    <2>6. running' \in [Ends -> Tasks \cup {"none"}]
        BY <1>12, SendType DEF CloseSend, TypeOK, Tasks
    <2> QED
        BY <1>12, <2>1, <2>2, <2>3, <2>4, <2>5, <2>6 DEF CloseSend, TypeOK, sendVars, recvVars, appVars, lifeVars, timeVars, netVars
<1>13. ASSUME NEW e \in Ends, CloseFinish(e) PROVE TypeOK'
    <2>1. closeTask' \in [Ends -> {"none", "proceed", "waiting", "sent", "done"}]
        BY <1>13 DEF CloseFinish, TypeOK
    <2>2. state' \in [Ends -> {"OPEN", "CLOSING", "CLOSED"}]
        BY <1>13 DEF CloseFinish, TypeOK
    <2>3. running' \in [Ends -> Tasks \cup {"none"}]
        BY <1>13 DEF CloseFinish, TypeOK
    <2> QED
        BY <1>13, <2>1, <2>2, <2>3 DEF CloseFinish, TypeOK, sendVars, recvVars, appVars, lifeVars, timeVars, netVars
<1>14. ASSUME NEW e \in Ends, TickTimeout(e) PROVE TypeOK'
    <2>1. ticked' \in SUBSET Ends
        BY <1>14 DEF TickTimeout, Ticks, TypeOK
    <2>2. timer' \in [Ends -> {"running", "stopped", "dead"}]
        BY <1>14, PeerClosedType DEF TickTimeout
    <2>3. state' \in [Ends -> {"OPEN", "CLOSING", "CLOSED"}]
        BY <1>14 DEF TickTimeout, TypeOK
    <2>4. lostCalls' \in [Ends -> Nat]
        BY SMTT(30), <1>14 DEF TickTimeout, TypeOK
    <2> QED
        BY <1>14, <2>1, <2>2, <2>3, <2>4 DEF TickTimeout, TypeOK, sendVars, recvVars, appVars, lifeVars, timeVars, netVars
<1>15. ASSUME NEW e \in Ends, TickRetransmit(e) PROVE TypeOK'
    <2>1. ticked' \in SUBSET Ends
        BY <1>15 DEF TickRetransmit, Ticks, TypeOK
    <2>2. idle' \in [Ends -> 0..TimeoutTicks]
        <3>1. idle' = [idle EXCEPT ![e] = @ + 1] /\ idle[e] < TimeoutTicks
            BY <1>15 DEF TickRetransmit
        <3>2. idle \in [Ends -> 0..TimeoutTicks]
            BY DEF TypeOK
        <3> QED
            BY <3>1, <3>2, SizesAssumption DEF SizesAssumption
    <2>3. nextSeq' \in [Ends -> Nat]
        BY <1>15 DEF TickRetransmit, Rewind, TypeOK
    <2>4. flushing' \in [Ends -> [FlushTasks -> Nat]]
        BY <1>15 DEF TickRetransmit, TypeOK
    <2>5. running' \in [Ends -> Tasks \cup {"none"}]
        BY <1>15 DEF TickRetransmit, TypeOK, Tasks, FlushTasks
    <2> QED
        BY <1>15, <2>1, <2>2, <2>3, <2>4, <2>5 DEF TickRetransmit, TypeOK, sendVars, recvVars, appVars, lifeVars, timeVars, netVars
<1>16. ASSUME NEW e \in Ends, TickProbe(e) PROVE TypeOK'
    <2>1. ticked' \in SUBSET Ends
        BY <1>16 DEF TickProbe, Ticks, TypeOK
    <2>2. idle' \in [Ends -> 0..TimeoutTicks]
        BY SMTT(30), <1>16, SizesAssumption DEF TickProbe, TypeOK, SizesAssumption
    <2>3. Put(chan, e, Control("ack", recvSeq[e])) \in [Ends -> Seq(Packets)]
        BY PacketType, PutFacts DEF TypeOK
    <2>4. chan' \in [Ends -> Seq(Packets)]
        BY <1>16, <2>3 DEF TickProbe, TypeOK
    <2>5. failed' \in 0..MaxFail
        <3> failed' = failed \/ (failed < MaxFail /\ failed' = failed + 1)
            BY <1>16 DEF TickProbe
        <3> QED
            BY FailedType
    <2>6. timer' \in [Ends -> {"running", "stopped", "dead"}]
        BY <1>16 DEF TickProbe, TypeOK
    <2> QED
        BY <1>16, <2>1, <2>2, <2>3, <2>4, <2>5, <2>6 DEF TickProbe, TypeOK, sendVars, recvVars, appVars, lifeVars, timeVars, netVars
<1>17. ASSUME NEW e \in Ends, TickClosing(e) PROVE TypeOK'
    <2>1. ticked' \in SUBSET Ends
        BY <1>17 DEF TickClosing, Ticks, TypeOK
    <2>2. idle' \in [Ends -> 0..TimeoutTicks]
        BY SMTT(30), <1>17, SizesAssumption DEF TickClosing, TypeOK, SizesAssumption
    <2> QED
        BY <1>17, <2>1, <2>2 DEF TickClosing, TypeOK, sendVars, recvVars, appVars, lifeVars, timeVars, netVars
<1>18. ASSUME NEW e \in Ends, Lose(e) PROVE TypeOK'
    <2>1. PICK i \in 1..Len(chan[e]) :
            chan' = [chan EXCEPT ![e] = SubSeq(@, 1, i - 1) \o SubSeq(@, i + 1, Len(@))]
        BY <1>18 DEF Lose
    <2>2. chan[e] \in Seq(Packets)
        BY DEF TypeOK
    <2>3. SubSeq(chan[e], 1, i - 1) \in Seq(Packets) /\ SubSeq(chan[e], i + 1, Len(chan[e])) \in Seq(Packets)
        BY <2>2
    <2>4. chan' \in [Ends -> Seq(Packets)]
        BY SMTT(30), <2>1, <2>3 DEF TypeOK
    <2>5. lost' \in 0..MaxLost
        BY <1>18, BoundsAssumption DEF Lose, TypeOK, BoundsAssumption
    <2> QED
        BY <1>18, <2>1, <2>2, <2>3, <2>4, <2>5 DEF Lose, TypeOK, sendVars, recvVars, appVars, lifeVars, timeVars, netVars
<1>19. ASSUME NEW e \in Ends, NEW t \in FlushTasks, FlushSend(e, t) PROVE TypeOK'
    <2>1. /\ Chunk(e) \in Seq(Nat) /\ ChunkSeq(e) \in Nat
          /\ nextSeq[e] + Len(Chunk(e)) \in Nat
        BY <1>19, ChunkType, SizesAssumption DEF FlushSend
    <2>2. DataPacket(ChunkSeq(e), recvSeq[e], Chunk(e)) \in Packets
        BY <2>1, PacketType DEF TypeOK
    <2>3. chan' \in [Ends -> Seq(Packets)]
        BY <1>19, <2>2, PutFacts DEF FlushSend, TypeOK
    <2>4. nextSeq' \in [Ends -> Nat]
        BY <1>19, <2>1 DEF FlushSend, TypeOK
    <2>5. running' \in [Ends -> Tasks \cup {"none"}]
        BY <1>19, SendType DEF FlushSend, Tasks
    <2> QED
        BY <1>19, <2>1, <2>2, <2>3, <2>4, <2>5 DEF FlushSend, TypeOK, sendVars, recvVars, appVars, lifeVars, timeVars, netVars
<1>20. ASSUME NEW e \in Ends, NEW t \in FlushTasks, FlushRaise(e, t) PROVE TypeOK'
    <2>1. nextSeq[e] + Len(Chunk(e)) \in Nat
        BY <1>20, ChunkType, SizesAssumption DEF FlushRaise
    <2>2. nextSeq' \in [Ends -> Nat]
        BY <1>20, <2>1 DEF FlushRaise, TypeOK
    <2>3. flushing' \in [Ends -> [FlushTasks -> Nat]]
        BY SMTT(30), <1>20 DEF FlushRaise, TypeOK
    <2>4. rx' \in [Ends -> Packets]
        BY <1>20, PacketType DEF FlushRaise, TypeOK
    <2>5. timer' \in [Ends -> {"running", "stopped", "dead"}]
        BY <1>20 DEF FlushRaise, TypeOK
    <2>6. failed' \in 0..MaxFail
        <3> failed' = failed \/ (failed < MaxFail /\ failed' = failed + 1)
            BY <1>20 DEF FlushRaise
        <3> QED
            BY FailedType
    <2>7. running' \in [Ends -> Tasks \cup {"none"}]
        BY <1>20 DEF FlushRaise, TypeOK
    <2> QED
        BY <1>20, <2>1, <2>2, <2>3, <2>4, <2>5, <2>6, <2>7 DEF FlushRaise, TypeOK, sendVars, recvVars, appVars, lifeVars, timeVars, netVars
<1>21. ASSUME NEW e \in Ends, NEW t \in FlushTasks, FlushEnd(e, t) PROVE TypeOK'
    <2>1. flushing' \in [Ends -> [FlushTasks -> Nat]]
        BY SMTT(30), <1>21 DEF FlushEnd, TypeOK
    <2>2. rx' \in [Ends -> Packets]
        BY <1>21, PacketType DEF FlushEnd, TypeOK
    <2>3. running' \in [Ends -> Tasks \cup {"none"}]
        BY <1>21 DEF FlushEnd, TypeOK
    <2> QED
        BY <1>21, <2>1, <2>2, <2>3 DEF FlushEnd, TypeOK, sendVars, recvVars, appVars, lifeVars, timeVars, netVars
<1>22. ASSUME NextInterval PROVE TypeOK'
    <2>1. ticked' \in SUBSET Ends
        BY <1>22 DEF NextInterval
    <2>2. \A e \in Ends : Lesser(waited[e] + 1, TimeoutTicks) \in 0..TimeoutTicks
        BY SMTT(30), SizesAssumption DEF TypeOK, SizesAssumption, Lesser
    <2>3. waited' \in [Ends -> 0..TimeoutTicks]
        BY <1>22, <2>2 DEF NextInterval, TypeOK
    <2> QED
        BY <1>22, <2>1, <2>2, <2>3 DEF NextInterval, TypeOK, sendVars, recvVars, appVars, lifeVars, timeVars, netVars
<1>23. ASSUME UNCHANGED vars PROVE TypeOK'
    BY <1>23 DEF vars, TypeOK, sendVars, recvVars, appVars, lifeVars, timeVars, netVars
<1> QED
    BY <1>1, <1>2, <1>3, <1>4, <1>5, <1>6, <1>7, <1>8, <1>9, <1>10, <1>11, <1>12, <1>13, <1>14, <1>15, <1>16, <1>17, <1>18, <1>19, <1>20, <1>21, <1>22, <1>23
       DEF Next, Program, Receive, CloseStep, TimerTick, FlushStep

LEMMA TypeInit == Init => TypeOK
<1>1. <<>> \in Seq(Nat) /\ <<>> \in Seq(Packets)
      /\ <<>> \in Seq([kind : {"send", "close"}, from : Nat, to : Nat])
    OBVIOUS
<1> QED
    BY <1>1, PacketType, SizesAssumption, BoundsAssumption
       DEF Init, TypeOK, SizesAssumption, BoundsAssumption

(* The types of ADSPStream hold in every behaviour: sequence numbers and   *)
(* the transport's count never go below zero, clocks stay within limits.   *)
THEOREM TypeCorrect == Spec => []TypeOK
<1>1. Init => TypeOK
    BY TypeInit
<1>2. TypeOK /\ [Next]_vars => TypeOK'
    BY TypeStep
<1> QED
    BY <1>1, <1>2, PTL DEF Spec

===============================================================================

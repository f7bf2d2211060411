--------------------------- MODULE ADSPStreamProofs ---------------------------
(* ADSPStream implements ByteStream, for every value of its constants; the *)
(* transport's count is exact; and, where no send suspends or raises, the  *)
(* peer's window is respected and a connection nobody closes stays open.   *)
EXTENDS ADSPStreamTypeProofs

-------------------------------------------------------------------------------
(* Packets in flight.                                                      *)

(* PacketSound in the next state, for a packet of this one. *)
SoundNext(e, p) ==
    /\ p.ack <= recvSeq'[e]
    /\ p.kind = "data" =>
        \/ p.seq < unacked'[e]
        \/ /\ \A i \in 1..Len(p.data) : p.data[i] = p.seq + i
           /\ p.seq + Len(p.data) <= unacked'[e] + Len(buf'[e])

(* Packets stay sound when what is sound stays so and what is new is.      *)
LEMMA InFlightStep ==
    ASSUME TypeOK, InFlightSound,
           \A d \in Ends : \A p \in Packets : PacketSound(d, p) => SoundNext(d, p),
           \A d \in Ends : \A i \in 1..Len(chan'[d]) :
                \/ SoundNext(d, chan'[d][i])
                \/ \E j \in 1..Len(chan[d]) : chan'[d][i] = chan[d][j],
           \A d \in Ends : SoundNext(Peer(d), rx'[d]) \/ rx'[d] = rx[d]
    PROVE  InFlightSound'
<1>1. ASSUME NEW d \in Ends, NEW i \in 1..Len(chan'[d])
      PROVE  SoundNext(d, chan'[d][i])
    <2>1. ASSUME NEW j \in 1..Len(chan[d]), chan'[d][i] = chan[d][j]
          PROVE  SoundNext(d, chan'[d][i])
        <3>1. chan[d] \in Seq(Packets)
            BY DEF TypeOK
        <3>2. chan[d][j] \in Packets /\ PacketSound(d, chan[d][j])
            BY <3>1 DEF InFlightSound
        <3> QED
            BY <2>1, <3>2
    <2> QED
        BY <2>1
<1>2. ASSUME NEW d \in Ends PROVE SoundNext(d, rx'[Peer(d)])
    <2>1. Peer(d) \in Ends /\ Peer(Peer(d)) = d
        BY PeerFacts
    <2>2. rx[Peer(d)] \in Packets /\ PacketSound(d, rx[Peer(d)])
        BY <2>1 DEF InFlightSound, TypeOK
    <2> QED
        BY <2>1, <2>2
<1> QED
    BY <1>1, <1>2 DEF InFlightSound, PacketSound, SoundNext

(* A step that moves, drops or adds sound packets and otherwise only ends  *)
(* things keeps the invariant.                                             *)
LEMMA QuietStep ==
    ASSUME TypeOK, StreamInv,
           UNCHANGED <<buf, unacked, recvSeq, delivered, written, ready>>,
           \A d \in Ends : state'[d] = "OPEN" => state[d] = "OPEN",
           \A d \in Ends : lostCalls'[d] = 0 => lostCalls[d] = 0,
           \A d \in Ends : \A i \in 1..Len(chan'[d]) :
                \/ PacketSound(d, chan'[d][i])
                \/ \E j \in 1..Len(chan[d]) : chan'[d][i] = chan[d][j],
           \A d \in Ends : PacketSound(Peer(d), rx'[d]) \/ rx'[d] = rx[d]
    PROVE  StreamInv'
<1>1. \A d, p : PacketSound(d, p) <=> SoundNext(d, p)
    BY DEF PacketSound, SoundNext
<1>2. InFlightSound'
    BY <1>1, InFlightStep DEF StreamInv
<1>3. AckSound' /\ BufferSound' /\ BufferWritten'
    BY DEF StreamInv, AckSound, BufferSound, BufferWritten
<1>4. ReadySound'
    BY DEF StreamInv, ReadySound
<1>5. DeliveredSound'
    BY DEF StreamInv, DeliveredSound
<1> QED
    BY <1>2, <1>3, <1>4, <1>5 DEF StreamInv

(* NoPacket and a control packet that acknowledges what was received are   *)
(* sound; so are the packets in flight.                                    *)
LEMMA SoundPackets ==
    ASSUME TypeOK, StreamInv, NEW e \in Ends
    PROVE  /\ PacketSound(e, NoPacket)
           /\ \A kind \in {"ack", "close"} : PacketSound(e, Control(kind, recvSeq[e]))
           /\ \A i \in 1..Len(chan[e]) : PacketSound(e, chan[e][i])
           /\ PacketSound(e, rx[Peer(e)])
<1>1. recvSeq[e] \in Nat
    BY DEF TypeOK
<1>2. \A i \in 1..Len(chan[e]) : PacketSound(e, chan[e][i])
    BY DEF StreamInv, InFlightSound
<1>3. PacketSound(e, rx[Peer(e)])
    BY DEF StreamInv, InFlightSound
<1> QED
    BY <1>1, <1>2, <1>3 DEF PacketSound, NoPacket, Control

(* The chunk that _flush_send_buffer sends is sound, also when an          *)
(* acknowledgement has overtaken send_next_seq and the slice's indices are *)
(* negative.                                                               *)
LEMMA ChunkSound ==
    ASSUME TypeOK, StreamInv, NEW e \in Ends, ~FlushStops(e)
    PROVE  PacketSound(e, DataPacket(ChunkSeq(e), recvSeq[e], Chunk(e)))
<1> DEFINE p == DataPacket(ChunkSeq(e), recvSeq[e], Chunk(e))
<1>1. /\ nextSeq[e] \in Nat /\ unacked[e] \in Nat /\ buf[e] \in Seq(Nat)
      /\ Len(buf[e]) \in Nat /\ recvSeq[e] \in Nat
    BY DEF TypeOK
<1>2. /\ InFlight(e) \in Int /\ ChunkSize(e) \in Nat \ {0}
      /\ ChunkSize(e) <= Remaining(e) /\ ChunkSeq(e) = nextSeq[e]
    BY ChunkType, SizesAssumption
<1>3. /\ p.kind = "data" /\ p.seq = nextSeq[e] /\ p.ack = recvSeq[e]
      /\ p.data = Chunk(e)
    BY <1>2 DEF DataPacket
<1>4. CASE nextSeq[e] < unacked[e]
    BY <1>1, <1>3, <1>4 DEF PacketSound
<1>5. CASE nextSeq[e] >= unacked[e]
    <2> DEFINE lo == nextSeq[e] - unacked[e]
               hi == lo + ChunkSize(e)
    <2>1. lo \in Nat /\ hi \in Nat /\ lo < hi /\ hi <= Len(buf[e])
        BY SMTT(30), <1>1, <1>2, <1>5 DEF Remaining
    <2>2. SliceIndex(buf[e], lo) = lo /\ SliceIndex(buf[e], hi) = hi
        BY <1>1, <2>1 DEF SliceIndex, Lesser
    <2>3. Chunk(e) = SubSeq(buf[e], lo + 1, hi)
        BY <2>2 DEF Chunk, PySlice, InFlight
    <2>4. \A i \in 1..Len(buf[e]) : buf[e][i] = unacked[e] + i
        BY DEF StreamInv, BufferSound
    <2> HIDE DEF lo, hi
    <2>5. Len(Chunk(e)) = hi - lo
        BY <1>1, <2>1, <2>3
    <2>6. ASSUME NEW i \in 1..Len(Chunk(e)) PROVE Chunk(e)[i] = unacked[e] + lo + i
        <3>1. i + lo \in 1..Len(buf[e])
            BY <2>1, <2>5
        <3>2. /\ lo + 1 \in Nat /\ lo + 1 + i - 1 = i + lo
              /\ i \in 1..(hi - (lo + 1) + 1)
            BY <2>1, <2>5
        <3>3. SubSeq(buf[e], lo + 1, hi)[i] = buf[e][lo + 1 + i - 1]
            <4>1. lo + 1 \in Int /\ hi \in Int
                BY <2>1
            <4>2. \A k \in (lo + 1)..hi : buf[e][k] \in Nat
                BY <1>1, <2>1
            <4> QED
                BY <3>2, <4>1, <4>2, SubSeqProperties
        <3>4. Chunk(e)[i] = buf[e][i + lo]
            BY <2>3, <3>2, <3>3
        <3> QED
            BY SMTT(30), <1>1, <2>1, <2>4, <3>1, <3>4
    <2>7. unacked[e] + lo = nextSeq[e]
        BY <1>1 DEF lo
    <2>8. nextSeq[e] + Len(Chunk(e)) <= unacked[e] + Len(buf[e])
        BY <1>1, <2>1, <2>5, <2>7
    <2>9. \A i \in 1..Len(Chunk(e)) : Chunk(e)[i] = nextSeq[e] + i
        BY <1>1, <2>1, <2>6, <2>7
    <2> HIDE DEF p
    <2>10. PacketSound(e, p)
        BY <1>1, <1>3, <2>8, <2>9 DEF PacketSound
    <2> QED
        BY <2>10 DEF p
<1> QED
    BY <1>1, <1>4, <1>5

(* Bytes(from, to) is the segment of the stream after byte from.           *)
LEMMA BytesFacts ==
    ASSUME NEW from \in Nat, NEW to \in Nat, from <= to
    PROVE  /\ Bytes(from, to) \in Seq(Nat) /\ Len(Bytes(from, to)) = to - from
           /\ \A i \in 1..Len(Bytes(from, to)) : Bytes(from, to)[i] = from + i
<1>1. to - from \in Nat /\ \A i \in 1..(to - from) : from + i \in Nat
    OBVIOUS
<1>2. Bytes(from, to) = [i \in 1..(to - from) |-> from + i]
    BY DEF Bytes
<1>3. Bytes(from, to) \in Seq(Nat)
    BY BytesType
<1>4. Len(Bytes(from, to)) = to - from
    BY <1>1, <1>2
<1> QED
    BY <1>2, <1>3, <1>4

(* The elements of a concatenation. *)
LEMMA ConcatFacts ==
    ASSUME NEW S, NEW a \in Seq(S), NEW b \in Seq(S)
    PROVE  /\ a \o b \in Seq(S) /\ Len(a \o b) = Len(a) + Len(b)
           /\ \A i \in 1..Len(a) : (a \o b)[i] = a[i]
           /\ \A i \in 1..Len(a \o b) : i > Len(a) =>
                i - Len(a) \in 1..Len(b) /\ (a \o b)[i] = b[i - Len(a)]
<1>1. Len(a) \in Nat /\ Len(b) \in Nat /\ Len(a \o b) = Len(a) + Len(b)
    OBVIOUS
<1>2. \A i \in 1..(Len(a) + Len(b)) :
        (a \o b)[i] = IF i <= Len(a) THEN a[i] ELSE b[i - Len(a)]
    OBVIOUS
<1>3. ASSUME NEW i \in 1..Len(a) PROVE (a \o b)[i] = a[i]
    BY <1>1, <1>2
<1>4. ASSUME NEW i \in 1..Len(a \o b), i > Len(a)
      PROVE  i - Len(a) \in 1..Len(b) /\ (a \o b)[i] = b[i - Len(a)]
    BY <1>1, <1>2, <1>4
<1> QED
    BY <1>1, <1>3, <1>4

(* A sequence without its i-th element has no element of its own.          *)
LEMMA RemoveFacts ==
    ASSUME NEW S, NEW q \in Seq(S), NEW i \in 1..Len(q),
           NEW k \in 1..Len(SubSeq(q, 1, i - 1) \o SubSeq(q, i + 1, Len(q)))
    PROVE  \E j \in 1..Len(q) :
            (SubSeq(q, 1, i - 1) \o SubSeq(q, i + 1, Len(q)))[k] = q[j]
<1> DEFINE a == SubSeq(q, 1, i - 1)
           b == SubSeq(q, i + 1, Len(q))
<1>1. i \in Nat /\ Len(q) \in Nat /\ 1 <= i /\ i <= Len(q)
    OBVIOUS
<1>2. a \in Seq(S) /\ Len(a) = i - 1 /\ \A m \in 1..(i - 1) : a[m] = q[m]
    BY <1>1
<1>3. b \in Seq(S) /\ Len(b) = Len(q) - i
    BY <1>1
<1>4. \A m \in 1..(Len(q) - i) : b[m] = q[i + m]
    <2>1. \A m \in 1..(Len(q) - i) : b[m] = q[(i + 1) + m - 1]
        BY <1>1
    <2>2. \A m \in 1..(Len(q) - i) : (i + 1) + m - 1 = i + m
        BY <1>1
    <2> QED
        BY <2>1, <2>2
<1>5. k \in 1..Len(a \o b)
    OBVIOUS
<1> HIDE DEF a, b
<1>6. /\ Len(a \o b) = Len(a) + Len(b)
      /\ k \in 1..Len(a) => (a \o b)[k] = a[k]
      /\ k - Len(a) \in 1..Len(b) => (a \o b)[k] = b[k - Len(a)]
    BY SMTT(30), <1>2, <1>3, <1>5
<1>7. k \in 1..(Len(q) - 1)
    BY <1>1, <1>2, <1>3, <1>6, <1>5
<1>8. CASE k < i
    <2>1. k \in 1..Len(a) /\ k \in 1..(i - 1) /\ k \in 1..Len(q)
        BY <1>1, <1>2, <1>7, <1>8
    <2>2. (a \o b)[k] = q[k]
        BY <1>2, <1>6, <2>1
    <2> QED
        BY <2>1, <2>2 DEF a, b
<1>9. CASE k >= i
    <2> DEFINE m == k - Len(a)
    <2>1. m \in 1..Len(b) /\ m \in 1..(Len(q) - i) /\ i + m \in 1..Len(q)
        BY <1>1, <1>2, <1>3, <1>7, <1>9
    <2>2. (a \o b)[k] = q[i + m]
        BY <1>4, <1>6, <2>1
    <2> QED
        BY <2>1, <2>2 DEF a, b
<1> QED
    BY <1>1, <1>7, <1>8, <1>9

(* Channels that hold only packets that were in flight before.             *)
Carried(c) ==
    /\ c \in [Ends -> Seq(Packets)]
    /\ \A d \in Ends : \A i \in 1..Len(c[d]) :
        \E j \in 1..Len(chan[d]) : c[d][i] = chan[d][j]

(* Channels that also hold new packets, which are sound.                   *)
CarriedOrSound(c) ==
    \A d \in Ends : \A i \in 1..Len(c[d]) :
        \/ PacketSound(d, c[d][i])
        \/ \E j \in 1..Len(chan[d]) : c[d][i] = chan[d][j]

LEMMA CarriedFacts ==
    ASSUME TypeOK, StreamInv, NEW e \in Ends
    PROVE  /\ Carried(chan)
           /\ chan[Peer(e)] # <<>> =>
                /\ Carried(Taken(e))
                /\ Head(chan[Peer(e)]) \in Packets
                /\ PacketSound(Peer(e), Head(chan[Peer(e)]))
           /\ \A c : Carried(c) =>
                /\ CarriedOrSound(c)
                /\ \A p \in Packets : PacketSound(e, p) => CarriedOrSound(Put(c, e, p))
<1>1. chan \in [Ends -> Seq(Packets)]
    BY DEF TypeOK
<1>2. Carried(chan)
    BY <1>1 DEF Carried
<1>3. ASSUME chan[Peer(e)] # <<>>
      PROVE  /\ Carried(Taken(e)) /\ Head(chan[Peer(e)]) \in Packets
             /\ PacketSound(Peer(e), Head(chan[Peer(e)]))
    BY <1>1, <1>3, TakenFacts, SoundPackets, PeerFacts DEF Carried
<1>4. ASSUME NEW c, Carried(c) PROVE CarriedOrSound(c)
    BY <1>4 DEF Carried, CarriedOrSound
<1>5. ASSUME NEW c, Carried(c), NEW p \in Packets, PacketSound(e, p)
      PROVE  CarriedOrSound(Put(c, e, p))
    <2>1. \A d \in Ends : \A i \in 1..Len(Put(c, e, p)[d]) :
            \/ d = e /\ Put(c, e, p)[d][i] = p
            \/ \E j \in 1..Len(c[d]) : Put(c, e, p)[d][i] = c[d][j]
        BY <1>5, PutFacts DEF Carried
    <2> DEFINE c2 == Put(c, e, p)
    <2>2. ASSUME NEW d \in Ends, NEW i \in 1..Len(c2[d])
          PROVE  \/ PacketSound(d, c2[d][i])
                 \/ \E j \in 1..Len(chan[d]) : c2[d][i] = chan[d][j]
        <3>1. CASE d = e /\ c2[d][i] = p
            BY <1>5, <3>1
        <3>2. CASE \E j \in 1..Len(c[d]) : c2[d][i] = c[d][j]
            BY <1>5, <3>2 DEF Carried
        <3> QED
            BY <2>1, <3>1, <3>2
    <2> QED
        BY <2>2 DEF CarriedOrSound
<1> QED
    BY <1>2, <1>3, <1>4, <1>5

-------------------------------------------------------------------------------
(* One step of each action.                                                *)

(* The actions that leave the stream's own variables alone. *)
LEMMA QuietActions ==
    ASSUME TypeOK, StreamInv, NEW e \in Ends,
           \/ RecvIgnored(e) \/ RecvCloseClosing(e) \/ RecvCloseOpen(e)
           \/ RecvCloseFinish(e) \/ CloseSend(e) \/ CloseFinish(e) \/ TickTimeout(e)
           \/ TickRetransmit(e) \/ TickProbe(e) \/ TickClosing(e) \/ Lose(e)
           \/ \E t \in FlushTasks : FlushStep(e, t)
           \/ NextInterval \/ UNCHANGED vars
    PROVE  StreamInv'
<1> DEFINE Kept ==
            /\ UNCHANGED <<buf, unacked, recvSeq, delivered, written, ready>>
            /\ \A d \in Ends : state'[d] = "OPEN" => state[d] = "OPEN"
            /\ \A d \in Ends : lostCalls'[d] = 0 => lostCalls[d] = 0
            /\ CarriedOrSound(chan')
            /\ \A d \in Ends : PacketSound(Peer(d), rx'[d]) \/ rx'[d] = rx[d]
<1>1. /\ state \in [Ends -> {"OPEN", "CLOSING", "CLOSED"}]
      /\ lostCalls \in [Ends -> Nat] /\ rx \in [Ends -> Packets]
      /\ Control("ack", recvSeq[e]) \in Packets /\ Control("close", recvSeq[e]) \in Packets
    BY PacketType DEF TypeOK
<1>2. /\ PacketSound(Peer(e), NoPacket)
      /\ PacketSound(e, Control("ack", recvSeq[e]))
      /\ PacketSound(e, Control("close", recvSeq[e]))
    BY SoundPackets, PeerFacts
<1>3. /\ CarriedOrSound(chan)
      /\ CarriedOrSound(Put(chan, e, Control("ack", recvSeq[e])))
      /\ CarriedOrSound(Put(chan, e, Control("close", recvSeq[e])))
    BY <1>1, <1>2, CarriedFacts
<1>4. chan[Peer(e)] # <<>> =>
        /\ CarriedOrSound(Taken(e))
        /\ CarriedOrSound(Put(Taken(e), e, Control("close", recvSeq[e])))
        /\ PacketSound(Peer(e), Head(chan[Peer(e)]))
    BY <1>1, <1>2, CarriedFacts
<1>5. ASSUME RecvIgnored(e) PROVE Kept
    BY <1>4, <1>5 DEF RecvIgnored, Receiving, sendVars, recvVars, appVars, lifeVars
<1>6. ASSUME RecvCloseClosing(e) PROVE Kept
    BY <1>1, <1>4, <1>6 DEF RecvCloseClosing, Receiving, PeerClosed, recvVars, appVars
<1>7. ASSUME RecvCloseOpen(e) PROVE Kept
    BY <1>1, <1>4, <1>7 DEF RecvCloseOpen, Receiving, sendVars, appVars, lifeVars
<1>8. ASSUME RecvCloseFinish(e) PROVE Kept
    BY <1>1, <1>2, <1>3, <1>8 DEF RecvCloseFinish, PeerClosed, appVars, netVars
<1>9. ASSUME CloseSend(e) PROVE Kept
    BY <1>3, <1>9 DEF CloseSend, recvVars, appVars
<1>10. ASSUME CloseFinish(e) PROVE Kept
    BY <1>1, <1>3, <1>10 DEF CloseFinish, sendVars, recvVars, appVars, netVars
<1>11. ASSUME TickTimeout(e) PROVE Kept
    BY <1>1, <1>3, <1>11 DEF TickTimeout, sendVars, recvVars, appVars, netVars
<1>12. ASSUME TickRetransmit(e) PROVE Kept
    BY <1>3, <1>12 DEF TickRetransmit, recvVars, appVars, lifeVars, netVars
<1>13. ASSUME TickProbe(e) PROVE Kept
    BY <1>3, <1>13 DEF TickProbe, sendVars, recvVars, appVars, lifeVars
<1>14. ASSUME TickClosing(e) PROVE Kept
    BY <1>3, <1>14 DEF TickClosing, sendVars, recvVars, appVars, lifeVars, netVars
<1>15. ASSUME Lose(e) PROVE Kept
    <2>1. PICK i \in 1..Len(chan[e]) : chan' =
            [chan EXCEPT ![e] = SubSeq(@, 1, i - 1) \o SubSeq(@, i + 1, Len(@))]
        BY <1>15 DEF Lose
    <2>2. chan \in [Ends -> Seq(Packets)] /\ chan[e] \in Seq(Packets)
        BY DEF TypeOK
    <2> DEFINE q == SubSeq(chan[e], 1, i - 1) \o SubSeq(chan[e], i + 1, Len(chan[e]))
    <2>3. \A k \in 1..Len(q) : \E j \in 1..Len(chan[e]) : q[k] = chan[e][j]
        BY <2>2, RemoveFacts
    <2>4. chan' = [chan EXCEPT ![e] = q]
        BY <2>1
    <2> HIDE DEF q
    <2>5. CarriedOrSound(chan')
        BY <2>2, <2>3, <2>4 DEF CarriedOrSound
    <2> QED
        BY <1>15, <2>5 DEF Lose, sendVars, recvVars, appVars, lifeVars
<1>16. ASSUME NEW t \in FlushTasks, FlushSend(e, t) PROVE Kept
    <2> DEFINE p == DataPacket(ChunkSeq(e), recvSeq[e], Chunk(e))
    <2>1. p \in Packets
        BY <1>16, ChunkType, SizesAssumption, PacketType DEF FlushSend, TypeOK
    <2>2. PacketSound(e, p)
        BY <1>16, ChunkSound DEF FlushSend
    <2> HIDE DEF p
    <2>3. CarriedOrSound(Put(chan, e, p))
        BY <2>1, <2>2, CarriedFacts
    <2>4. chan' = Put(chan, e, p)
        BY <1>16 DEF FlushSend, p
    <2> QED
        BY <1>16, <2>3, <2>4 DEF FlushSend, recvVars, appVars, lifeVars
<1>17. ASSUME NEW t \in FlushTasks, FlushRaise(e, t) PROVE Kept
    BY <1>1, <1>2, <1>3, <1>17 DEF FlushRaise, appVars, lifeVars
<1>18. ASSUME NEW t \in FlushTasks, FlushEnd(e, t) PROVE Kept
    BY <1>1, <1>2, <1>3, <1>18 DEF FlushEnd, appVars, lifeVars, netVars
<1>19. ASSUME NextInterval \/ UNCHANGED vars PROVE Kept
    BY <1>3, <1>19 DEF NextInterval, vars, sendVars, recvVars, appVars, lifeVars, netVars
<1>20. Kept
    BY <1>5, <1>6, <1>7, <1>8, <1>9, <1>10, <1>11, <1>12, <1>13, <1>14, <1>15, <1>16,
       <1>17, <1>18, <1>19 DEF FlushStep
<1> QED
    BY <1>20, QuietStep DEF CarriedOrSound

TaskRecords == [kind : {"send", "close"}, from : Nat, to : Nat]

(* A task that starts where the written bytes end continues the chain.     *)
LEMMA ChainedAppend ==
    ASSUME NEW q \in Seq(TaskRecords), NEW end \in Nat, NEW last \in Nat,
           NEW task \in TaskRecords, Chained(q, end, last),
           task.from = last, last <= task.to
    PROVE  Chained(Append(q, task), end, task.to)
<1> DEFINE r == Append(q, task)
<1>1. /\ r # <<>> /\ Len(r) = Len(q) + 1 /\ r[Len(q) + 1] = task
      /\ \A i \in 1..Len(q) : r[i] = q[i]
      /\ Len(q) \in Nat
    OBVIOUS
<1>2. task.to \in Nat /\ \A i \in 1..Len(q) : q[i].to \in Nat
    <2>1. \A i \in 1..Len(q) : q[i] \in TaskRecords
        OBVIOUS
    <2> QED
        BY <2>1 DEF TaskRecords
<1> HIDE DEF r
<1>3. r[1].from = end
    <2>1. CASE q = <<>>
        BY <1>1, <2>1 DEF Chained
    <2>2. CASE q # <<>>
        <3>1. 1 \in 1..Len(q)
            BY <2>2
        <3> QED
            BY <1>1, <2>2, <3>1 DEF Chained
    <2> QED
        BY <2>1, <2>2
<1>4. r[Len(r)].to = task.to
    BY <1>1
<1>5. ASSUME NEW i \in 1..Len(r) PROVE r[i].from <= r[i].to /\ r[i].to <= task.to
    <2>1. CASE i = Len(q) + 1
        BY <1>1, <1>2, <2>1
    <2>2. CASE i # Len(q) + 1
        <3>1. i \in 1..Len(q) /\ r[i] = q[i]
            BY <1>1, <2>2
        <3>2. q[i].from <= q[i].to /\ q[i].to <= last
            BY <3>1 DEF Chained
        <3> QED
            BY <1>2, <3>1, <3>2
    <2> QED
        BY <2>1, <2>2
<1>6. ASSUME NEW i \in 1..(Len(r) - 1) PROVE r[i + 1].from = r[i].to
    <2>1. i \in 1..Len(q) /\ r[i] = q[i]
        BY <1>1
    <2>2. CASE i = Len(q)
        <3>1. q # <<>> /\ r[i + 1] = task /\ q[i].to = last
            BY <1>1, <2>1, <2>2 DEF Chained
        <3> QED
            BY <2>1, <3>1
    <2>3. CASE i # Len(q)
        <3>1. i \in 1..(Len(q) - 1) /\ i + 1 \in 1..Len(q)
            BY <1>1, <2>1, <2>3
        <3> QED
            BY <1>1, <2>1, <3>1 DEF Chained
    <2> QED
        BY <2>2, <2>3
<1>7. Chained(r, end, task.to)
    BY <1>1, <1>3, <1>4, <1>5, <1>6 DEF Chained
<1> QED
    BY <1>7 DEF r

(* Starting the first task moves the end of the buffer to where it ends.   *)
LEMMA ChainedTail ==
    ASSUME NEW q \in Seq(TaskRecords), NEW end \in Nat, NEW last \in Nat,
           Chained(q, end, last), q # <<>>
    PROVE  /\ Head(q).from = end /\ end <= Head(q).to /\ Head(q).to <= last
           /\ Chained(Tail(q), Head(q).to, last)
<1> DEFINE r == Tail(q)
<1>1. /\ Head(q) = q[1] /\ 1 \in 1..Len(q) /\ Len(q) \in Nat
      /\ Len(r) = Len(q) - 1
      /\ \A i \in 1..Len(r) : i + 1 \in 1..Len(q) /\ r[i] = q[i + 1]
    OBVIOUS
<1>2. r = <<>> <=> Len(q) = 1
    BY <1>1
<1> HIDE DEF r
<1>3. Head(q).from = end /\ end <= Head(q).to /\ Head(q).to <= last
    BY <1>1 DEF Chained
<1>4. r = <<>> => Head(q).to = last
    BY <1>1, <1>2 DEF Chained
<1>5. ASSUME r # <<>> PROVE r[1].from = Head(q).to /\ r[Len(r)].to = last
    <2>1. 1 \in 1..Len(r) /\ 1 \in 1..(Len(q) - 1) /\ Len(r) \in 1..Len(r)
        BY <1>1, <1>2, <1>5
    <2>2. r[1] = q[1 + 1] /\ r[Len(r)] = q[Len(q)]
        BY <1>1, <2>1
    <2> QED
        BY <1>1, <2>1, <2>2 DEF Chained
<1>6. \A i \in 1..Len(r) : r[i].from <= r[i].to /\ r[i].to <= last
    BY <1>1 DEF Chained
<1>7. ASSUME NEW i \in 1..(Len(r) - 1) PROVE r[i + 1].from = r[i].to
    <2>1. i \in 1..Len(r) /\ i + 1 \in 1..Len(r) /\ i + 1 \in 1..(Len(q) - 1)
        BY <1>1
    <2>2. r[i] = q[i + 1] /\ r[i + 1] = q[(i + 1) + 1]
        BY <1>1, <2>1
    <2> QED
        BY <2>1, <2>2 DEF Chained
<1>8. Chained(r, Head(q).to, last)
    BY <1>4, <1>5, <1>6, <1>7 DEF Chained
<1> QED
    BY <1>3, <1>8 DEF r

(* The types of the stream's own variables. *)
LEMMA StreamTypes ==
    ASSUME TypeOK
    PROVE  /\ written \in [Ends -> Nat] /\ ready \in [Ends -> Seq(TaskRecords)]
           /\ unacked \in [Ends -> Nat] /\ recvSeq \in [Ends -> Nat]
           /\ buf \in [Ends -> Seq(Nat)] /\ delivered \in [Ends -> Seq(Nat)]
           /\ lostCalls \in [Ends -> Nat] /\ rx \in [Ends -> Packets]
           /\ \A d \in Ends : unacked[d] + Len(buf[d]) \in Nat
<1>1. /\ written \in [Ends -> Nat] /\ ready \in [Ends -> Seq(TaskRecords)]
      /\ unacked \in [Ends -> Nat] /\ recvSeq \in [Ends -> Nat]
      /\ buf \in [Ends -> Seq(Nat)] /\ delivered \in [Ends -> Seq(Nat)]
      /\ lostCalls \in [Ends -> Nat] /\ rx \in [Ends -> Packets]
    BY DEF TypeOK, TaskRecords
<1>2. \A d \in Ends : unacked[d] \in Nat /\ Len(buf[d]) \in Nat
    BY <1>1
<1> QED
    BY <1>1, <1>2

(* What the stream's invariant says of the next state, in the parts that   *)
(* the actions below disturb.                                              *)
LEMMA StreamInvNext ==
    ASSUME AckSound', InFlightSound', BufferSound', BufferWritten', ReadySound',
           DeliveredSound'
    PROVE  StreamInv'
    BY DEF StreamInv

(* write() and close() append a task that starts where the written bytes   *)
(* end.                                                                    *)
LEMMA ProgramStep ==
    ASSUME TypeOK, StreamInv, NEW e \in Ends, Program(e)
    PROVE  StreamInv'
<1>1. /\ written \in [Ends -> Nat] /\ ready \in [Ends -> Seq(TaskRecords)]
      /\ unacked \in [Ends -> Nat] /\ buf \in [Ends -> Seq(Nat)]
      /\ lostCalls \in [Ends -> Nat]
      /\ \A d \in Ends : unacked[d] + Len(buf[d]) \in Nat
    BY StreamTypes
<1>2. PICK task \in TaskRecords :
        /\ task.from = written[e] /\ written[e] <= task.to
        /\ written' = [written EXCEPT ![e] = task.to]
        /\ ready' = [ready EXCEPT ![e] = Append(ready[e], task)]
    <2>1. CASE Write(e)
        <3>1. PICK n \in 1..Lesser(MaxWrite, WriteLimit[e] - written[e]) :
                /\ written' = [written EXCEPT ![e] = @ + n]
                /\ ready' = [ready EXCEPT ![e] =
                                Append(@, SendTask(written[e], written[e] + n))]
            BY <2>1 DEF Write
        <3>2. Lesser(MaxWrite, WriteLimit[e] - written[e]) \in Int
            BY <1>1, LesserFacts, BoundsAssumption DEF BoundsAssumption
        <3>3. n \in Nat
            BY <3>2
        <3> DEFINE task == SendTask(written[e], written[e] + n)
        <3>4. /\ task \in TaskRecords /\ task.from = written[e]
              /\ task.to = written[e] + n /\ written[e] <= task.to
            BY <1>1, <3>3 DEF TaskRecords, SendTask
        <3> QED
            BY <3>1, <3>4
    <2>2. CASE Close(e)
        <3> DEFINE task == CloseTask(written[e])
        <3>1. /\ task \in TaskRecords /\ task.from = written[e]
              /\ task.to = written[e] /\ written[e] <= task.to
            BY <1>1 DEF TaskRecords, CloseTask
        <3>2. /\ written' = [written EXCEPT ![e] = task.to]
              /\ ready' = [ready EXCEPT ![e] = Append(ready[e], task)]
            BY <1>1, <2>2, <3>1 DEF Close
        <3> QED
            BY <3>1, <3>2
    <2> QED
        BY <2>1, <2>2 DEF Program
<1>3. /\ UNCHANGED <<buf, unacked, recvSeq, delivered, rx, chan, state>>
      /\ \A d \in Ends : lostCalls'[d] = 0 => lostCalls[d] = 0
    BY SMTT(30), <1>1 DEF Program, Write, Close, sendVars, recvVars, lifeVars, netVars
<1>4. AckSound' /\ BufferSound' /\ DeliveredSound' /\ InFlightSound'
    BY SMTT(30), <1>3 DEF StreamInv, AckSound, BufferSound, DeliveredSound, InFlightSound,
       PacketSound
<1>5. task.to \in Nat
    BY DEF TaskRecords
<1>6. BufferWritten'
    BY SMTT(30), <1>1, <1>2, <1>3, <1>5 DEF StreamInv, BufferWritten
<1>7. ASSUME NEW d \in Ends, state'[d] = "OPEN"
      PROVE  Chained(ready'[d], unacked'[d] + Len(buf'[d]), written'[d])
    <2>1. Chained(ready[d], unacked[d] + Len(buf[d]), written[d])
        BY <1>3, <1>7 DEF StreamInv, ReadySound
    <2>2. CASE d = e
        <3>1. Chained(Append(ready[e], task), unacked[e] + Len(buf[e]), task.to)
            BY <1>1, <1>2, <2>1, <2>2, ChainedAppend
        <3> QED
            BY <1>1, <1>2, <1>3, <2>2, <3>1
    <2>3. CASE d # e
        BY <1>1, <1>2, <1>3, <2>1, <2>3
    <2> QED
        BY <2>2, <2>3
<1>8. ReadySound'
    BY <1>7 DEF ReadySound
<1> QED
    BY <1>4, <1>6, <1>8, StreamInvNext

(* A task starts: send_data moves its bytes to the send buffer, or drops   *)
(* them outside OPEN; close_connection leaves OPEN.                        *)
LEMMA StartStep ==
    ASSUME TypeOK, StreamInv, NEW e \in Ends, SendDataStart(e) \/ CloseStart(e)
    PROVE  StreamInv'
<1>1. /\ written \in [Ends -> Nat] /\ ready \in [Ends -> Seq(TaskRecords)]
      /\ unacked \in [Ends -> Nat] /\ buf \in [Ends -> Seq(Nat)]
      /\ recvSeq \in [Ends -> Nat] /\ state \in [Ends -> {"OPEN", "CLOSING", "CLOSED"}]
      /\ \A d \in Ends : unacked[d] + Len(buf[d]) \in Nat
    BY StreamTypes DEF TypeOK
<1>2. /\ UNCHANGED <<unacked, recvSeq, delivered, written, rx, chan, lostCalls>>
      /\ ready[e] # <<>> /\ ready' = [ready EXCEPT ![e] = Tail(ready[e])]
      /\ \/ /\ state[e] = "OPEN" /\ state' = state
            /\ buf' = [buf EXCEPT ![e] =
                        @ \o Bytes(Head(ready[e]).from, Head(ready[e]).to)]
         \/ /\ state'[e] # "OPEN" /\ buf' = buf
            /\ \A d \in Ends : state'[d] = "OPEN" => state[d] = "OPEN"
    BY <1>1 DEF SendDataStart, CloseStart, MaySend, sendVars, recvVars, lifeVars,
       timeVars, netVars
<1>3. CASE buf' = buf /\ state'[e] # "OPEN"
    <2> UNCHANGED <<buf, unacked, recvSeq, delivered, written, rx, chan, lostCalls>>
        BY <1>2, <1>3
    <2>1. /\ AckSound' /\ BufferSound' /\ BufferWritten' /\ DeliveredSound'
          /\ InFlightSound'
        BY SMTT(30) DEF StreamInv, AckSound, BufferSound, BufferWritten, DeliveredSound,
           InFlightSound, PacketSound
    <2>2. ASSUME NEW d \in Ends, state'[d] = "OPEN"
          PROVE  Chained(ready'[d], unacked'[d] + Len(buf'[d]), written'[d])
        <3>1. d # e /\ state[d] = "OPEN"
            BY <1>2, <1>3, <2>2
        <3>2. Chained(ready[d], unacked[d] + Len(buf[d]), written[d])
            BY <3>1 DEF StreamInv, ReadySound
        <3> QED
            BY <1>1, <1>2, <1>3, <3>1, <3>2
    <2> QED
        BY <2>1, <2>2, StreamInvNext DEF ReadySound
<1>4. CASE ~(buf' = buf /\ state'[e] # "OPEN")
    <2> DEFINE task == Head(ready[e])
               more == Bytes(task.from, task.to)
               end == unacked[e] + Len(buf[e])
    <2>1. /\ state[e] = "OPEN" /\ state' = state
          /\ buf' = [buf EXCEPT ![e] = buf[e] \o more]
        BY <1>1, <1>2, <1>4
    <2>2. Chained(ready[e], end, written[e])
        BY <2>1 DEF StreamInv, ReadySound
    <2>3. /\ task \in TaskRecords /\ task.from = end /\ end <= task.to
          /\ task.to <= written[e] /\ Chained(Tail(ready[e]), task.to, written[e])
        <3>1. ready[e] \in Seq(TaskRecords) /\ end \in Nat /\ written[e] \in Nat
            BY <1>1
        <3> QED
            BY <1>2, <2>2, <3>1, ChainedTail, HeadTailProperties
    <2>4. task.from \in Nat /\ task.to \in Nat /\ task.from <= task.to
        BY <2>3 DEF TaskRecords
    <2>5. /\ more \in Seq(Nat) /\ Len(more) = task.to - task.from
          /\ \A i \in 1..Len(more) : more[i] = task.from + i
        BY <2>4, BytesFacts
    <2> HIDE DEF task, more, end
    <2>6. buf[e] \in Seq(Nat) /\ Len(buf[e]) \in Nat /\ unacked[e] \in Nat
        BY <1>1
    <2> DEFINE all == buf[e] \o more
    <2>7. /\ Len(all) = Len(buf[e]) + Len(more) /\ all \in Seq(Nat)
          /\ \A i \in 1..Len(buf[e]) : all[i] = buf[e][i]
          /\ \A i \in 1..Len(all) : i > Len(buf[e]) =>
                i - Len(buf[e]) \in 1..Len(more) /\ all[i] = more[i - Len(buf[e])]
        <3>1. more \in Seq(Nat) /\ buf[e] \in Seq(Nat)
            BY <2>5, <2>6
        <3> HIDE <2>5, <2>6
        <3> QED
            BY <3>1, ConcatFacts
    <2>8. buf' = [buf EXCEPT ![e] = all]
        BY <2>1
    <2> HIDE DEF all
    <2>9. unacked[e] + Len(all) = task.to
        <3>1. task.from = unacked[e] + Len(buf[e])
            BY <2>3 DEF end
        <3>2. Len(all) = Len(buf[e]) + (task.to - task.from)
            BY <2>5, <2>7
        <3> QED
            BY <2>4, <2>6, <3>1, <3>2
    <2>10. \A i \in 1..Len(all) : all[i] = unacked[e] + i
        <3>1. ASSUME NEW i \in 1..Len(all) PROVE all[i] = unacked[e] + i
            <4>1. CASE i <= Len(buf[e])
                <5>1. i \in 1..Len(buf[e])
                    BY <2>6, <4>1
                <5> QED
                    BY <2>7, <5>1 DEF StreamInv, BufferSound
            <4>2. CASE i > Len(buf[e])
                <5>1. all[i] = task.from + (i - Len(buf[e]))
                    BY <2>5, <2>7, <4>2
                <5> QED
                    BY <2>3, <2>6, <5>1 DEF end
            <4> QED
                BY <2>6, <4>1, <4>2
        <3> QED
            BY <3>1
    <2>11. BufferSound'
        BY <1>1, <1>2, <2>8, <2>10 DEF StreamInv, BufferSound
    <2>12. BufferWritten'
        BY <1>1, <1>2, <2>3, <2>8, <2>9 DEF StreamInv, BufferWritten
    <2>13. \A d \in Ends : unacked[d] + Len(buf[d]) <= unacked'[d] + Len(buf'[d])
        <3>1. ASSUME NEW d \in Ends
              PROVE  unacked[d] + Len(buf[d]) <= unacked'[d] + Len(buf'[d])
            <4>1. CASE d = e
                <5>1. unacked'[e] = unacked[e] /\ buf'[e] = all
                    BY <1>1, <1>2, <2>8
                <5>2. unacked[e] + Len(buf[e]) <= task.to
                    BY <2>3 DEF end
                <5> QED
                    BY <2>9, <4>1, <5>1, <5>2
            <4>2. CASE d # e
                <5>1. unacked'[d] = unacked[d] /\ buf'[d] = buf[d]
                    BY <1>1, <1>2, <2>8, <4>2
                <5>2. unacked[d] + Len(buf[d]) \in Nat
                    BY <1>1
                <5> QED
                    BY <5>1, <5>2
            <4> QED
                BY <4>1, <4>2
        <3> QED
            BY <3>1
    <2>14. \A d \in Ends : unacked'[d] + Len(buf'[d]) \in Nat
        BY <1>1, <1>2, <2>4, <2>8, <2>9
    <2>15. AckSound'
        <3>1. ASSUME NEW d \in Ends
              PROVE  /\ unacked'[d] <= recvSeq'[Peer(d)]
                     /\ recvSeq'[Peer(d)] <= unacked'[d] + Len(buf'[d])
            <4>1. /\ unacked[d] <= recvSeq[Peer(d)]
                  /\ recvSeq[Peer(d)] <= unacked[d] + Len(buf[d])
                BY DEF StreamInv, AckSound
            <4>2. recvSeq[Peer(d)] \in Nat
                BY <1>1, PeerFacts
            <4>3. /\ unacked[d] + Len(buf[d]) \in Nat
                  /\ unacked'[d] + Len(buf'[d]) \in Nat
                  /\ unacked[d] + Len(buf[d]) <= unacked'[d] + Len(buf'[d])
                BY <1>1, <2>13, <2>14
            <4>4. recvSeq'[Peer(d)] = recvSeq[Peer(d)] /\ unacked'[d] = unacked[d]
                BY <1>2
            <4>5. recvSeq[Peer(d)] <= unacked'[d] + Len(buf'[d])
                BY <4>1, <4>2, <4>3
            <4> QED
                BY <4>1, <4>4, <4>5
        <3> QED
            BY <3>1 DEF AckSound
    <2>16. InFlightSound'
        <3>1. ASSUME NEW d \in Ends, NEW p \in Packets, PacketSound(d, p)
              PROVE  SoundNext(d, p)
            <4>1. p.seq \in Nat /\ Len(p.data) \in Nat
                BY DEF Packets
            <4>2. /\ unacked[d] + Len(buf[d]) \in Nat
                  /\ unacked'[d] + Len(buf'[d]) \in Nat
                  /\ unacked[d] + Len(buf[d]) <= unacked'[d] + Len(buf'[d])
                BY <1>1, <2>13, <2>14
            <4>3. p.seq + Len(p.data) <= unacked[d] + Len(buf[d])
                    => p.seq + Len(p.data) <= unacked'[d] + Len(buf'[d])
                BY <4>1, <4>2
            <4>4. recvSeq'[d] = recvSeq[d] /\ unacked'[d] = unacked[d]
                BY <1>2
            <4> QED
                BY <3>1, <4>3, <4>4 DEF PacketSound, SoundNext
        <3> QED
            BY <1>2, <3>1, InFlightStep DEF StreamInv
    <2>17. DeliveredSound'
        BY <1>2 DEF StreamInv, DeliveredSound
    <2>18. ReadySound'
        <3>1. ASSUME NEW d \in Ends, state'[d] = "OPEN"
              PROVE  Chained(ready'[d], unacked'[d] + Len(buf'[d]), written'[d])
            <4>1. CASE d = e
                BY <1>1, <1>2, <2>3, <2>8, <2>9, <4>1
            <4>2. CASE d # e
                BY <1>1, <1>2, <2>1, <2>8, <3>1, <4>2 DEF StreamInv, ReadySound
            <4> QED
                BY <4>1, <4>2
        <3> QED
            BY <3>1 DEF ReadySound
    <2> QED
        BY <2>11, <2>12, <2>15, <2>16, <2>17, <2>18, StreamInvNext
<1> QED
    BY <1>3, <1>4

(* An acknowledgement takes the bytes it acknowledges off the front of the *)
(* buffer; the end of the buffer stays where it is.                        *)
LEMMA NewAckStep ==
    ASSUME TypeOK, StreamInv, NEW e \in Ends, RecvNewAck(e)
    PROVE  StreamInv'
<1> DEFINE p == Head(chan[Peer(e)])
           acked == p.ack - unacked[e]
           rest == SubSeq(buf[e], acked + 1, Len(buf[e]))
<1>1. /\ written \in [Ends -> Nat] /\ unacked \in [Ends -> Nat]
      /\ buf \in [Ends -> Seq(Nat)] /\ recvSeq \in [Ends -> Nat]
      /\ rx \in [Ends -> Packets]
      /\ \A d \in Ends : unacked[d] + Len(buf[d]) \in Nat
    BY StreamTypes
<1>2. /\ UNCHANGED <<recvSeq, delivered, written, ready, state, lostCalls>>
      /\ p.ack > unacked[e] /\ chan[Peer(e)] # <<>> /\ chan' = Taken(e)
      /\ unacked' = [unacked EXCEPT ![e] = p.ack]
      /\ buf' = [buf EXCEPT ![e] = rest]
      /\ rx' = [rx EXCEPT ![e] = p]
    BY DEF RecvNewAck, Receiving, TakeAck, AckedBytes, lifeVars
<1>3. p \in Packets /\ PacketSound(Peer(e), p) /\ Carried(Taken(e))
    BY <1>2, CarriedFacts
<1>4. Peer(e) \in Ends /\ Peer(e) # e
    BY PeerFacts
<1>5. /\ p.ack \in Nat /\ p.ack <= recvSeq[Peer(e)]
      /\ recvSeq[Peer(e)] <= unacked[e] + Len(buf[e])
    BY <1>3 DEF Packets, PacketSound, StreamInv, AckSound
<1> HIDE DEF p
<1>6. /\ acked \in Nat /\ acked <= Len(buf[e]) /\ buf[e] \in Seq(Nat)
      /\ unacked[e] \in Nat /\ Len(buf[e]) \in Nat /\ p.ack = unacked[e] + acked
    <2>1. recvSeq[Peer(e)] \in Nat /\ buf[e] \in Seq(Nat) /\ unacked[e] \in Nat
        BY <1>1, <1>4
    <2>2. Len(buf[e]) \in Nat
        BY <2>1
    <2> QED
        BY SMTT(30), <1>2, <1>5, <2>1, <2>2
<1> HIDE DEF acked
<1>7. /\ rest \in Seq(Nat) /\ Len(rest) = Len(buf[e]) - acked
      /\ \A i \in 1..(Len(buf[e]) - acked) : rest[i] = buf[e][acked + 1 + i - 1]
    BY <1>6
<1> HIDE DEF rest
<1>8. \A i \in 1..Len(rest) : rest[i] = p.ack + i
    <2>1. ASSUME NEW i \in 1..Len(rest) PROVE rest[i] = p.ack + i
        <3>1. /\ i \in 1..(Len(buf[e]) - acked) /\ acked + 1 + i - 1 = acked + i
              /\ acked + i \in 1..Len(buf[e])
            BY <1>6, <1>7
        <3>2. buf[e][acked + i] = unacked[e] + (acked + i)
            BY <3>1 DEF StreamInv, BufferSound
        <3> QED
            BY SMTT(30), <1>6, <1>7, <3>1, <3>2
    <2> QED
        BY <2>1
<1>9. p.ack + Len(rest) = unacked[e] + Len(buf[e])
    BY <1>6, <1>7
<1>10. \A d \in Ends :
        /\ unacked'[d] + Len(buf'[d]) = unacked[d] + Len(buf[d])
        /\ unacked'[d] \in Nat /\ unacked[d] <= unacked'[d]
    <2>1. ASSUME NEW d \in Ends
          PROVE  /\ unacked'[d] + Len(buf'[d]) = unacked[d] + Len(buf[d])
                 /\ unacked'[d] \in Nat /\ unacked[d] <= unacked'[d]
        <3>1. CASE d = e
            BY <1>1, <1>2, <1>5, <1>6, <1>9, <3>1
        <3>2. CASE d # e
            <4>1. unacked'[d] = unacked[d] /\ buf'[d] = buf[d] /\ unacked[d] \in Nat
                BY <1>1, <1>2, <3>2
            <4> QED
                BY <4>1
        <3> QED
            BY <3>1, <3>2
    <2> QED
        BY <2>1
<1>11. AckSound'
    <2>1. ASSUME NEW d \in Ends
          PROVE  /\ unacked'[d] <= recvSeq'[Peer(d)]
                 /\ recvSeq'[Peer(d)] <= unacked'[d] + Len(buf'[d])
        <3>1. /\ unacked[d] <= recvSeq[Peer(d)]
              /\ recvSeq[Peer(d)] <= unacked[d] + Len(buf[d])
            BY DEF StreamInv, AckSound
        <3>2. unacked'[d] <= recvSeq[Peer(d)]
            BY <1>1, <1>2, <1>5, <3>1
        <3> QED
            BY <1>2, <1>10, <3>1, <3>2
    <2> QED
        BY <2>1 DEF AckSound
<1>12. BufferSound'
    BY <1>1, <1>2, <1>8 DEF StreamInv, BufferSound
<1>13. BufferWritten'
    BY <1>2, <1>10 DEF StreamInv, BufferWritten
<1>14. ReadySound'
    BY <1>2, <1>10 DEF StreamInv, ReadySound
<1>15. DeliveredSound'
    BY <1>2 DEF StreamInv, DeliveredSound
<1>16. InFlightSound'
    <2>1. ASSUME NEW d \in Ends, NEW q \in Packets, PacketSound(d, q)
          PROVE  SoundNext(d, q)
        <3>1. q.seq \in Nat /\ unacked[d] \in Nat
            BY <1>1 DEF Packets
        <3>2. q.seq < unacked[d] => q.seq < unacked'[d]
            BY <1>10, <3>1
        <3> QED
            BY <1>2, <1>10, <2>1, <3>2 DEF PacketSound, SoundNext
    <2>2. \A d \in Ends : \A i \in 1..Len(chan'[d]) :
            \E j \in 1..Len(chan[d]) : chan'[d][i] = chan[d][j]
        BY <1>2, <1>3 DEF Carried
    <2>3. SoundNext(Peer(e), p)
        BY <1>3, <1>4, <2>1
    <2>4. \A d \in Ends : SoundNext(Peer(d), rx'[d]) \/ rx'[d] = rx[d]
        BY <1>1, <1>2, <2>3
    <2> QED
        BY <2>1, <2>2, <2>4, InFlightStep DEF StreamInv
<1> QED
    BY <1>11, <1>12, <1>13, <1>14, <1>15, <1>16, StreamInvNext

(* In-order data lengthens what was received and, while the protocol       *)
(* reads, what was delivered, by the bytes the sender has in its buffer.   *)
LEMMA SequenceStep ==
    ASSUME TypeOK, StreamInv, NEW e \in Ends, NEW p \in Packets, NEW c,
           p.kind = "data", PacketSound(Peer(e), p), Carried(c),
           HandleSequence(e, p, c),
           UNCHANGED <<buf, unacked, written, ready, state, lostCalls>>,
           \A d \in Ends : rx'[d] = rx[d] \/ rx'[d] = NoPacket
    PROVE  StreamInv'
<1>1. /\ unacked \in [Ends -> Nat] /\ recvSeq \in [Ends -> Nat]
      /\ delivered \in [Ends -> Seq(Nat)] /\ lostCalls \in [Ends -> Nat]
      /\ \A d \in Ends : unacked[d] + Len(buf[d]) \in Nat
    BY StreamTypes
<1>2. Peer(e) \in Ends /\ Peer(e) # e /\ Peer(Peer(e)) = e
    BY PeerFacts
<1>3. \A d \in Ends : PacketSound(d, NoPacket)
    BY SoundPackets
<1>4. CASE ~InSequence(e, p)
    <2>1. UNCHANGED <<recvSeq, delivered>> /\ chan' = c
        BY <1>4 DEF HandleSequence
    <2>2. CarriedOrSound(chan')
        BY <2>1, CarriedFacts
    <2>3. \A d \in Ends : PacketSound(Peer(d), rx'[d]) \/ rx'[d] = rx[d]
        BY <1>3, PeerFacts
    <2> QED
        BY <2>1, <2>2, <2>3, QuietStep DEF CarriedOrSound
<1>5. CASE InSequence(e, p)
    <2> DEFINE a == Control("ack", recvSeq'[e])
    <2>1. /\ p.seq = recvSeq[e] /\ p.data \in Seq(Nat) /\ Len(p.data) \in Nat
          /\ recvSeq' = [recvSeq EXCEPT ![e] = @ + Len(p.data)]
          /\ \/ lostCalls[e] = 0 /\ delivered' = [delivered EXCEPT ![e] = @ \o p.data]
             \/ lostCalls[e] # 0 /\ delivered' = delivered
        BY <1>5 DEF HandleSequence, InSequence, Packets
    <2>2. chan' = c \/ chan' = Put(c, e, a)
        BY <1>5 DEF HandleSequence, LastSend
    <2>3. /\ recvSeq[e] \in Nat /\ unacked[Peer(e)] \in Nat
          /\ unacked[Peer(e)] <= recvSeq[e]
        BY <1>1, <1>2 DEF StreamInv, AckSound
    <2>4. /\ \A i \in 1..Len(p.data) : p.data[i] = recvSeq[e] + i
          /\ recvSeq[e] + Len(p.data) <= unacked[Peer(e)] + Len(buf[Peer(e)])
        BY <2>1, <2>3 DEF PacketSound
    <2>5. /\ recvSeq'[e] = recvSeq[e] + Len(p.data) /\ recvSeq'[e] \in Nat
          /\ \A d \in Ends : recvSeq'[d] \in Nat /\ recvSeq[d] <= recvSeq'[d]
          /\ \A d \in Ends : d # e => recvSeq'[d] = recvSeq[d]
        <3>1. recvSeq \in [Ends -> Nat]
            BY DEF TypeOK
        <3>2. recvSeq' = [recvSeq EXCEPT ![e] = @ + Len(p.data)] /\ Len(p.data) \in Nat
            BY <2>1
        <3> QED
            BY <3>1, <3>2
    <2>6. AckSound'
        <3>1. ASSUME NEW d \in Ends
              PROVE  /\ unacked'[d] <= recvSeq'[Peer(d)]
                     /\ recvSeq'[Peer(d)] <= unacked'[d] + Len(buf'[d])
            <4>1. Peer(d) \in Ends /\ unacked[d] \in Nat /\ recvSeq[Peer(d)] \in Nat
                BY <1>1, PeerFacts
            <4>2. /\ unacked[d] <= recvSeq[Peer(d)]
                  /\ recvSeq[Peer(d)] <= unacked[d] + Len(buf[d])
                BY DEF StreamInv, AckSound
            <4>3. CASE Peer(d) = e
                <5>1. d = Peer(e)
                    BY <4>3, PeerFacts
                <5> QED
                    BY <2>4, <2>5, <4>1, <4>2, <4>3, <5>1
            <4>4. CASE Peer(d) # e
                BY <2>5, <4>1, <4>2, <4>4
            <4> QED
                BY <4>3, <4>4
        <3> QED
            BY <3>1 DEF AckSound
    <2>7. BufferSound' /\ BufferWritten' /\ ReadySound'
        BY DEF StreamInv, BufferSound, BufferWritten, ReadySound
    <2>8. InFlightSound'
        <3>1. ASSUME NEW d \in Ends, NEW q \in Packets, PacketSound(d, q)
              PROVE  SoundNext(d, q)
            <4>1. q.ack \in Nat /\ recvSeq[d] \in Nat /\ q.ack <= recvSeq[d]
                BY <1>1, <3>1 DEF Packets, PacketSound
            <4>2. q.ack <= recvSeq'[d]
                BY <2>5, <4>1
            <4> QED
                BY <3>1, <4>2 DEF PacketSound, SoundNext
        <3>2. a \in Packets /\ SoundNext(e, a)
            <4>1. a \in Packets
                BY <2>5, PacketType
            <4> QED
                BY <2>5, <4>1 DEF SoundNext, Control
        <3> HIDE DEF a
        <3>3. \A d \in Ends : \A i \in 1..Len(c[d]) :
                \E j \in 1..Len(chan[d]) : c[d][i] = chan[d][j]
            BY DEF Carried
        <3>4. \A d \in Ends : \A i \in 1..Len(Put(c, e, a)[d]) :
                \/ d = e /\ Put(c, e, a)[d][i] = a
                \/ \E j \in 1..Len(c[d]) : Put(c, e, a)[d][i] = c[d][j]
            BY <3>2, PutFacts DEF Carried
        <3>5. ASSUME NEW d \in Ends, NEW i \in 1..Len(chan'[d])
              PROVE  \/ SoundNext(d, chan'[d][i])
                     \/ \E j \in 1..Len(chan[d]) : chan'[d][i] = chan[d][j]
            <4>1. CASE chan' = c
                BY <3>3, <4>1
            <4>2. CASE chan' = Put(c, e, a)
                <5>1. CASE d = e /\ chan'[d][i] = a
                    BY <3>2, <5>1
                <5>2. CASE \E j \in 1..Len(c[d]) : chan'[d][i] = c[d][j]
                    BY <3>3, <5>2
                <5> QED
                    BY <3>4, <4>2, <5>1, <5>2
            <4> QED
                BY <2>2, <4>1, <4>2
        <3>6. \A d \in Ends : SoundNext(Peer(d), rx'[d]) \/ rx'[d] = rx[d]
            BY <1>3, <3>1, PacketType, PeerFacts
        <3> QED
            BY <3>1, <3>5, <3>6, InFlightStep DEF StreamInv
    <2>9. DeliveredSound'
        <3>1. ASSUME NEW d \in Ends
              PROVE  /\ \A i \in 1..Len(delivered'[d]) : delivered'[d][i] = i
                     /\ Len(delivered'[d]) <= recvSeq'[d]
                     /\ lostCalls'[d] = 0 => Len(delivered'[d]) = recvSeq'[d]
            <4>1. /\ \A i \in 1..Len(delivered[d]) : delivered[d][i] = i
                  /\ Len(delivered[d]) <= recvSeq[d]
                  /\ lostCalls[d] = 0 => Len(delivered[d]) = recvSeq[d]
                BY DEF StreamInv, DeliveredSound
            <4>2. delivered[d] \in Seq(Nat) /\ Len(delivered[d]) \in Nat
                BY <1>1
            <4>3. CASE d = e /\ lostCalls[e] = 0
                <5> DEFINE all == delivered[e] \o p.data
                <5>1. delivered'[d] = all
                    BY <1>1, <2>1, <4>3
                <5>2. /\ Len(all) = Len(delivered[e]) + Len(p.data)
                      /\ \A i \in 1..Len(delivered[e]) : all[i] = delivered[e][i]
                      /\ \A i \in 1..Len(all) : i > Len(delivered[e]) =>
                            /\ i - Len(delivered[e]) \in 1..Len(p.data)
                            /\ all[i] = p.data[i - Len(delivered[e])]
                    <6>1. delivered[e] \in Seq(Nat) /\ p.data \in Seq(Nat)
                        BY <2>1, <4>2, <4>3
                    <6> DEFINE x == delivered[e]
                               y == p.data
                    <6>2. x \in Seq(Nat) /\ y \in Seq(Nat)
                        BY <6>1
                    <6> HIDE DEF x, y
                    <6>3. /\ x \o y \in Seq(Nat) /\ Len(x \o y) = Len(x) + Len(y)
                          /\ \A i \in 1..Len(x) : (x \o y)[i] = x[i]
                          /\ \A i \in 1..Len(x \o y) : i > Len(x) =>
                               i - Len(x) \in 1..Len(y) /\ (x \o y)[i] = y[i - Len(x)]
                        BY <6>2, ConcatFacts
                    <6> QED
                        BY <6>3 DEF x, y
                <5> HIDE DEF all
                <5>3. Len(delivered[e]) = recvSeq[e] /\ Len(all) = recvSeq'[e]
                    BY <2>5, <4>1, <4>3, <5>2
                <5>4. ASSUME NEW i \in 1..Len(all) PROVE all[i] = i
                    <6>1. CASE i <= Len(delivered[e])
                        <7>1. i \in 1..Len(delivered[e])
                            BY <4>2, <4>3, <6>1
                        <7> QED
                            BY <4>1, <4>3, <5>2, <7>1
                    <6>2. CASE i > Len(delivered[e])
                        <7> DEFINE k == i - Len(delivered[e])
                        <7>1. k \in 1..Len(p.data) /\ all[i] = p.data[k]
                            BY <5>2, <6>2
                        <7>2. p.data[k] = recvSeq[e] + k
                            BY <2>4, <7>1
                        <7>3. k = i - recvSeq[e] /\ i \in Nat
                            BY <5>3
                        <7> QED
                            BY <2>3, <7>1, <7>2, <7>3
                    <6> QED
                        BY <4>2, <4>3, <6>1, <6>2
                <5> QED
                    BY <2>5, <4>3, <5>1, <5>3, <5>4
            <4>4. CASE d # e
                BY <1>1, <2>1, <2>5, <4>1, <4>4
            <4>5. CASE d = e /\ lostCalls[e] # 0
                BY <1>1, <2>1, <2>5, <4>1, <4>2, <4>5
            <4> QED
                BY <4>3, <4>4, <4>5
        <3> QED
            BY <3>1 DEF DeliveredSound
    <2> QED
        BY <2>6, <2>7, <2>8, <2>9, StreamInvNext
<1> QED
    BY <1>4, <1>5

(* The two places that hand a packet to the second half of _process_data.  *)
LEMMA HandlerFacts ==
    ASSUME TypeOK, StreamInv, NEW e \in Ends,
           \/ RecvNoAck(e) /\ Head(chan[Peer(e)]).kind = "data"
           \/ FlushEndDeliver(e)
    PROVE  \E p \in Packets : \E c :
            /\ p.kind = "data" /\ PacketSound(Peer(e), p) /\ Carried(c)
            /\ HandleSequence(e, p, c)
            /\ UNCHANGED <<buf, unacked, written, ready, state, lostCalls>>
            /\ \A d \in Ends : rx'[d] = rx[d] \/ rx'[d] = NoPacket
<1>1. Peer(e) \in Ends /\ Peer(Peer(e)) = e
    BY PeerFacts
<1>2. rx \in [Ends -> Packets]
    BY DEF TypeOK
<1>3. CASE RecvNoAck(e) /\ Head(chan[Peer(e)]).kind = "data"
    <2> DEFINE p == Head(chan[Peer(e)])
    <2>1. p \in Packets /\ PacketSound(Peer(e), p) /\ Carried(Taken(e))
        BY <1>3, CarriedFacts DEF RecvNoAck, Receiving
    <2>2. /\ HandleSequence(e, p, Taken(e)) /\ p.kind = "data"
          /\ UNCHANGED <<buf, unacked, written, ready, state, lostCalls, rx>>
        BY <1>3 DEF RecvNoAck, sendVars, appVars, lifeVars
    <2> QED
        BY <2>1, <2>2
<1>4. CASE FlushEndDeliver(e)
    <2>1. rx[e] \in Packets /\ PacketSound(Peer(e), rx[e]) /\ Carried(chan)
        BY <1>1, <1>2, SoundPackets, CarriedFacts
    <2>2. /\ HandleSequence(e, rx[e], chan) /\ rx[e].kind = "data"
          /\ UNCHANGED <<buf, unacked, written, ready, state, lostCalls>>
          /\ rx' = [rx EXCEPT ![e] = NoPacket]
        BY <1>4 DEF FlushEndDeliver, appVars, lifeVars
    <2>3. \A d \in Ends : rx'[d] = rx[d] \/ rx'[d] = NoPacket
        BY <1>2, <2>2
    <2> QED
        BY <2>1, <2>2, <2>3
<1> QED
    BY <1>3, <1>4

(* A packet that brings neither new data nor a new acknowledgement.        *)
LEMMA PlainAckStep ==
    ASSUME TypeOK, StreamInv, NEW e \in Ends, RecvNoAck(e),
           Head(chan[Peer(e)]).kind # "data"
    PROVE  StreamInv'
<1>1. /\ chan[Peer(e)] # <<>> /\ chan' = Taken(e)
      /\ UNCHANGED <<buf, unacked, recvSeq, delivered, written, ready, state,
                     lostCalls, rx>>
    BY DEF RecvNoAck, Receiving, sendVars, appVars, lifeVars
<1>2. CarriedOrSound(chan')
    BY <1>1, CarriedFacts
<1> QED
    BY <1>1, <1>2, QuietStep DEF CarriedOrSound

LEMMA StreamInit == Init => StreamInv
<1> SUFFICES ASSUME Init PROVE StreamInv
    OBVIOUS
<1>1. TypeOK
    BY TypeInit
<1>2. \A e \in Ends : Peer(e) \in Ends
    BY PeerFacts
<1>3. /\ buf = [e \in Ends |-> <<>>] /\ unacked = [e \in Ends |-> 0]
      /\ recvSeq = [e \in Ends |-> 0] /\ delivered = [e \in Ends |-> <<>>]
      /\ written = [e \in Ends |-> 0] /\ ready = [e \in Ends |-> <<>>]
      /\ rx = [e \in Ends |-> NoPacket] /\ chan = [e \in Ends |-> <<>>]
    BY DEF Init
<1>4. AckSound /\ BufferSound /\ BufferWritten /\ DeliveredSound
    BY <1>2, <1>3 DEF AckSound, BufferSound, BufferWritten, DeliveredSound
<1>5. InFlightSound
    BY <1>2, <1>3 DEF InFlightSound, PacketSound, NoPacket, Control
<1>6. ReadySound
    BY <1>3 DEF ReadySound, Chained
<1> QED
    BY <1>4, <1>5, <1>6 DEF StreamInv

LEMMA StreamStep ==
    ASSUME TypeOK, StreamInv, [Next]_vars
    PROVE  StreamInv'
<1>1. ASSUME NEW e \in Ends, Program(e) PROVE StreamInv'
    BY <1>1, ProgramStep
<1>2. ASSUME NEW e \in Ends, SendDataStart(e) \/ CloseStart(e) PROVE StreamInv'
    BY <1>2, StartStep
<1>3. ASSUME NEW e \in Ends, RecvNewAck(e) PROVE StreamInv'
    BY <1>3, NewAckStep
<1>4. ASSUME NEW e \in Ends, RecvNoAck(e) \/ FlushEndDeliver(e) PROVE StreamInv'
    BY <1>4, HandlerFacts, SequenceStep, PlainAckStep
<1>5. ASSUME NEW e \in Ends,
             \/ RecvIgnored(e) \/ RecvCloseClosing(e) \/ RecvCloseOpen(e)
             \/ RecvCloseFinish(e) \/ CloseSend(e) \/ CloseFinish(e) \/ TimerTick(e)
             \/ Lose(e) \/ \E t \in FlushTasks : FlushStep(e, t)
      PROVE  StreamInv'
    BY <1>5, QuietActions DEF TimerTick
<1>6. ASSUME NextInterval \/ UNCHANGED vars PROVE StreamInv'
    <2>1. "client" \in Ends
        BY DEF Ends
    <2> QED
        BY <1>6, <2>1, QuietActions
<1> QED
    BY <1>1, <1>2, <1>3, <1>4, <1>5, <1>6 DEF Next, Receive, CloseStep

(* Sender's buffer, tasks to run, packets in flight and receiver agree on  *)
(* the stream of each direction: for any window, chunk, water marks, loss, *)
(* failed sends, suspensions and closes.                                   *)
THEOREM StreamSafe == Spec => []StreamInv
<1>1. Init => StreamInv
    BY StreamInit
<1>2. TypeOK /\ StreamInv /\ [Next]_vars => StreamInv'
    BY StreamStep
<1> QED
    BY <1>1, <1>2, TypeCorrect, PTL DEF Spec

(* An acknowledged byte was received, and a received byte was in the       *)
(* sender's buffer unless acknowledged.                                    *)
THEOREM AckSafe == Spec => []AckSound
<1>1. StreamInv => AckSound
    BY DEF StreamInv
<1> QED
    BY <1>1, StreamSafe, PTL

(* Every packet in flight is harmless, however late it arrives.            *)
THEOREM InFlightSafe == Spec => []InFlightSound
<1>1. StreamInv => InFlightSound
    BY DEF StreamInv
<1> QED
    BY <1>1, StreamSafe, PTL

-------------------------------------------------------------------------------
(* Refinement.                                                             *)

(* Delivering a packet's in-order data is a step of ByteStream.            *)
LEMMA DeliverStep ==
    ASSUME TypeOK, StreamInv, NEW e \in Ends, NEW p \in Packets, NEW c,
           p.kind = "data", PacketSound(Peer(e), p), HandleSequence(e, p, c),
           UNCHANGED written
    PROVE  Stream!Deliver(e) \/ UNCHANGED delivered
<1>1. /\ unacked \in [Ends -> Nat] /\ recvSeq \in [Ends -> Nat]
      /\ delivered \in [Ends -> Seq(Nat)] /\ written \in [Ends -> Nat]
      /\ \A d \in Ends : unacked[d] + Len(buf[d]) \in Nat
    BY StreamTypes
<1>2. Peer(e) \in Ends /\ Peer(e) # e /\ Peer(Peer(e)) = e
    BY PeerFacts
<1>3. p.data \in Seq(Nat) /\ Len(p.data) \in Nat
    BY DEF Packets
<1>4. CASE UNCHANGED delivered
    BY <1>4
<1>5. CASE ~UNCHANGED delivered
    <2>1. /\ p.seq = recvSeq[e] /\ lostCalls[e] = 0
          /\ delivered' = [delivered EXCEPT ![e] = delivered[e] \o p.data]
        BY <1>1, <1>5 DEF HandleSequence, InSequence
    <2>2. /\ recvSeq[e] \in Nat /\ unacked[Peer(e)] \in Nat
          /\ unacked[Peer(e)] <= recvSeq[e]
        BY <1>1, <1>2 DEF StreamInv, AckSound
    <2>3. /\ \A i \in 1..Len(p.data) : p.data[i] = recvSeq[e] + i
          /\ recvSeq[e] + Len(p.data) <= unacked[Peer(e)] + Len(buf[Peer(e)])
        BY <2>1, <2>2 DEF PacketSound
    <2>4. unacked[Peer(e)] + Len(buf[Peer(e)]) <= written[Peer(e)]
        BY <1>2 DEF StreamInv, BufferWritten
    <2>5. Len(delivered[e]) = recvSeq[e]
        BY <2>1 DEF StreamInv, DeliveredSound
    <2>6. Len(p.data) <= written[Peer(e)] - Len(delivered[e])
        BY SMTT(30), <1>1, <1>2, <1>3, <2>2, <2>3, <2>4, <2>5
    <2>7. p.data = [i \in 1..Len(p.data) |-> Len(delivered[e]) + i]
        <3>1. p.data = [i \in 1..Len(p.data) |-> p.data[i]]
            BY <1>3
        <3>2. \A i \in 1..Len(p.data) : p.data[i] = Len(delivered[e]) + i
            BY <2>3, <2>5
        <3> QED
            BY <3>1, <3>2
    <2>8. CASE Len(p.data) = 0
        <3>1. p.data = <<>> /\ delivered[e] \o <<>> = delivered[e]
            BY <1>1, <1>3, <2>8
        <3> QED
            BY <1>1, <1>5, <2>1, <3>1
    <2>9. CASE Len(p.data) # 0
        <3> DEFINE n == Len(p.data)
        <3>1. n \in 1..(written[Peer(e)] - Len(delivered[e]))
            <4>1. written[Peer(e)] \in Nat /\ Len(delivered[e]) \in Nat
                BY <1>1, <1>2
            <4> QED
                BY <1>3, <2>6, <2>9, <4>1
        <3>2. delivered' = [delivered EXCEPT ![e] =
                                @ \o [i \in 1..n |-> Len(@) + i]]
            BY <2>1, <2>7
        <3> HIDE DEF n
        <3> QED
            BY <3>1, <3>2 DEF Stream!Deliver
    <2> QED
        BY <2>8, <2>9
<1> QED
    BY <1>4, <1>5

(* Every step is a step of ByteStream or leaves it alone. *)
LEMMA RefinementStep ==
    ASSUME TypeOK, StreamInv, [Next]_vars
    PROVE  [Stream!Next]_(Stream!streamVars)
<1>1. ASSUME NEW e \in Ends, Write(e) PROVE Stream!Accept(e)
    <2>1. PICK n \in 1..Lesser(MaxWrite, WriteLimit[e] - written[e]) :
            written' = [written EXCEPT ![e] = @ + n]
        BY <1>1 DEF Write
    <2>2. /\ Lesser(MaxWrite, WriteLimit[e] - written[e]) \in Int
          /\ written \in [Ends -> Nat] /\ written[e] \in Nat
        <3>1. written \in [Ends -> Nat]
            BY StreamTypes
        <3>2. MaxWrite \in Nat /\ WriteLimit[e] \in Nat
            BY BoundsAssumption DEF BoundsAssumption
        <3>3. written[e] \in Nat /\ WriteLimit[e] - written[e] \in Int
            BY <3>1, <3>2
        <3>4. Lesser(MaxWrite, WriteLimit[e] - written[e]) \in Int
            BY <3>2, <3>3, LesserFacts
        <3> QED
            BY <3>1, <3>3, <3>4
    <2>3. n \in Nat \ {0} /\ written'[e] = written[e] + n
        BY <2>1, <2>2
    <2>4. UNCHANGED delivered
        BY <1>1 DEF Write, recvVars
    <2> QED
        BY <2>1, <2>2, <2>3, <2>4 DEF Stream!Accept
<1>2. ASSUME NEW e \in Ends, RecvNoAck(e) \/ FlushEndDeliver(e)
      PROVE  Stream!Deliver(e) \/ UNCHANGED <<written, delivered>>
    <2>1. CASE \/ RecvNoAck(e) /\ Head(chan[Peer(e)]).kind = "data"
               \/ FlushEndDeliver(e)
        <3>1. UNCHANGED written
            BY <2>1 DEF RecvNoAck, FlushEndDeliver, appVars
        <3> QED
            BY <2>1, <3>1, HandlerFacts, DeliverStep
    <2>2. CASE RecvNoAck(e) /\ Head(chan[Peer(e)]).kind # "data"
        BY <2>2 DEF RecvNoAck, appVars
    <2> QED
        BY <1>2, <2>1, <2>2
<1>3. ASSUME NEW e \in Ends,
             \/ Close(e) \/ SendDataStart(e) \/ RecvIgnored(e) \/ RecvNewAck(e)
             \/ RecvCloseClosing(e) \/ RecvCloseOpen(e) \/ RecvCloseFinish(e)
             \/ CloseStep(e) \/ TimerTick(e) \/ Lose(e)
             \/ \E t \in FlushTasks : FlushStep(e, t)
      PROVE  UNCHANGED <<written, delivered>>
    <2>1. ASSUME \/ Close(e) \/ SendDataStart(e) \/ RecvIgnored(e) \/ RecvNewAck(e)
                 \/ RecvCloseClosing(e) \/ RecvCloseOpen(e) \/ RecvCloseFinish(e)
          PROVE  UNCHANGED <<written, delivered>>
        BY <2>1 DEF Close, SendDataStart, RecvIgnored, RecvNewAck, RecvCloseClosing,
           RecvCloseOpen, RecvCloseFinish, recvVars, appVars
    <2>2. ASSUME CloseStep(e) \/ TimerTick(e) \/ Lose(e)
          PROVE  UNCHANGED <<written, delivered>>
        BY <2>2 DEF CloseStep, CloseStart, CloseSend, CloseFinish, TimerTick,
           TickTimeout, TickRetransmit, TickProbe, TickClosing, Lose, recvVars, appVars
    <2>3. ASSUME NEW t \in FlushTasks, FlushStep(e, t)
          PROVE  UNCHANGED <<written, delivered>>
        BY <2>3 DEF FlushStep, FlushSend, FlushRaise, FlushEnd, recvVars, appVars
    <2> QED
        BY <1>3, <2>1, <2>2, <2>3
<1>4. ASSUME NextInterval \/ UNCHANGED vars PROVE UNCHANGED <<written, delivered>>
    BY <1>4 DEF NextInterval, vars, recvVars, appVars
<1>5. CASE \E e \in Ends : Stream!Accept(e) \/ Stream!Deliver(e)
    BY <1>5 DEF Stream!Next
<1>6. CASE UNCHANGED <<written, delivered>>
    BY <1>6 DEF Stream!streamVars
<1> QED
    BY <1>1, <1>2, <1>3, <1>4, <1>5, <1>6 DEF Next, Program, Receive

(* An ADSP connection implements one reliable byte stream per direction,   *)
(* for every value of the constants.                                       *)
THEOREM StreamRefinement == Spec => StreamSpec
<1>1. Init => Stream!Init
    BY DEF Init, Stream!Init
<1>2. TypeOK /\ StreamInv /\ [Next]_vars => [Stream!Next]_(Stream!streamVars)
    BY RefinementStep
<1> QED
    BY <1>1, <1>2, TypeCorrect, StreamSafe, PTL DEF Spec, StreamSpec, Stream!Spec

-------------------------------------------------------------------------------
(* The transport's count.                                                  *)

(* The inductive invariant behind Accounting: at the high-water mark the   *)
(* program has been asked to pause.                                        *)
AccountingInv == Accounting /\ \A e \in Ends : wbuf[e] >= HighWater => paused[e]

LEMMA AccountingFrame ==
    ASSUME AccountingInv, UNCHANGED <<written, unacked, wbuf, paused>>,
           \A e \in Ends : state'[e] = "OPEN" => state[e] = "OPEN"
    PROVE  AccountingInv'
BY DEF AccountingInv, Accounting

LEMMA AccountingWrite ==
    ASSUME TypeOK, AccountingInv, NEW e \in Ends, Write(e)
    PROVE  AccountingInv'
<1>1. /\ written \in [Ends -> Nat] /\ wbuf \in [Ends -> Nat] /\ unacked \in [Ends -> Nat]
      /\ paused \in [Ends -> BOOLEAN] /\ HighWater \in Nat /\ MaxWrite \in Nat
      /\ WriteLimit[e] \in Nat
    BY SizesAssumption, BoundsAssumption DEF TypeOK
<1>2. PICK n \in 1..Lesser(MaxWrite, WriteLimit[e] - written[e]) :
        /\ written' = [written EXCEPT ![e] = @ + n]
        /\ wbuf' = [wbuf EXCEPT ![e] = @ + n]
        /\ paused' = [paused EXCEPT ![e] = wbuf[e] + n >= HighWater]
    BY DEF Write
<1>3. n \in Nat /\ n <= MaxWrite
    <2>1. MaxWrite \in Int /\ WriteLimit[e] - written[e] \in Int
        BY <1>1
    <2>2. PICK most \in Int :
            most = Lesser(MaxWrite, WriteLimit[e] - written[e]) /\ most <= MaxWrite
        BY <2>1, LesserFacts
    <2>3. n \in 1..most
        BY <2>2
    <2> QED
        BY <2>1, <2>2, <2>3
<1>4. ~paused[e] /\ UNCHANGED <<state, unacked>>
    BY DEF Write, sendVars, lifeVars
<1>5. wbuf[e] < HighWater
    BY <1>1, <1>4 DEF AccountingInv
<1>6. ASSUME NEW d \in Ends
      PROVE  /\ state'[d] = "OPEN" => wbuf'[d] = written'[d] - unacked'[d]
             /\ wbuf'[d] < HighWater + MaxWrite
             /\ wbuf'[d] >= HighWater => paused'[d]
    <2>1. CASE d = e
        <3>1. /\ wbuf'[d] = wbuf[e] + n /\ written'[d] = written[e] + n
              /\ paused'[d] = (wbuf[e] + n >= HighWater)
            BY <1>1, <1>2, <2>1
        <3>2. state[d] = "OPEN" => wbuf[e] = written[e] - unacked[e]
            BY <2>1 DEF AccountingInv, Accounting
        <3>3. wbuf[e] \in Nat /\ written[e] \in Nat /\ unacked[e] \in Nat
            BY <1>1
        <3>4. wbuf'[d] >= HighWater => paused'[d]
            BY <3>1
        <3> QED
            BY <1>1, <1>3, <1>4, <1>5, <2>1, <3>1, <3>2, <3>3, <3>4
    <2>2. CASE d # e
        BY <1>1, <1>2, <1>4, <2>2 DEF AccountingInv, Accounting
    <2> QED
        BY <2>1, <2>2
<1> QED
    BY <1>6 DEF AccountingInv, Accounting

LEMMA AccountingAck ==
    ASSUME TypeOK, StreamInv, AccountingInv, NEW e \in Ends, RecvNewAck(e)
    PROVE  AccountingInv'
<1> DEFINE p == Head(chan[Peer(e)])
           acked == p.ack - unacked[e]
           left == IF wbuf[e] >= acked THEN wbuf[e] - acked ELSE 0
<1>1. /\ written \in [Ends -> Nat] /\ wbuf \in [Ends -> Nat] /\ unacked \in [Ends -> Nat]
      /\ recvSeq \in [Ends -> Nat] /\ buf \in [Ends -> Seq(Nat)]
      /\ paused \in [Ends -> BOOLEAN] /\ HighWater \in Nat /\ MaxWrite \in Nat
      /\ LowWater \in Nat /\ LowWater < HighWater
    BY SizesAssumption, BoundsAssumption DEF TypeOK
<1>2. /\ state[e] = "OPEN" /\ chan[Peer(e)] # <<>> /\ p.ack > unacked[e]
      /\ UNCHANGED <<state, written>>
      /\ unacked' = [unacked EXCEPT ![e] = p.ack]
      /\ wbuf' = [wbuf EXCEPT ![e] = left]
      /\ paused' = [paused EXCEPT ![e] = paused[e] /\ left > LowWater]
    BY DEF RecvNewAck, Receiving, TakeAck, AckedBytes, StaysPaused, lifeVars
<1>3. p \in Packets /\ PacketSound(Peer(e), p) /\ Peer(e) \in Ends
    BY <1>2, CarriedFacts, PeerFacts
<1>4. p.ack \in Nat /\ p.ack <= recvSeq[Peer(e)]
    BY <1>3 DEF Packets, PacketSound
<1>5. p.ack <= written[e]
    <2>1. recvSeq[Peer(e)] <= unacked[e] + Len(buf[e])
        BY DEF StreamInv, AckSound
    <2>2. unacked[e] + Len(buf[e]) <= written[e]
        BY DEF StreamInv, BufferWritten
    <2>3. /\ recvSeq[Peer(e)] \in Nat /\ written[e] \in Nat /\ unacked[e] \in Nat
          /\ Len(buf[e]) \in Nat
        BY <1>1, <1>3
    <2> HIDE DEF p
    <2> QED
        BY <1>4, <2>1, <2>2, <2>3
<1>6. wbuf[e] = written[e] - unacked[e] /\ wbuf[e] < HighWater + MaxWrite
      /\ (wbuf[e] >= HighWater => paused[e])
    BY <1>2 DEF AccountingInv, Accounting
<1>7. left = written[e] - p.ack /\ left < wbuf[e] /\ left \in Nat
    <2>1. wbuf[e] \in Nat /\ written[e] \in Nat /\ unacked[e] \in Nat
        BY <1>1
    <2> HIDE DEF p
    <2> QED
        BY <1>2, <1>4, <1>5, <1>6, <2>1
<1> HIDE DEF left, p
<1>8. ASSUME NEW d \in Ends
      PROVE  /\ state'[d] = "OPEN" => wbuf'[d] = written'[d] - unacked'[d]
             /\ wbuf'[d] < HighWater + MaxWrite
             /\ wbuf'[d] >= HighWater => paused'[d]
    <2>1. CASE d = e
        <3>1. /\ wbuf'[d] = left /\ unacked'[d] = p.ack /\ written'[d] = written[e]
              /\ paused'[d] = (paused[e] /\ left > LowWater)
            BY <1>1, <1>2, <2>1
        <3>2. wbuf[e] \in Nat
            BY <1>1
        <3>3. left < HighWater + MaxWrite
            BY <1>1, <1>6, <1>7, <3>2
        <3>4. left >= HighWater => paused[e] /\ left > LowWater
            BY <1>1, <1>6, <1>7, <3>2
        <3> QED
            BY <1>7, <3>1, <3>3, <3>4
    <2>2. CASE d # e
        BY <1>1, <1>2, <2>2 DEF AccountingInv, Accounting
    <2> QED
        BY <2>1, <2>2
<1> QED
    BY <1>8 DEF AccountingInv, Accounting

LEMMA AccountingInit == Init => AccountingInv
<1> SUFFICES ASSUME Init PROVE AccountingInv
    OBVIOUS
<1>1. 0 < HighWater /\ 0 < HighWater + MaxWrite
    BY SizesAssumption, BoundsAssumption
<1>2. \A e \in Ends : wbuf[e] = 0 /\ written[e] = 0 /\ unacked[e] = 0
    BY DEF Init
<1> QED
    BY <1>1, <1>2, SizesAssumption DEF AccountingInv, Accounting

LEMMA AccountingStep ==
    ASSUME TypeOK, StreamInv, AccountingInv, [Next]_vars
    PROVE  AccountingInv'
<1>1. /\ state \in [Ends -> {"OPEN", "CLOSING", "CLOSED"}]
    BY DEF TypeOK
<1>2. ASSUME NEW e \in Ends,
             \/ Close(e) \/ SendDataStart(e) \/ RecvIgnored(e) \/ RecvNoAck(e)
             \/ RecvCloseClosing(e) \/ RecvCloseOpen(e) \/ RecvCloseFinish(e)
             \/ FlushEndDeliver(e) \/ CloseStep(e) \/ TimerTick(e) \/ Lose(e)
             \/ \E t \in FlushTasks : FlushStep(e, t)
      PROVE  AccountingInv'
    <2>1. UNCHANGED <<written, unacked, wbuf, paused>>
        BY <1>2 DEF Close, SendDataStart, RecvIgnored, RecvNoAck, RecvCloseClosing,
            RecvCloseOpen, RecvCloseFinish, FlushEndDeliver, CloseStep, CloseStart,
            CloseSend, CloseFinish, TimerTick, TickTimeout, TickRetransmit, TickProbe,
            TickClosing, Lose, FlushStep, FlushSend, FlushRaise, FlushEnd, sendVars, appVars
    <2>2. \/ state' = state
          \/ \E s \in {"CLOSING", "CLOSED"} : state' = [state EXCEPT ![e] = s]
        BY <1>2 DEF Close, SendDataStart, RecvIgnored, RecvNoAck, RecvCloseClosing,
            RecvCloseOpen, RecvCloseFinish, FlushEndDeliver, CloseStep, CloseStart,
            CloseSend, CloseFinish, TimerTick, TickTimeout, TickRetransmit, TickProbe,
            TickClosing, Lose, FlushStep, FlushSend, FlushRaise, FlushEnd, PeerClosed,
            lifeVars
    <2>3. \A d \in Ends : state'[d] = "OPEN" => state[d] = "OPEN"
        BY <1>1, <2>2
    <2> QED
        BY <2>1, <2>3, AccountingFrame
<1>3. CASE NextInterval \/ UNCHANGED vars
    BY <1>3, AccountingFrame DEF NextInterval, vars, sendVars, appVars, lifeVars
<1> QED
    BY <1>2, <1>3, AccountingWrite, AccountingAck DEF Next, Program, Receive

(* For all sizes, whatever is lost, suspended or raised: while OPEN the    *)
(* transport's count is what the peer has not acknowledged, and a program  *)
(* that heeds drain() never has more than a write over the high-water mark *)
(* outstanding.                                                            *)
THEOREM AccountingIsExact == Spec => []Accounting
<1>1. Init => AccountingInv
    BY AccountingInit
<1>2. TypeOK /\ StreamInv /\ AccountingInv /\ [Next]_vars => AccountingInv'
    BY AccountingStep
<1>3. AccountingInv => Accounting
    BY DEF AccountingInv
<1> QED
    BY <1>1, <1>2, <1>3, TypeCorrect, StreamSafe, PTL DEF Spec

-------------------------------------------------------------------------------
(* The window.                                                             *)

(* No send suspends: a task that flushes the send buffer holds the event   *)
(* loop until the window or the buffer is exhausted.  Where it will end,   *)
(* it is as far as send_next_seq has ever been.                            *)
Flushes(e) == \E t \in FlushTasks : flushing[e][t] > 0
FlushEndsAt(e) == unacked[e] + Lesser(Window, Len(buf[e]))
Reach(e) == IF Flushes(e) THEN FlushEndsAt(e) ELSE nextSeq[e]

Within(e, p) == p.kind = "data" => p.seq + Len(p.data) <= Reach(e)

FlushHolds(e) ==
    /\ \A t \in FlushTasks : flushing[e][t] <= 1
                             /\ (flushing[e][t] > 0 => running[e] = t)
    /\ flushing[e]["recv"] > 0 => rx[e].kind # "close"
SendsWithin(e) == unacked[e] <= nextSeq[e] /\ nextSeq[e] <= FlushEndsAt(e)
ReceivedWithin(e) ==
    /\ recvSeq[Peer(e)] <= Reach(e)
    /\ Within(e, rx[Peer(e)]) /\ \A i \in 1..Len(chan[e]) : Within(e, chan[e][i])

WindowInv == \A e \in Ends : FlushHolds(e) /\ SendsWithin(e) /\ ReceivedWithin(e)

(* Channels that hold what they held, and packets without data.            *)
NoNewData(c) ==
    \A d \in Ends : \A i \in 1..Len(c[d]) :
        c[d][i].kind = "data" => \E j \in 1..Len(chan[d]) : c[d][i] = chan[d][j]

LEMMA NoNewDataFacts ==
    ASSUME TypeOK, StreamInv, NEW e \in Ends
    PROVE  /\ NoNewData(chan)
           /\ \A ack \in Nat, kind \in {"ack", "close"} :
                NoNewData(Put(chan, e, Control(kind, ack)))
           /\ chan[Peer(e)] # <<>> =>
                /\ NoNewData(Taken(e))
                /\ \A ack \in Nat, kind \in {"ack", "close"} :
                    NoNewData(Put(Taken(e), e, Control(kind, ack)))
<1>1. Carried(chan) /\ (chan[Peer(e)] # <<>> => Carried(Taken(e)))
    BY CarriedFacts
<1>2. ASSUME NEW c, Carried(c) PROVE NoNewData(c)
    BY <1>2 DEF Carried, NoNewData
<1>3. ASSUME NEW c, Carried(c), NEW ack \in Nat, NEW kind \in {"ack", "close"}
      PROVE  NoNewData(Put(c, e, Control(kind, ack)))
    <2>1. PICK p : p = Control(kind, ack)
        OBVIOUS
    <2>2. p \in Packets /\ p.kind # "data"
        BY <2>1, PacketType DEF Control
    <2>3. \A d \in Ends : \A i \in 1..Len(Put(c, e, p)[d]) :
            \/ d = e /\ Put(c, e, p)[d][i] = p
            \/ \E j \in 1..Len(c[d]) : Put(c, e, p)[d][i] = c[d][j]
        BY <1>3, <2>2, PutFacts DEF Carried
    <2>4. ASSUME NEW d \in Ends, NEW i \in 1..Len(Put(c, e, p)[d]),
                 Put(c, e, p)[d][i].kind = "data"
          PROVE  \E j \in 1..Len(chan[d]) : Put(c, e, p)[d][i] = chan[d][j]
        <3>1. PICK j \in 1..Len(c[d]) : Put(c, e, p)[d][i] = c[d][j]
            BY <2>2, <2>3, <2>4
        <3> QED
            BY <1>3, <3>1 DEF Carried
    <2> QED
        BY <2>1, <2>4 DEF NoNewData
<1> QED
    BY <1>1, <1>2, <1>3

(* The invariant in the parts that a step of e disturbs: what e sends, and *)
(* what it has received.                                                   *)
SameSender(e) ==
    /\ unacked'[e] = unacked[e] /\ nextSeq'[e] = nextSeq[e] /\ buf'[e] = buf[e]
    /\ flushing'[e] = flushing[e] /\ running'[e] = running[e] /\ rx'[e] = rx[e]

NewWithin(e, p) == p.kind = "data" => p.seq + Len(p.data) <= Reach(e)'

LEMMA ReachTypes ==
    ASSUME TypeOK, NEW e \in Ends
    PROVE  /\ unacked[e] \in Nat /\ nextSeq[e] \in Nat /\ Len(buf[e]) \in Nat
           /\ FlushEndsAt(e) \in Nat /\ Reach(e) \in Nat
           /\ recvSeq[e] \in Nat /\ flushing[e] \in [FlushTasks -> Nat]
<1>1. /\ unacked[e] \in Nat /\ nextSeq[e] \in Nat /\ buf[e] \in Seq(Nat)
      /\ recvSeq[e] \in Nat /\ flushing[e] \in [FlushTasks -> Nat]
    BY DEF TypeOK
<1>2. Len(buf[e]) \in Nat
    BY <1>1
<1>3. FlushEndsAt(e) \in Nat
    BY <1>1, <1>2, SizesAssumption DEF FlushEndsAt, Lesser
<1> QED
    BY <1>1, <1>2, <1>3 DEF Reach

LEMMA WindowFrame ==
    ASSUME TypeOK, TypeOK', WindowInv, NEW e \in Ends, SameSender(Peer(e)),
           FlushHolds(e)', SendsWithin(e)', Reach(e) <= Reach(e)',
           recvSeq'[Peer(e)] = recvSeq[Peer(e)],
           recvSeq'[e] = recvSeq[e] \/ recvSeq'[e] <= Reach(Peer(e)),
           rx'[e] = rx[e] \/ Within(Peer(e), rx'[e]),
           \A d \in Ends : \A i \in 1..Len(chan'[d]) :
                \/ \E j \in 1..Len(chan[d]) : chan'[d][i] = chan[d][j]
                \/ chan'[d][i].kind # "data"
                \/ d = e /\ NewWithin(e, chan'[d][i])
    PROVE  WindowInv'
<1> DEFINE o == Peer(e)
<1>1. o \in Ends /\ o # e /\ Peer(o) = e /\ \A d \in Ends : d = e \/ d = o
    BY PeerFacts
<1>2. /\ FlushHolds(o) /\ SendsWithin(o) /\ ReceivedWithin(o) /\ ReceivedWithin(e)
    BY <1>1 DEF WindowInv
<1>3. FlushHolds(o)' /\ SendsWithin(o)' /\ Reach(o)' = Reach(o)
    BY <1>2 DEF SameSender, FlushHolds, SendsWithin, FlushEndsAt, Reach, Flushes
<1>4. \A d \in Ends : Reach(d) \in Nat /\ Reach(d)' \in Nat /\ Reach(d) <= Reach(d)'
    <2>1. \A d \in Ends : Reach(d) \in Nat
        BY ReachTypes
    <2>2. \A d \in Ends : Reach(d)' \in Nat
        <3> SUFFICES ASSUME NEW d \in Ends PROVE Reach(d)' \in Nat
            OBVIOUS
        <3>1. /\ unacked'[d] \in Nat /\ nextSeq'[d] \in Nat /\ buf'[d] \in Seq(Nat)
            BY DEF TypeOK
        <3>2. Len(buf'[d]) \in Nat
            BY <3>1
        <3> QED
            BY <3>1, <3>2, SizesAssumption DEF Reach, FlushEndsAt, Lesser
    <2> QED
        BY <1>1, <1>3, <2>1, <2>2
<1>5. ASSUME NEW d \in Ends, NEW p \in Packets, Within(d, p) PROVE NewWithin(d, p)
    <2>1. p.kind = "data" => p.seq + Len(p.data) \in Nat
        <3>1. p.data \in Seq(Nat) /\ p.seq \in Nat
            BY DEF Packets
        <3>2. Len(p.data) \in Nat
            BY <3>1
        <3> QED
            BY <3>1, <3>2
    <2>2. Reach(d) \in Nat /\ Reach(d)' \in Nat /\ Reach(d) <= Reach(d)'
        BY <1>4
    <2> QED
        BY <1>5, <2>1, <2>2 DEF Within, NewWithin
<1>6. \A d \in Ends : \A i \in 1..Len(chan'[d]) : NewWithin(d, chan'[d][i])
    <2> SUFFICES ASSUME NEW d \in Ends, NEW i \in 1..Len(chan'[d])
                 PROVE  NewWithin(d, chan'[d][i])
        OBVIOUS
    <2>1. CASE \E j \in 1..Len(chan[d]) : chan'[d][i] = chan[d][j]
        <3>1. PICK j \in 1..Len(chan[d]) : chan'[d][i] = chan[d][j]
            BY <2>1
        <3>2. chan[d] \in Seq(Packets)
            BY DEF TypeOK
        <3>3. chan[d][j] \in Packets /\ Within(d, chan[d][j])
            BY <3>2 DEF WindowInv, ReceivedWithin
        <3> QED
            BY <1>5, <3>1, <3>3
    <2>2. CASE chan'[d][i].kind # "data"
        BY <2>2 DEF NewWithin
    <2>3. CASE d = e /\ NewWithin(e, chan'[d][i])
        BY <2>3
    <2> QED
        BY <2>1, <2>2, <2>3
<1>7. NewWithin(e, rx'[o]) /\ NewWithin(o, rx'[e])
    <2>1. rx[o] \in Packets /\ rx[e] \in Packets /\ rx'[e] \in Packets
        BY <1>1 DEF TypeOK
    <2>2. Within(e, rx[o]) /\ Within(o, rx[e])
        BY <1>1, <1>2 DEF ReceivedWithin
    <2>3. rx'[o] = rx[o]
        BY DEF SameSender
    <2> QED
        BY <1>1, <1>5, <2>1, <2>2, <2>3
<1>8. recvSeq'[o] <= Reach(e)' /\ recvSeq'[e] <= Reach(o)'
    <2>1. recvSeq[o] <= Reach(e) /\ recvSeq[e] <= Reach(o)
        BY <1>1, <1>2 DEF ReceivedWithin
    <2>2. recvSeq[o] \in Nat /\ recvSeq[e] \in Nat /\ Reach(e) \in Nat /\ Reach(e)' \in Nat
        BY <1>1, <1>4 DEF TypeOK
    <2>3. recvSeq'[o] = recvSeq[o] /\ Reach(o)' = Reach(o)
        BY <1>3
    <2> QED
        BY <2>1, <2>2, <2>3
<1>9. ReceivedWithin(e)' /\ ReceivedWithin(o)'
    BY <1>1, <1>6, <1>7, <1>8 DEF ReceivedWithin, Within, NewWithin
<1> QED
    BY <1>1, <1>3, <1>9 DEF WindowInv

(* A step at an end where nothing is being flushed, before or after.       *)
LEMMA StillStep ==
    ASSUME TypeOK, TypeOK', WindowInv, NEW e \in Ends, SameSender(Peer(e)),
           unacked'[e] = unacked[e], nextSeq'[e] = nextSeq[e], buf'[e] = buf[e],
           ~Flushes(e), flushing'[e] = flushing[e] \/ CancelTimerFlush(e),
           recvSeq'[Peer(e)] = recvSeq[Peer(e)],
           recvSeq'[e] = recvSeq[e] \/ recvSeq'[e] <= Reach(Peer(e)),
           rx'[e] = rx[e] \/ rx'[e].kind # "data",
           NoNewData(chan')
    PROVE  WindowInv'
<1>1. \A t \in FlushTasks : flushing[e][t] = 0
    <2>1. flushing[e] \in [FlushTasks -> Nat]
        BY DEF TypeOK
    <2> QED
        BY <2>1 DEF Flushes
<1>2. \A t \in FlushTasks : flushing'[e][t] = 0
    <2>1. CASE flushing'[e] = flushing[e]
        BY <1>1, <2>1
    <2>2. CASE CancelTimerFlush(e)
        <3>1. flushing'[e] = [flushing[e] EXCEPT !["timer"] = 0]
            BY <2>2 DEF CancelTimerFlush, TypeOK
        <3> QED
            BY <1>1, <3>1 DEF TypeOK
    <2> QED
        BY <2>1, <2>2
<1>3. "recv" \in FlushTasks
    BY DEF FlushTasks
<1>4. FlushHolds(e)' /\ Reach(e)' = Reach(e)
    BY <1>1, <1>2, <1>3 DEF FlushHolds, Reach, Flushes
<1>5. SendsWithin(e)'
    BY DEF WindowInv, SendsWithin, FlushEndsAt
<1>6. rx'[e] = rx[e] \/ Within(Peer(e), rx'[e])
    BY DEF Within
<1>7. Reach(e) <= Reach(e)'
    BY <1>4, ReachTypes
<1> QED
    BY <1>4, <1>5, <1>6, <1>7, WindowFrame DEF NoNewData

(* A task other than a flushing one holds the loop.                        *)
LEMMA NotFlushing ==
    ASSUME TypeOK, WindowInv, NEW e \in Ends
    PROVE  /\ Idle(e) => ~Flushes(e)
           /\ MayRun(e, "close") => ~Flushes(e)
           /\ (MayRun(e, "recv") /\ rx[e].kind = "close") => ~Flushes(e)
BY DEF WindowInv, FlushHolds, Flushes, FlushTasks, Idle, MayRun

(* The steps of an end leave the other one's sending side alone.           *)
LEMMA PeerSame ==
    ASSUME TypeOK, NEW e \in Ends,
           \/ Program(e) \/ SendDataStart(e) \/ Receive(e) \/ RecvCloseFinish(e)
           \/ FlushEndDeliver(e) \/ CloseStep(e) \/ TimerTick(e) \/ Lose(e)
           \/ \E t \in FlushTasks : FlushStep(e, t)
    PROVE  SameSender(Peer(e)) /\ recvSeq'[Peer(e)] = recvSeq[Peer(e)]
<1> DEFINE o == Peer(e)
<1>1. o \in Ends /\ o # e
    BY PeerFacts
<1>2. /\ DOMAIN unacked = Ends /\ DOMAIN nextSeq = Ends /\ DOMAIN buf = Ends
      /\ DOMAIN flushing = Ends /\ DOMAIN running = Ends /\ DOMAIN rx = Ends
      /\ DOMAIN recvSeq = Ends
    BY DEF TypeOK
<1>3. CASE Program(e)
    BY <1>3 DEF Program, Write, Close, SameSender, sendVars, recvVars
<1>4. CASE SendDataStart(e)
    <2>1. UNCHANGED <<unacked, nextSeq, rx, recvSeq>>
        BY <1>4 DEF SendDataStart, recvVars
    <2>2. flushing' = flushing \/ flushing' = [flushing EXCEPT ![e]["send"] = @ + 1]
        BY <1>4, Zenon DEF SendDataStart
    <2>3. buf' = buf \/ \E b : buf' = [buf EXCEPT ![e] = b]
        BY <1>4, Zenon DEF SendDataStart
    <2>4. running' = running \/ running' = [running EXCEPT ![e] = "send"]
        BY <1>4, Zenon DEF SendDataStart
    <2> QED
        BY <1>1, <1>2, <2>1, <2>2, <2>3, <2>4 DEF SameSender
<1>5. CASE Receive(e)
    <2>1. CASE RecvIgnored(e)
        BY <2>1 DEF RecvIgnored, SameSender, sendVars, recvVars
    <2>2. CASE RecvNewAck(e)
        BY <1>1, <1>2, <2>2 DEF RecvNewAck, TakeAck, SameSender
    <2>3. CASE RecvNoAck(e)
        <3>1. UNCHANGED <<unacked, nextSeq, buf, flushing, rx, running>>
            BY <2>3 DEF RecvNoAck, sendVars
        <3>2. recvSeq' = recvSeq \/ \E k : recvSeq' = [recvSeq EXCEPT ![e] = k]
            BY <2>3, Zenon DEF RecvNoAck, HandleSequence
        <3> QED
            BY <1>1, <1>2, <3>1, <3>2 DEF SameSender
    <2>4. CASE RecvCloseClosing(e)
        BY <1>1, <1>2, <2>4 DEF RecvCloseClosing, PeerClosed, CancelTimerFlush,
            SameSender, recvVars
    <2>5. CASE RecvCloseOpen(e)
        BY <1>1, <1>2, <2>5 DEF RecvCloseOpen, AfterSend, SameSender, sendVars
    <2> QED
        BY <1>5, <2>1, <2>2, <2>3, <2>4, <2>5 DEF Receive
<1>6. CASE RecvCloseFinish(e)
    BY <1>1, <1>2, <1>6 DEF RecvCloseFinish, PeerClosed, CancelTimerFlush, SameSender
<1>7. CASE FlushEndDeliver(e)
    <2>1. recvSeq' = recvSeq \/ \E k : recvSeq' = [recvSeq EXCEPT ![e] = k]
        BY <1>7, Zenon DEF FlushEndDeliver, HandleSequence
    <2>2. /\ UNCHANGED <<unacked, nextSeq, buf>>
          /\ flushing'[o] = flushing[o] /\ running'[o] = running[o] /\ rx'[o] = rx[o]
        BY <1>1, <1>2, <1>7 DEF FlushEndDeliver
    <2> QED
        BY <1>1, <1>2, <2>1, <2>2 DEF SameSender
<1>8. CASE CloseStart(e)
    BY <1>1, <1>2, <1>8 DEF CloseStart, SameSender, sendVars, recvVars
<1>9. CASE CloseSend(e)
    BY <1>1, <1>2, <1>9 DEF CloseSend, CancelTimerFlush, AfterSend, SameSender, recvVars
<1>10. CASE CloseFinish(e)
    BY <1>1, <1>2, <1>10 DEF CloseFinish, SameSender, sendVars, recvVars
<1>11. CASE TimerTick(e)
    BY <1>1, <1>2, <1>11 DEF TimerTick, TickTimeout, TickRetransmit, TickProbe, TickClosing,
        Rewind, SameSender, sendVars, recvVars
<1>12. CASE Lose(e)
    BY <1>12 DEF Lose, SameSender, sendVars, recvVars
<1>13. ASSUME NEW t \in FlushTasks, FlushStep(e, t)
       PROVE  SameSender(o) /\ recvSeq'[o] = recvSeq[o]
    BY <1>1, <1>2, <1>13 DEF FlushStep, FlushSend, FlushRaise, FlushEnd, AfterSend,
        SameSender, recvVars
<1> QED
    BY <1>3, <1>4, <1>5, <1>6, <1>7, <1>8, <1>9, <1>10, <1>11, <1>12, <1>13 DEF CloseStep

(* In-order data reaches no further than its sender has sent.              *)
LEMMA SequenceWithin ==
    ASSUME TypeOK, WindowInv, NEW e \in Ends, NEW p \in Packets, NEW c,
           p.kind = "data", Within(Peer(e), p), HandleSequence(e, p, c)
    PROVE  /\ recvSeq'[e] = recvSeq[e] \/ recvSeq'[e] <= Reach(Peer(e))
           /\ chan' = c \/ \E ack \in Nat : chan' = Put(c, e, Control("ack", ack))
<1>1. recvSeq \in [Ends -> Nat] /\ p.seq \in Nat /\ Len(p.data) \in Nat
    <2>1. p.data \in Seq(Nat) /\ p.seq \in Nat
        BY DEF Packets
    <2>2. recvSeq \in [Ends -> Nat]
        BY DEF TypeOK
    <2>3. Len(p.data) \in Nat
        BY <2>1
    <2> QED
        BY <2>1, <2>2, <2>3
<1>2. CASE InSequence(e, p)
    <2>1. recvSeq' = [recvSeq EXCEPT ![e] = @ + Len(p.data)]
          /\ LastSend(c, e, Control("ack", recvSeq'[e]))
        BY <1>2 DEF HandleSequence
    <2>2. recvSeq'[e] = recvSeq[e] + Len(p.data) /\ recvSeq'[e] \in Nat
        BY <1>1, <2>1
    <2>3. recvSeq'[e] <= Reach(Peer(e))
        BY <1>1, <1>2, <2>2 DEF InSequence, Within
    <2> QED
        BY <2>1, <2>2, <2>3 DEF LastSend
<1>3. CASE ~InSequence(e, p)
    BY <1>3 DEF HandleSequence
<1> QED
    BY <1>2, <1>3

(* The next packet of the peer, and the one being handled.                 *)
LEMMA HandledWithin ==
    ASSUME TypeOK, WindowInv, NEW e \in Ends
    PROVE  /\ rx[e] \in Packets /\ Within(Peer(e), rx[e])
           /\ chan[Peer(e)] # <<>> =>
                /\ Head(chan[Peer(e)]) \in Packets
                /\ Within(Peer(e), Head(chan[Peer(e)]))
<1>1. Peer(e) \in Ends /\ Peer(Peer(e)) = e
    BY PeerFacts
<1>2. ReceivedWithin(Peer(e)) /\ chan \in [Ends -> Seq(Packets)] /\ rx[e] \in Packets
    BY <1>1 DEF WindowInv, TypeOK
<1>3. chan[Peer(e)] # <<>> => /\ Head(chan[Peer(e)]) \in Packets
                              /\ 1 \in 1..Len(chan[Peer(e)])
                              /\ Head(chan[Peer(e)]) = chan[Peer(e)][1]
    BY <1>2, TakenFacts
<1> QED
    BY <1>1, <1>2, <1>3 DEF ReceivedWithin

LEMMA StillActions ==
    ASSUME TypeOK, TypeOK', StreamInv, WindowInv, NEW e \in Ends,
           \/ Program(e) \/ RecvIgnored(e) \/ RecvNoAck(e) \/ RecvCloseClosing(e)
           \/ RecvCloseOpen(e) \/ RecvCloseFinish(e) \/ CloseStep(e)
           \/ TickTimeout(e) \/ TickProbe(e) \/ TickClosing(e)
           \/ SendDataStart(e) /\ ~MaySend(e)
    PROVE  WindowInv'
<1>1. SameSender(Peer(e)) /\ recvSeq'[Peer(e)] = recvSeq[Peer(e)]
    BY PeerSame DEF Receive, TimerTick
<1>2. recvSeq[e] \in Nat /\ DOMAIN flushing = Ends /\ DOMAIN rx = Ends
    BY DEF TypeOK
<1>3. /\ NoNewData(chan)
      /\ NoNewData(Put(chan, e, Control("ack", recvSeq[e])))
      /\ NoNewData(Put(chan, e, Control("close", recvSeq[e])))
    BY <1>2, NoNewDataFacts
<1>4. chan[Peer(e)] # <<>> =>
        /\ NoNewData(Taken(e))
        /\ NoNewData(Put(Taken(e), e, Control("close", recvSeq[e])))
    BY <1>2, NoNewDataFacts
<1> DEFINE Still ==
            /\ ~Flushes(e)
            /\ UNCHANGED <<unacked, nextSeq, buf>>
            /\ flushing'[e] = flushing[e] \/ CancelTimerFlush(e)
            /\ recvSeq'[e] = recvSeq[e] \/ recvSeq'[e] <= Reach(Peer(e))
            /\ rx'[e] = rx[e] \/ rx'[e].kind # "data"
            /\ NoNewData(chan')
<1>5. ASSUME Program(e) PROVE Still
    <2>1. ~Flushes(e)
        <3>1. Idle(e)
            BY <1>5 DEF Program, Write, Close
        <3> QED
            BY <3>1, NotFlushing
    <2> QED
        BY <1>3, <1>5, <2>1 DEF Program, Write, Close, sendVars, recvVars, netVars
<1>6. ASSUME RecvIgnored(e) PROVE Still
    <2>1. ~Flushes(e)
        <3>1. Idle(e)
            BY <1>6 DEF RecvIgnored, Receiving
        <3> QED
            BY <3>1, NotFlushing
    <2> QED
        BY <1>4, <1>6, <2>1 DEF RecvIgnored, Receiving, sendVars, recvVars
<1>7. ASSUME RecvNoAck(e) PROVE Still
    <2> DEFINE p == Head(chan[Peer(e)])
    <2>1. Idle(e) /\ chan[Peer(e)] # <<>>
        BY <1>7 DEF RecvNoAck, Receiving
    <2>2. ~Flushes(e)
        BY <2>1, NotFlushing
    <2>3. UNCHANGED <<unacked, nextSeq, buf, flushing, rx>>
        BY <1>7 DEF RecvNoAck, sendVars
    <2>4. CASE p.kind = "data"
        <3>1. HandleSequence(e, p, Taken(e))
            BY <1>7, <2>4 DEF RecvNoAck
        <3>2. p \in Packets /\ Within(Peer(e), p)
            BY <2>1, HandledWithin
        <3>3. /\ recvSeq'[e] = recvSeq[e] \/ recvSeq'[e] <= Reach(Peer(e))
              /\ \/ chan' = Taken(e)
                 \/ \E ack \in Nat : chan' = Put(Taken(e), e, Control("ack", ack))
            BY <2>4, <3>1, <3>2, SequenceWithin
        <3>4. NoNewData(chan')
            BY <2>1, <3>3, NoNewDataFacts
        <3> QED
            BY <2>2, <2>3, <3>3, <3>4
    <2>5. CASE p.kind # "data"
        <3>1. chan' = Taken(e) /\ recvSeq' = recvSeq
            BY <1>7, <2>5 DEF RecvNoAck
        <3> QED
            BY <1>4, <2>1, <2>2, <2>3, <3>1
    <2> QED
        BY <2>4, <2>5
<1>8. ASSUME RecvCloseClosing(e) PROVE Still
    <2>1. ~Flushes(e)
        <3>1. Idle(e)
            BY <1>8 DEF RecvCloseClosing, Receiving
        <3> QED
            BY <3>1, NotFlushing
    <2> QED
        BY <1>4, <1>8, <2>1 DEF RecvCloseClosing, Receiving, PeerClosed, recvVars
<1>9. ASSUME RecvCloseOpen(e) PROVE Still
    <2>1. ~Flushes(e)
        <3>1. Idle(e)
            BY <1>9 DEF RecvCloseOpen, Receiving
        <3> QED
            BY <3>1, NotFlushing
    <2>2. chan[Peer(e)] # <<>> /\ Head(chan[Peer(e)]).kind = "close"
        BY <1>9 DEF RecvCloseOpen, Receiving
    <2>3. chan' = Taken(e) \/ chan' = Put(Taken(e), e, Control("close", recvSeq[e]))
        BY <1>9 DEF RecvCloseOpen
    <2>4. rx' = rx \/ rx' = [rx EXCEPT ![e] = Head(chan[Peer(e)])]
        BY <1>9 DEF RecvCloseOpen
    <2>5. UNCHANGED <<unacked, nextSeq, buf, flushing, recvSeq>>
        BY <1>9 DEF RecvCloseOpen, sendVars
    <2> QED
        BY <1>2, <1>4, <2>1, <2>2, <2>3, <2>4, <2>5
<1>10. ASSUME RecvCloseFinish(e) PROVE Still
    <2>1. ~Flushes(e)
        <3>1. MayRun(e, "recv") /\ rx[e].kind = "close"
            BY <1>10 DEF RecvCloseFinish
        <3> QED
            BY <3>1, NotFlushing
    <2>2. rx'[e] = NoPacket /\ CancelTimerFlush(e)
        BY <1>2, <1>10 DEF RecvCloseFinish, PeerClosed
    <2> QED
        BY <1>3, <1>10, <2>1, <2>2, PacketType DEF RecvCloseFinish, netVars
<1>11. ASSUME CloseStep(e) PROVE Still
    <2>1. ~Flushes(e)
        <3>1. MayRun(e, "close")
            BY <1>11 DEF CloseStep, CloseStart, CloseSend, CloseFinish, Idle, MayRun
        <3> QED
            BY <3>1, NotFlushing
    <2> QED
        BY <1>3, <1>11, <2>1 DEF CloseStep, CloseStart, CloseSend, CloseFinish, sendVars,
            recvVars, netVars
<1>12. ASSUME TickTimeout(e) \/ TickProbe(e) \/ TickClosing(e) PROVE Still
    <2>1. ~Flushes(e)
        <3>1. Idle(e)
            BY <1>12 DEF TickTimeout, TickProbe, TickClosing, Ticks
        <3> QED
            BY <3>1, NotFlushing
    <2> QED
        BY <1>3, <1>12, <2>1 DEF TickTimeout, TickProbe, TickClosing, sendVars, recvVars,
            netVars
<1>13. ASSUME SendDataStart(e), ~MaySend(e) PROVE Still
    <2>1. ~Flushes(e)
        <3>1. Idle(e)
            BY <1>13 DEF SendDataStart
        <3> QED
            BY <3>1, NotFlushing
    <2> QED
        BY <1>3, <1>13, <2>1 DEF SendDataStart, recvVars, netVars
<1>14. Still
    BY <1>5, <1>6, <1>7, <1>8, <1>9, <1>10, <1>11, <1>12, <1>13
<1> QED
    BY <1>1, <1>14, StillStep

-------------------------------------------------------------------------------
(* A flush begins: new data, an acknowledgement, a retransmission.         *)
LEMMA FlushBegins ==
    ASSUME TypeOK, TypeOK', WindowInv, NEW e \in Ends, NEW t \in FlushTasks,
           SameSender(Peer(e)), ~Flushes(e),
           running'[e] = t, flushing'[e] = [flushing[e] EXCEPT ![t] = 1],
           t = "recv" => rx'[e].kind # "close",
           SendsWithin(e)', nextSeq[e] <= FlushEndsAt(e)',
           UNCHANGED recvSeq,
           rx'[e] = rx[e] \/ Within(Peer(e), rx'[e]),
           NoNewData(chan')
    PROVE  WindowInv'
<1>1. \A s \in FlushTasks : flushing[e][s] = 0
    <2>1. flushing[e] \in [FlushTasks -> Nat]
        BY DEF TypeOK
    <2> QED
        BY <2>1 DEF Flushes
<1>2. flushing'[e][t] = 1 /\ \A s \in FlushTasks : s # t => flushing'[e][s] = 0
    BY <1>1 DEF TypeOK
<1>3. "recv" \in FlushTasks
    BY DEF FlushTasks
<1>4. FlushHolds(e)' /\ Flushes(e)'
    BY <1>2, <1>3 DEF FlushHolds, Flushes
<1>5. Reach(e) <= Reach(e)'
    BY <1>4 DEF Reach
<1> QED
    BY <1>4, <1>5, WindowFrame DEF NoNewData

LEMMA SendDataWindow ==
    ASSUME TypeOK, TypeOK', StreamInv, WindowInv, NEW e \in Ends, SendDataStart(e), MaySend(e)
    PROVE  WindowInv'
<1>1. SameSender(Peer(e))
    BY PeerSame
<1>2. ~Flushes(e)
    <2>1. Idle(e)
        BY DEF SendDataStart
    <2> QED
        BY <2>1, NotFlushing
<1>3. /\ UNCHANGED <<unacked, nextSeq, recvSeq, rx, chan>>
      /\ running' = [running EXCEPT ![e] = "send"]
      /\ flushing' = [flushing EXCEPT ![e]["send"] = @ + 1]
    BY DEF SendDataStart, recvVars, netVars
<1>4. \E b \in Seq(Nat) : buf' = [buf EXCEPT ![e] = @ \o b]
    <2>1. buf' = [buf EXCEPT ![e] = @ \o Bytes(Head(ready[e]).from, Head(ready[e]).to)]
          /\ ready[e] # <<>>
        BY DEF SendDataStart
    <2>2. ready[e] \in Seq(TaskRecords)
        BY DEF TypeOK, TaskRecords
    <2>3. Head(ready[e]) \in TaskRecords
        BY <2>1, <2>2
    <2>4. Head(ready[e]).from \in Nat /\ Head(ready[e]).to \in Nat
        BY <2>3 DEF TaskRecords
    <2>5. Bytes(Head(ready[e]).from, Head(ready[e]).to) \in Seq(Nat)
        BY <2>4, BytesType
    <2> QED
        BY <2>1, <2>5
<1>5. Len(buf[e]) <= Len(buf'[e]) /\ Len(buf[e]) \in Nat /\ Len(buf'[e]) \in Nat
    <2>1. PICK b \in Seq(Nat) : buf' = [buf EXCEPT ![e] = @ \o b]
        BY <1>4
    <2>2. buf[e] \in Seq(Nat) /\ buf'[e] = buf[e] \o b
        BY <2>1 DEF TypeOK
    <2>3. Len(buf'[e]) = Len(buf[e]) + Len(b) /\ Len(buf[e]) \in Nat /\ Len(b) \in Nat
        BY <2>2
    <2> QED
        BY <2>3
<1>6. running'[e] = "send" /\ flushing'[e] = [flushing[e] EXCEPT !["send"] = 1]
    <2>1. flushing[e]["send"] = 0 /\ "send" \in FlushTasks
        BY <1>2, ReachTypes DEF Flushes, FlushTasks
    <2>2. flushing'[e] = [flushing[e] EXCEPT !["send"] = @ + 1] /\ running'[e] = "send"
        BY <1>3 DEF TypeOK
    <2> QED
        BY <2>1, <2>2
<1>7. SendsWithin(e)' /\ nextSeq[e] <= FlushEndsAt(e)'
    <2>1. SendsWithin(e) /\ unacked[e] \in Nat /\ nextSeq[e] \in Nat /\ Window \in Nat
        BY ReachTypes, SizesAssumption DEF WindowInv
    <2>2. unacked'[e] = unacked[e] /\ nextSeq'[e] = nextSeq[e]
        BY <1>3
    <2> QED
        BY <1>5, <2>1, <2>2 DEF SendsWithin, FlushEndsAt, Lesser
<1>8. NoNewData(chan')
    BY <1>3, NoNewDataFacts
<1>9. "send" \in FlushTasks
    BY DEF FlushTasks
<1> QED
    BY <1>1, <1>2, <1>3, <1>6, <1>7, <1>8, <1>9, FlushBegins

LEMMA NewAckWindow ==
    ASSUME TypeOK, TypeOK', StreamInv, WindowInv, NEW e \in Ends, RecvNewAck(e)
    PROVE  WindowInv'
<1> DEFINE p == Head(chan[Peer(e)])
           acked == p.ack - unacked[e]
<1>1. SameSender(Peer(e)) /\ UNCHANGED <<nextSeq, recvSeq>>
    BY PeerSame DEF RecvNewAck, Receive
<1>2. chan[Peer(e)] # <<>> /\ chan' = Taken(e) /\ p.ack > unacked[e]
      /\ p.kind \in {"data", "ack"}
    BY DEF RecvNewAck, Receiving
<1>3. ~Flushes(e)
    <2>1. Idle(e)
        BY DEF RecvNewAck, Receiving
    <2> QED
        BY <2>1, NotFlushing
<1>4. /\ unacked' = [unacked EXCEPT ![e] = p.ack]
      /\ buf' = [buf EXCEPT ![e] = SubSeq(@, acked + 1, Len(@))]
      /\ flushing' = [flushing EXCEPT ![e]["recv"] = 1]
      /\ rx' = [rx EXCEPT ![e] = p]
      /\ running' = [running EXCEPT ![e] = "recv"]
    BY DEF RecvNewAck, TakeAck, AckedBytes
<1>5. p \in Packets /\ Within(Peer(e), p)
    BY <1>2, HandledWithin
<1>6. /\ unacked'[e] = p.ack /\ rx'[e] = p /\ running'[e] = "recv"
      /\ flushing'[e] = [flushing[e] EXCEPT !["recv"] = 1]
      /\ buf'[e] = SubSeq(buf[e], acked + 1, Len(buf[e]))
    <2>1. /\ DOMAIN unacked = Ends /\ DOMAIN rx = Ends /\ DOMAIN running = Ends
          /\ DOMAIN flushing = Ends /\ DOMAIN buf = Ends
        BY DEF TypeOK
    <2> HIDE DEF p, acked
    <2>2. unacked'[e] = p.ack
        BY <1>4, <2>1
    <2>3. rx'[e] = p
        BY <1>4, <2>1
    <2>4. running'[e] = "recv"
        BY <1>4, <2>1
    <2>5. flushing'[e] = [flushing[e] EXCEPT !["recv"] = 1]
        BY <1>4, <2>1
    <2>6. buf'[e] = SubSeq(buf[e], acked + 1, Len(buf[e]))
        BY <1>4, <2>1
    <2> QED
        BY <2>2, <2>3, <2>4, <2>5, <2>6
<1>7. p.ack \in Nat /\ p.ack <= recvSeq[Peer(e)] /\ Peer(e) \in Ends
    BY <1>2, <1>5, CarriedFacts, PeerFacts DEF Packets, PacketSound
<1>8. /\ recvSeq[Peer(e)] <= unacked[e] + Len(buf[e])
      /\ recvSeq[Peer(e)] <= nextSeq[e]
      /\ SendsWithin(e)
    BY <1>3 DEF StreamInv, AckSound, WindowInv, ReceivedWithin, Reach
<1>9. /\ unacked[e] \in Nat /\ nextSeq[e] \in Nat /\ Len(buf[e]) \in Nat
      /\ recvSeq[Peer(e)] \in Nat /\ Window \in Nat /\ buf[e] \in Seq(Nat)
    BY <1>7, ReachTypes, SizesAssumption DEF TypeOK
<1>10. acked \in Nat /\ acked <= Len(buf[e])
    BY <1>2, <1>7, <1>8, <1>9
<1>11. Len(buf'[e]) = Len(buf[e]) - acked
    <2>1. acked + 1 \in 1..(Len(buf[e]) + 1)
        BY <1>9, <1>10
    <2> HIDE DEF acked
    <2>2. Len(SubSeq(buf[e], acked + 1, Len(buf[e]))) = Len(buf[e]) - acked
        BY <1>9, <1>10
    <2> QED
        BY <1>6, <2>2
<1>12. unacked[e] + Len(buf[e]) = p.ack + Len(buf'[e]) /\ Len(buf'[e]) \in Nat
    <2>1. PICK k \in Nat : k = acked
        BY <1>10
    <2>2. PICK a \in Nat : a = p.ack
        BY <1>7
    <2>3. a = unacked[e] + k
        BY <1>9, <2>1, <2>2
    <2> HIDE DEF p, acked
    <2>4. Len(buf'[e]) = Len(buf[e]) - k /\ k <= Len(buf[e])
        BY <1>10, <1>11, <2>1
    <2> QED
        BY <1>9, <2>2, <2>3, <2>4
<1>13. p.ack <= nextSeq[e]
    BY <1>7, <1>8, <1>9
<1>14. nextSeq[e] <= p.ack + Lesser(Window, Len(buf'[e]))
    <2>1. nextSeq[e] <= unacked[e] + Window /\ nextSeq[e] <= unacked[e] + Len(buf[e])
        BY <1>8, <1>9 DEF SendsWithin, FlushEndsAt, Lesser
    <2> HIDE DEF p
    <2> QED
        BY <1>2, <1>7, <1>9, <1>12, <2>1 DEF Lesser
<1>15. SendsWithin(e)' /\ nextSeq[e] <= FlushEndsAt(e)'
    BY <1>1, <1>6, <1>13, <1>14 DEF SendsWithin, FlushEndsAt
<1>16. NoNewData(chan')
    BY <1>2, NoNewDataFacts
<1>17. "recv" \in FlushTasks
    BY DEF FlushTasks
<1> HIDE DEF p, acked
<1> QED
    BY <1>1, <1>2, <1>3, <1>5, <1>6, <1>15, <1>16, <1>17, FlushBegins

LEMMA RetransmitWindow ==
    ASSUME TypeOK, TypeOK', StreamInv, WindowInv, NEW e \in Ends, TickRetransmit(e)
    PROVE  WindowInv'
<1>1. SameSender(Peer(e))
    BY PeerSame DEF TimerTick
<1>2. ~Flushes(e)
    <2>1. Idle(e)
        BY DEF TickRetransmit, Ticks
    <2> QED
        BY <2>1, NotFlushing
<1>3. /\ UNCHANGED <<buf, unacked, recvSeq, rx, chan>>
      /\ nextSeq' = [nextSeq EXCEPT ![e] = unacked[e]]
      /\ flushing' = [flushing EXCEPT ![e]["timer"] = 1]
      /\ running' = [running EXCEPT ![e] = "timer"]
    BY DEF TickRetransmit, Rewind, recvVars, netVars
<1>4. /\ nextSeq'[e] = unacked[e] /\ running'[e] = "timer"
      /\ flushing'[e] = [flushing[e] EXCEPT !["timer"] = 1]
    BY <1>3 DEF TypeOK
<1>5. SendsWithin(e)' /\ nextSeq[e] <= FlushEndsAt(e)'
    <2>1. SendsWithin(e) /\ unacked[e] \in Nat /\ nextSeq[e] \in Nat
        BY ReachTypes DEF WindowInv
    <2>2. FlushEndsAt(e)' = FlushEndsAt(e) /\ FlushEndsAt(e) \in Nat
        BY <1>3, ReachTypes DEF FlushEndsAt
    <2> QED
        BY <1>3, <1>4, <2>1, <2>2 DEF SendsWithin
<1>6. NoNewData(chan')
    BY <1>3, NoNewDataFacts
<1>7. "timer" \in FlushTasks
    BY DEF FlushTasks
<1> QED
    BY <1>1, <1>2, <1>3, <1>4, <1>5, <1>6, <1>7, FlushBegins

-------------------------------------------------------------------------------
(* A flush goes on: the chunk fits the window and the buffer.              *)
LEMMA ChunkFits ==
    ASSUME TypeOK, NEW e \in Ends, SendsWithin(e), ~FlushStops(e)
    PROVE  /\ Len(Chunk(e)) \in Nat /\ ChunkSeq(e) = nextSeq[e]
           /\ nextSeq[e] + Len(Chunk(e)) <= FlushEndsAt(e)
<1>1. /\ nextSeq[e] \in Nat /\ unacked[e] \in Nat /\ buf[e] \in Seq(Nat)
      /\ Len(buf[e]) \in Nat /\ Window \in Nat /\ MaxChunk \in Nat
    BY SizesAssumption DEF TypeOK
<1>2. ChunkSize(e) \in Nat /\ ChunkSeq(e) = nextSeq[e]
    BY ChunkType, SizesAssumption
<1>3. PICK lo \in Nat : lo = InFlight(e) /\ nextSeq[e] = unacked[e] + lo
    BY <1>1 DEF SendsWithin, InFlight
<1>4. PICK size \in Nat : /\ size = ChunkSize(e)
                          /\ size <= Window - lo /\ size <= Len(buf[e]) - lo
    <2>1. Available(e) = Window - lo /\ Remaining(e) = Len(buf[e]) - lo
        BY <1>1, <1>3 DEF Available, Remaining
    <2>2. Available(e) \in Int /\ Remaining(e) \in Int
        BY <1>1, <2>1
    <2>3. ChunkSize(e) <= Available(e) /\ ChunkSize(e) <= Remaining(e)
        BY <1>1, <1>2, <2>2 DEF ChunkSize, Lesser
    <2> QED
        BY <1>2, <2>1, <2>3
<1>5. Chunk(e) = SubSeq(buf[e], lo + 1, lo + size)
    <2>1. SliceIndex(buf[e], lo) = lo /\ SliceIndex(buf[e], lo + size) = lo + size
        BY <1>1, <1>4 DEF SliceIndex, Lesser
    <2> QED
        BY <1>3, <1>4, <2>1 DEF Chunk, PySlice
<1>6. Len(SubSeq(buf[e], lo + 1, lo + size)) = size
    <2>1. lo + size \in Nat /\ lo + size <= Len(buf[e])
        BY <1>1, <1>4
    <2> QED
        BY <1>1, <2>1
<1>7. nextSeq[e] + size <= FlushEndsAt(e)
    <2>1. lo + size <= Window /\ lo + size <= Len(buf[e])
        BY <1>1, <1>4
    <2>2. PICK most \in Nat : most = Lesser(Window, Len(buf[e])) /\ lo + size <= most
        BY <1>1, <2>1 DEF Lesser
    <2>3. FlushEndsAt(e) = unacked[e] + most
        BY <2>2 DEF FlushEndsAt
    <2>4. PICK base \in Nat : base = unacked[e]
        BY <1>1
    <2>5. nextSeq[e] = base + lo /\ FlushEndsAt(e) = base + most
        BY <1>3, <2>3, <2>4
    <2>6. (base + lo) + size <= base + most
        BY <2>2
    <2> QED
        BY <2>5, <2>6
<1> QED
    BY <1>2, <1>5, <1>6, <1>7

LEMMA FlushSendWindow ==
    ASSUME TypeOK, TypeOK', StreamInv, WindowInv, ~Backpressure, NEW e \in Ends,
           NEW t \in FlushTasks, FlushSend(e, t)
    PROVE  WindowInv'
<1>1. SameSender(Peer(e)) /\ UNCHANGED <<buf, unacked, flushing, recvSeq, rx>>
    BY PeerSame DEF FlushStep, FlushSend, recvVars
<1>2. /\ flushing[e][t] > 0 /\ ~FlushStops(e)
      /\ FlushHolds(e) /\ SendsWithin(e)
    BY DEF FlushSend, WindowInv
<1>3. running'[e] = t /\ running[e] = t
    <2>1. running' = [running EXCEPT ![e] = t]
        BY DEF FlushSend, AfterSend
    <2> QED
        BY <1>2, <2>1 DEF FlushHolds, TypeOK
<1>4. FlushHolds(e)'
    BY <1>1, <1>2, <1>3 DEF FlushHolds
<1>5. /\ Len(Chunk(e)) \in Nat /\ ChunkSeq(e) = nextSeq[e]
      /\ nextSeq[e] + Len(Chunk(e)) <= FlushEndsAt(e)
    BY <1>2, ChunkFits
<1>6. nextSeq'[e] = nextSeq[e] + Len(Chunk(e))
    BY DEF FlushSend, TypeOK
<1>7. FlushEndsAt(e)' = FlushEndsAt(e) /\ Reach(e)' = FlushEndsAt(e)
      /\ Reach(e) = FlushEndsAt(e)
    BY <1>1, <1>2 DEF FlushEndsAt, Reach, Flushes
<1>8. SendsWithin(e)'
    <2>1. nextSeq[e] \in Nat /\ unacked[e] \in Nat
        BY DEF TypeOK
    <2> QED
        BY <1>1, <1>2, <1>5, <1>6, <1>7, <2>1 DEF SendsWithin
<1>9. PICK p : p = DataPacket(ChunkSeq(e), recvSeq[e], Chunk(e))
    OBVIOUS
<1>10. p \in Packets /\ p.seq + Len(p.data) <= FlushEndsAt(e)
    <2>1. p \in Packets
        BY <1>2, <1>9, ChunkType, SizesAssumption, PacketType DEF TypeOK
    <2> QED
        BY <1>5, <1>9, <2>1 DEF DataPacket
<1>11. chan' = Put(chan, e, p)
    BY <1>9 DEF FlushSend
<1>12. \A d \in Ends : \A i \in 1..Len(chan'[d]) :
            \/ \E j \in 1..Len(chan[d]) : chan'[d][i] = chan[d][j]
            \/ d = e /\ chan'[d][i] = p
    <2>1. chan \in [Ends -> Seq(Packets)]
        BY DEF TypeOK
    <2>2. \A d \in Ends : \A i \in 1..Len(Put(chan, e, p)[d]) :
            \/ d = e /\ Put(chan, e, p)[d][i] = p
            \/ \E j \in 1..Len(chan[d]) : Put(chan, e, p)[d][i] = chan[d][j]
        BY <1>10, <2>1, PutFacts
    <2> QED
        BY <1>11, <2>2
<1>13. NewWithin(e, p)
    BY <1>7, <1>10 DEF NewWithin
<1>14. Reach(e) <= Reach(e)'
    BY <1>7, ReachTypes
<1> QED
    BY <1>1, <1>4, <1>8, <1>12, <1>13, <1>14, WindowFrame

(* A flush ends where it was to.                                           *)
LEMMA FlushDone ==
    ASSUME TypeOK, TypeOK', WindowInv, NEW e \in Ends, NEW t \in FlushTasks,
           SameSender(Peer(e)), recvSeq'[Peer(e)] = recvSeq[Peer(e)],
           flushing[e][t] > 0, FlushStops(e), UNCHANGED <<unacked, nextSeq, buf>>,
           flushing'[e] \in {[flushing[e] EXCEPT ![t] = @ - 1], [flushing[e] EXCEPT ![t] = 0]},
           recvSeq'[e] = recvSeq[e] \/ recvSeq'[e] <= Reach(Peer(e)),
           rx'[e] = rx[e] \/ rx'[e].kind # "data",
           NoNewData(chan')
    PROVE  WindowInv'
<1>1. FlushHolds(e) /\ SendsWithin(e)
    BY DEF WindowInv
<1>2. flushing[e] \in [FlushTasks -> Nat]
    BY DEF TypeOK
<1>3. flushing[e][t] = 1 /\ \A s \in FlushTasks : s # t => flushing[e][s] = 0
    BY <1>1, <1>2 DEF FlushHolds
<1>4. \A s \in FlushTasks : flushing'[e][s] = 0
    BY <1>2, <1>3
<1>5. nextSeq[e] = FlushEndsAt(e)
    <2>1. /\ unacked[e] \in Nat /\ nextSeq[e] \in Nat /\ Len(buf[e]) \in Nat
          /\ Window \in Nat
        BY ReachTypes, SizesAssumption
    <2>2. nextSeq[e] >= unacked[e] + Len(buf[e]) \/ nextSeq[e] >= unacked[e] + Window
        BY <2>1 DEF FlushStops, Remaining, Available, InFlight
    <2> QED
        BY <1>1, <2>1, <2>2 DEF SendsWithin, FlushEndsAt, Lesser
<1>6. "recv" \in FlushTasks
    BY DEF FlushTasks
<1>7. FlushHolds(e)' /\ Reach(e)' = nextSeq[e] /\ Reach(e) = nextSeq[e]
    BY <1>3, <1>4, <1>5, <1>6 DEF FlushHolds, Reach, Flushes
<1>8. SendsWithin(e)'
    BY <1>1 DEF SendsWithin, FlushEndsAt
<1>9. Reach(e) <= Reach(e)'
    BY <1>7, ReachTypes
<1>10. rx'[e] = rx[e] \/ Within(Peer(e), rx'[e])
    BY DEF Within
<1> QED
    BY <1>7, <1>8, <1>9, <1>10, WindowFrame DEF NoNewData

LEMMA FlushEndWindow ==
    ASSUME TypeOK, TypeOK', StreamInv, WindowInv, NEW e \in Ends, NEW t \in FlushTasks,
           FlushEnd(e, t)
    PROVE  WindowInv'
<1>1. SameSender(Peer(e)) /\ recvSeq'[Peer(e)] = recvSeq[Peer(e)]
    BY PeerSame DEF FlushStep
<1>2. /\ flushing[e][t] > 0 /\ FlushStops(e)
      /\ UNCHANGED <<unacked, nextSeq, buf, recvSeq, chan>>
    BY DEF FlushEnd, netVars
<1>3. flushing' = [flushing EXCEPT ![e][t] = @ - 1]
      /\ (rx' = rx \/ rx' = [rx EXCEPT ![e] = NoPacket])
    BY DEF FlushEnd
<1>4. flushing'[e] = [flushing[e] EXCEPT ![t] = @ - 1]
      /\ (rx'[e] = rx[e] \/ rx'[e].kind # "data")
    <2>1. DOMAIN flushing = Ends /\ DOMAIN rx = Ends
        BY DEF TypeOK
    <2>2. flushing'[e] = [flushing[e] EXCEPT ![t] = @ - 1]
        BY <1>3, <2>1
    <2>3. rx'[e] = rx[e] \/ rx'[e] = NoPacket
        BY <1>3, <2>1
    <2> QED
        BY <2>2, <2>3, PacketType DEF NoPacket, Control
<1>5. NoNewData(chan')
    BY <1>2, NoNewDataFacts
<1> QED
    BY <1>1, <1>2, <1>4, <1>5, FlushDone

LEMMA FlushEndDeliverWindow ==
    ASSUME TypeOK, TypeOK', StreamInv, WindowInv, NEW e \in Ends, FlushEndDeliver(e)
    PROVE  WindowInv'
<1>1. SameSender(Peer(e)) /\ recvSeq'[Peer(e)] = recvSeq[Peer(e)]
    BY PeerSame
<1>2. /\ flushing[e]["recv"] > 0 /\ FlushStops(e) /\ rx[e].kind = "data"
      /\ UNCHANGED <<unacked, nextSeq, buf>>
      /\ HandleSequence(e, rx[e], chan)
    BY DEF FlushEndDeliver
<1>3. /\ flushing' = [flushing EXCEPT ![e]["recv"] = 0]
      /\ rx' = [rx EXCEPT ![e] = NoPacket]
    BY DEF FlushEndDeliver
<1>4. flushing'[e] = [flushing[e] EXCEPT !["recv"] = 0] /\ rx'[e].kind # "data"
    <2>1. DOMAIN flushing = Ends /\ DOMAIN rx = Ends
        BY DEF TypeOK
    <2>2. flushing'[e] = [flushing[e] EXCEPT !["recv"] = 0]
        BY <1>3, <2>1
    <2>3. rx'[e] = NoPacket
        BY <1>3, <2>1
    <2> QED
        BY <2>2, <2>3, PacketType DEF NoPacket, Control
<1>5. /\ recvSeq'[e] = recvSeq[e] \/ recvSeq'[e] <= Reach(Peer(e))
      /\ chan' = chan \/ \E ack \in Nat : chan' = Put(chan, e, Control("ack", ack))
    BY <1>2, HandledWithin, SequenceWithin
<1>6. NoNewData(chan')
    BY <1>5, NoNewDataFacts
<1>7. "recv" \in FlushTasks
    BY DEF FlushTasks
<1> QED
    BY <1>1, <1>2, <1>4, <1>5, <1>6, <1>7, FlushDone

(* Losses, the passing of time and stuttering.                             *)
LEMMA OtherWindow ==
    ASSUME TypeOK, TypeOK', StreamInv, WindowInv, NEW e \in Ends,
           Lose(e) \/ NextInterval \/ UNCHANGED vars
    PROVE  WindowInv'
<1>1. UNCHANGED <<unacked, nextSeq, buf, flushing, running, rx, recvSeq>>
    BY DEF Lose, NextInterval, vars, sendVars, recvVars
<1>2. \A d \in Ends : \A i \in 1..Len(chan'[d]) :
        \E j \in 1..Len(chan[d]) : chan'[d][i] = chan[d][j]
    <2>1. CASE Lose(e)
        <3> DEFINE q == chan[e]
        <3>1. PICK i \in 1..Len(q) :
                chan' = [chan EXCEPT ![e] = SubSeq(q, 1, i - 1) \o SubSeq(q, i + 1, Len(q))]
            BY <2>1 DEF Lose
        <3>2. q \in Seq(Packets) /\ DOMAIN chan = Ends
            BY DEF TypeOK
        <3> DEFINE r == SubSeq(q, 1, i - 1) \o SubSeq(q, i + 1, Len(q))
        <3>3. \A k \in 1..Len(r) : \E j \in 1..Len(q) : r[k] = q[j]
            BY <3>2, RemoveFacts
        <3>4. chan'[e] = r /\ \A d \in Ends : d # e => chan'[d] = chan[d]
            BY <3>1, <3>2
        <3> HIDE DEF r
        <3> QED
            BY <3>3, <3>4
    <2>2. CASE NextInterval \/ UNCHANGED vars
        <3>1. chan' = chan
            BY <2>2 DEF NextInterval, vars, netVars
        <3> QED
            BY <3>1
    <2> QED
        BY <2>1, <2>2
<1>3. SameSender(Peer(e))
    BY <1>1 DEF SameSender
<1>4. FlushHolds(e)' /\ SendsWithin(e)' /\ Reach(e)' = Reach(e)
    BY <1>1 DEF WindowInv, FlushHolds, SendsWithin, FlushEndsAt, Reach, Flushes
<1>5. Reach(e) <= Reach(e)'
    BY <1>4, ReachTypes
<1> QED
    BY <1>1, <1>2, <1>3, <1>4, <1>5, WindowFrame

LEMMA WindowInit == Init => WindowInv
<1> SUFFICES ASSUME Init, NEW e \in Ends
             PROVE  FlushHolds(e) /\ SendsWithin(e) /\ ReceivedWithin(e)
    BY DEF WindowInv
<1>1. /\ Peer(e) \in Ends /\ chan[e] = <<>> /\ rx[e] = NoPacket
      /\ rx[Peer(e)] = NoPacket /\ buf[e] = <<>> /\ unacked[e] = 0 /\ nextSeq[e] = 0
      /\ recvSeq[Peer(e)] = 0 /\ flushing[e] = [t \in FlushTasks |-> 0]
    BY PeerFacts DEF Init
<1>2. FlushHolds(e) /\ ~Flushes(e)
    BY <1>1 DEF FlushHolds, Flushes, FlushTasks
<1>3. FlushEndsAt(e) = 0
    BY <1>1, SizesAssumption DEF FlushEndsAt, Lesser
<1> QED
    BY <1>1, <1>2, <1>3, PacketType DEF SendsWithin, ReceivedWithin, Reach, Within

LEMMA WindowStep ==
    ASSUME ~Backpressure, MaxFail = 0, TypeOK, StreamInv, WindowInv, [Next]_vars
    PROVE  WindowInv'
<1>1. TypeOK'
    BY TypeStep
<1>2. ASSUME NEW e \in Ends, SendDataStart(e) PROVE WindowInv'
    BY <1>1, <1>2, SendDataWindow, StillActions
<1>3. ASSUME NEW e \in Ends, TimerTick(e) PROVE WindowInv'
    BY <1>1, <1>3, RetransmitWindow, StillActions DEF TimerTick
<1>4. ASSUME NEW e \in Ends, NEW t \in FlushTasks, FlushStep(e, t) PROVE WindowInv'
    <2>1. ~FlushRaise(e, t)
        BY DEF FlushRaise, TypeOK
    <2> QED
        BY <1>1, <1>4, <2>1, FlushSendWindow, FlushEndWindow DEF FlushStep
<1>5. ASSUME NEW e \in Ends, Receive(e) PROVE WindowInv'
    BY <1>1, <1>5, NewAckWindow, StillActions DEF Receive
<1>6. ASSUME NextInterval \/ UNCHANGED vars PROVE WindowInv'
    <2>1. "client" \in Ends
        BY DEF Ends
    <2> QED
        BY <1>1, <1>6, <2>1, OtherWindow
<1>7. ASSUME NEW e \in Ends, Program(e) \/ RecvCloseFinish(e) \/ CloseStep(e)
      PROVE  WindowInv'
    BY <1>1, <1>7, StillActions
<1>8. ASSUME NEW e \in Ends, FlushEndDeliver(e) \/ Lose(e) PROVE WindowInv'
    BY <1>1, <1>8, FlushEndDeliverWindow, OtherWindow
<1> QED
    BY <1>2, <1>3, <1>4, <1>5, <1>6, <1>7, <1>8 DEF Next

(* Where no send suspends or raises, for any window, chunk and bounds and  *)
(* whatever is lost: send_next_seq stays inside the peer's window.         *)
THEOREM WindowIsRespected ==
    ASSUME ~Backpressure, MaxFail = 0 PROVE Spec => []WindowRespected
<1>1. Init => WindowInv
    BY WindowInit
<1>2. TypeOK /\ StreamInv /\ WindowInv /\ [Next]_vars => WindowInv'
    BY WindowStep
<1>3. TypeOK /\ WindowInv => WindowRespected
    <2> SUFFICES ASSUME TypeOK, WindowInv, NEW e \in Ends
                 PROVE  unacked[e] <= nextSeq[e] /\ nextSeq[e] <= unacked[e] + Window
        BY DEF WindowRespected
    <2>1. /\ unacked[e] \in Nat /\ nextSeq[e] \in Nat /\ Len(buf[e]) \in Nat
          /\ Window \in Nat /\ SendsWithin(e)
        BY ReachTypes, SizesAssumption DEF WindowInv
    <2> QED
        BY <2>1 DEF SendsWithin, FlushEndsAt, Lesser
<1> QED
    BY <1>1, <1>2, <1>3, TypeCorrect, StreamSafe, PTL DEF Spec

-------------------------------------------------------------------------------
(* Keeping a connection alive.                                             *)

(* How long an end has heard nothing is made up of the packets lost so far,*)
(* its own tick of this interval, and one interval in which the peer has   *)
(* not spoken yet: it has not ticked, its tick goes back and sends next,   *)
(* or what it sent is still under way.                                     *)
Owes(e) == running[e] = "timer" /\ nextSeq[e] = unacked[e] /\ buf[e] # <<>>
Spoken(e) == e \in ticked /\ chan[e] = <<>> /\ ~Owes(e)
One(condition) == IF condition THEN 1 ELSE 0
IdleBound(e) == lost + One(e \in ticked) + One(~Spoken(Peer(e)))

NoClose(c) == \A d \in Ends : \A i \in 1..Len(c[d]) : c[d][i].kind # "close"
Untouched == \A e \in Ends :
    state[e] = "OPEN" /\ timer[e] = "running" /\ closeTask[e] = "none"
NobodyWillClose ==
    /\ \A e \in Ends : \A i \in 1..Len(ready[e]) : ready[e][i].kind = "send"
    /\ NoClose(chan)
    /\ \A e \in Ends : rx[e].kind # "close"
AllHeard == \A e \in Ends : idle[e] <= IdleBound(e)

Alive == Untouched /\ NobodyWillClose /\ AllHeard
AliveInv == NobodyCloses => Alive

LEMMA BoundType ==
    ASSUME TypeOK, NEW e \in Ends
    PROVE  IdleBound(e) \in Nat /\ idle[e] \in Nat /\ lost \in Nat
<1>1. lost \in Nat /\ idle[e] \in Nat
    BY SizesAssumption, BoundsAssumption DEF TypeOK, SizesAssumption, BoundsAssumption
<1>2. \A c : One(c) \in Nat
    BY DEF One
<1> QED
    BY <1>1, <1>2 DEF IdleBound

LEMMA PutGrows ==
    ASSUME NEW c \in [Ends -> Seq(Packets)], NEW e \in Ends, NEW p \in Packets, ChanCap > 0
    PROVE  Put(c, e, p)[Peer(e)] = c[Peer(e)] /\ Put(c, e, p)[e] # <<>>
<1>1. Peer(e) \in Ends /\ Peer(e) # e /\ c[e] \in Seq(Packets)
    BY PeerFacts
<1>2. CASE Len(c[e]) < ChanCap
    <2>1. Put(c, e, p) = [c EXCEPT ![e] = Append(c[e], p)]
        BY <1>2 DEF Put
    <2>2. Append(c[e], p) # <<>>
        BY <1>1
    <2> QED
        BY <1>1, <2>1, <2>2
<1>3. CASE ~(Len(c[e]) < ChanCap)
    <2>1. Put(c, e, p) = c
        BY <1>3 DEF Put
    <2>2. c[e] # <<>>
        BY <1>3, BoundsAssumption
    <2> QED
        BY <2>1, <2>2
<1> QED
    BY <1>2, <1>3

(* What an end's step leaves in the channels.                              *)
LEMMA NoCloseFacts ==
    ASSUME TypeOK, StreamInv, NoClose(chan), NEW e \in Ends, ChanCap > 0
    PROVE  /\ \A p \in Packets : p.kind # "close" => NoClose(Put(chan, e, p))
           /\ chan[Peer(e)] # <<>> =>
                /\ NoClose(Taken(e)) /\ Taken(e)[e] = chan[e]
                /\ \A p \in Packets : p.kind # "close" =>
                    NoClose(Put(Taken(e), e, p)) /\ Put(Taken(e), e, p)[e] # <<>>
                /\ Head(chan[Peer(e)]) \in Packets /\ Head(chan[Peer(e)]).kind # "close"
<1>1. ASSUME NEW c, Carried(c), NoClose(c), NEW p \in Packets, p.kind # "close"
      PROVE  NoClose(Put(c, e, p))
    <2>1. \A d \in Ends : \A i \in 1..Len(Put(c, e, p)[d]) :
            \/ d = e /\ Put(c, e, p)[d][i] = p
            \/ \E j \in 1..Len(c[d]) : Put(c, e, p)[d][i] = c[d][j]
        BY <1>1, PutFacts DEF Carried
    <2> QED
        BY <1>1, <2>1 DEF NoClose
<1>2. Carried(chan) /\ chan \in [Ends -> Seq(Packets)] /\ Peer(e) \in Ends /\ Peer(e) # e
    BY CarriedFacts, PeerFacts DEF Carried
<1>3. ASSUME chan[Peer(e)] # <<>>
      PROVE  /\ Carried(Taken(e)) /\ NoClose(Taken(e)) /\ Taken(e)[e] = chan[e]
             /\ Head(chan[Peer(e)]) \in Packets /\ Head(chan[Peer(e)]).kind # "close"
    <2>1. Carried(Taken(e))
        BY <1>3, CarriedFacts
    <2>2. NoClose(Taken(e))
        <3> SUFFICES ASSUME NEW d \in Ends, NEW i \in 1..Len(Taken(e)[d])
                     PROVE  Taken(e)[d][i].kind # "close"
            BY DEF NoClose
        <3>1. PICK j \in 1..Len(chan[d]) : Taken(e)[d][i] = chan[d][j]
            BY <2>1 DEF Carried
        <3> QED
            BY <3>1 DEF NoClose
    <2>3. /\ Head(chan[Peer(e)]) \in Packets /\ 1 \in 1..Len(chan[Peer(e)])
          /\ Head(chan[Peer(e)]) = chan[Peer(e)][1]
        BY <1>2, <1>3, TakenFacts
    <2>4. Taken(e)[e] = chan[e]
        BY <1>2 DEF Taken
    <2> QED
        BY <1>2, <2>1, <2>2, <2>3, <2>4 DEF NoClose
<1>4. ASSUME chan[Peer(e)] # <<>>, NEW p \in Packets, p.kind # "close"
      PROVE  NoClose(Put(Taken(e), e, p)) /\ Put(Taken(e), e, p)[e] # <<>>
    BY <1>1, <1>3, <1>4, PutGrows DEF Carried
<1> QED
    BY <1>1, <1>2, <1>3, <1>4

(* A step of e within an interval: it sends, or takes what the peer sent,  *)
(* but is not lost, and a tick that owes a packet goes on to owe it until  *)
(* it has sent one.                                                        *)
LEMMA EndStep ==
    ASSUME TypeOK, TypeOK', Alive, NEW e \in Ends,
           UNCHANGED <<state, timer, closeTask, ticked, lost>>,
           NobodyWillClose',
           \/ chan'[Peer(e)] = chan[Peer(e)] /\ idle' = idle
           \/ idle' = [idle EXCEPT ![e] = 0],
           Owes(Peer(e))' <=> Owes(Peer(e)),
           Owes(e) => Owes(e)' \/ chan'[e] # <<>>,
           chan[e] # <<>> => chan'[e] # <<>>
    PROVE  Alive'
<1> DEFINE o == Peer(e)
<1>1. o \in Ends /\ o # e /\ Peer(o) = e /\ \A d \in Ends : d = e \/ d = o
    BY PeerFacts
<1>2. IdleBound(e)' \in Nat /\ \A d \in Ends : IdleBound(d) \in Nat /\ idle[d] \in Nat
    <2>1. lost' \in Nat
        BY BoundsAssumption DEF TypeOK
    <2> QED
        BY <2>1, BoundType DEF IdleBound, One
<1>3. idle'[e] <= IdleBound(e)'
    <2>1. CASE chan'[o] = chan[o] /\ idle' = idle
        <3>1. Spoken(o)' <=> Spoken(o)
            BY <2>1 DEF Spoken
        <3> QED
            BY <2>1, <3>1 DEF Alive, AllHeard, IdleBound
    <2>2. CASE idle' = [idle EXCEPT ![e] = 0]
        <3>1. idle'[e] = 0
            BY <2>2 DEF TypeOK
        <3> QED
            BY <1>2, <3>1
    <2> QED
        BY <2>1, <2>2
<1>4. idle'[o] <= IdleBound(o)'
    <2>1. idle'[o] = idle[o]
        <3>1. DOMAIN idle = Ends
            BY DEF TypeOK
        <3> QED
            BY <1>1, <3>1
    <2>2. Spoken(e)' => Spoken(e)
        BY DEF Spoken
    <2>3. IdleBound(o) = lost + One(o \in ticked) + One(~Spoken(e))
          /\ IdleBound(o)' = lost + One(o \in ticked) + One(~Spoken(e)')
        BY <1>1 DEF IdleBound
    <2>4. /\ One(~Spoken(e)) \in Nat /\ One(~Spoken(e)') \in Nat /\ One(o \in ticked) \in Nat
          /\ One(~Spoken(e)) <= One(~Spoken(e)') /\ lost \in Nat
        BY <1>1, <2>2, BoundType DEF One
    <2>5. idle[o] <= IdleBound(o)
        BY <1>1 DEF Alive, AllHeard
    <2> QED
        BY <1>1, <1>2, <2>1, <2>3, <2>4, <2>5
<1> QED
    BY <1>1, <1>3, <1>4 DEF Alive, AllHeard, Untouched

LEMMA AliveProgram ==
    ASSUME TypeOK, TypeOK', Alive, NobodyCloses', NEW e \in Ends, Program(e)
    PROVE  Alive'
<1>1. CASE Write(e)
    <2>1. PICK task \in TaskRecords :
            ready' = [ready EXCEPT ![e] = Append(@, task)] /\ task.kind = "send"
        <3>1. PICK n \in 1..Lesser(MaxWrite, WriteLimit[e] - written[e]) :
                ready' = [ready EXCEPT ![e] =
                            Append(@, SendTask(written[e], written[e] + n))]
            BY <1>1 DEF Write
        <3>2. n \in Nat /\ written[e] \in Nat
            <4>1. n \in Int /\ n >= 1
                OBVIOUS
            <4> QED
                BY <4>1 DEF TypeOK
        <3>3. PICK task : task = SendTask(written[e], written[e] + n)
            OBVIOUS
        <3>4. task \in TaskRecords /\ task.kind = "send"
            BY <3>2, <3>3 DEF SendTask, TaskRecords
        <3> QED
            BY <3>1, <3>3, <3>4
    <2>2. ready \in [Ends -> Seq(TaskRecords)]
        BY DEF TypeOK, TaskRecords
    <2>3. ASSUME NEW d \in Ends, NEW i \in 1..Len(ready'[d]) PROVE ready'[d][i].kind = "send"
        <3>1. CASE d = e
            <4>1. ready'[e] = Append(ready[e], task) /\ ready[e] \in Seq(TaskRecords)
                BY <2>1, <2>2
            <4>2. ready'[e][i] = task \/ (i \in 1..Len(ready[e]) /\ ready'[e][i] = ready[e][i])
                BY <3>1, <4>1
            <4> QED
                BY <2>1, <3>1, <4>2 DEF Alive, NobodyWillClose
        <3>2. CASE d # e
            <4>1. ready'[d] = ready[d]
                BY <2>1, <2>2, <3>2
            <4> QED
                BY <4>1 DEF Alive, NobodyWillClose
        <3> QED
            BY <3>1, <3>2
    <2>4. UNCHANGED <<sendVars, recvVars, lifeVars, timeVars, netVars, running>>
        BY <1>1 DEF Write
    <2>5. NobodyWillClose'
        BY <2>3, <2>4 DEF Alive, NobodyWillClose, NoClose, recvVars, netVars
    <2>6. Owes(Peer(e))' = Owes(Peer(e)) /\ Owes(e)' = Owes(e)
        BY <2>4 DEF Owes, sendVars
    <2> QED
        BY <2>4, <2>5, <2>6, EndStep DEF lifeVars, timeVars, netVars
<1>2. CASE Close(e)
    BY <1>2 DEF Close, NobodyCloses, TypeOK
<1> QED
    BY <1>1, <1>2 DEF Program

LEMMA AliveSend ==
    ASSUME TypeOK, TypeOK', Alive, NEW e \in Ends, SendDataStart(e)
    PROVE  Alive'
<1>1. MaySend(e) /\ Idle(e) /\ ready[e] # <<>>
    BY DEF Alive, Untouched, MaySend, SendDataStart
<1>2. /\ ready' = [ready EXCEPT ![e] = Tail(@)]
      /\ UNCHANGED <<unacked, nextSeq, rx, chan, lost, state, timer, closeTask, idle, ticked>>
    BY DEF SendDataStart, recvVars, lifeVars, timeVars, netVars
<1>3. \A d \in Ends : d # e => buf'[d] = buf[d] /\ running'[d] = running[d]
    <2>1. PICK b : /\ buf' = [buf EXCEPT ![e] = b]
                   /\ running' = [running EXCEPT ![e] = "send"]
        BY <1>1 DEF SendDataStart
    <2>2. DOMAIN buf = Ends /\ DOMAIN running = Ends
        BY DEF TypeOK
    <2> QED
        BY <2>1, <2>2
<1>7. NobodyWillClose'
    <2>1. ready \in [Ends -> Seq(TaskRecords)]
        BY DEF TypeOK, TaskRecords
    <2>2. ASSUME NEW d \in Ends, NEW i \in 1..Len(ready'[d]) PROVE ready'[d][i].kind = "send"
        <3>1. CASE d = e
            <4>1. ready'[e] = Tail(ready[e]) /\ ready[e] \in Seq(TaskRecords)
                BY <1>2, <2>1
            <4>2. i + 1 \in 1..Len(ready[e]) /\ ready'[e][i] = ready[e][i + 1]
                BY <1>1, <3>1, <4>1
            <4> QED
                BY <3>1, <4>2 DEF Alive, NobodyWillClose
        <3>2. CASE d # e
            <4>1. ready'[d] = ready[d]
                BY <1>2, <2>1, <3>2
            <4> QED
                BY <4>1 DEF Alive, NobodyWillClose
        <3> QED
            BY <3>1, <3>2
    <2> QED
        BY <1>2, <2>2 DEF Alive, NobodyWillClose, NoClose
<1>8. (Owes(Peer(e))' <=> Owes(Peer(e))) /\ ~Owes(e)
    BY <1>1, <1>2, <1>3, PeerFacts DEF Owes, Idle
<1> QED
    BY <1>2, <1>7, <1>8, PeerFacts, EndStep

(* e handles a packet; its channel may gain an acknowledgement.            *)
LEMMA AliveReceives ==
    ASSUME TypeOK, TypeOK', StreamInv, Alive, ChanCap > 0, MaxFail = 0,
           NEW e \in Ends, Receive(e)
    PROVE  Alive'
<1>1. state[e] = "OPEN" /\ NoClose(chan)
    BY DEF Alive, Untouched, NobodyWillClose
<1>2. chan[Peer(e)] # <<>> /\ Idle(e) /\ idle' = [idle EXCEPT ![e] = 0]
    BY <1>1 DEF Receive, RecvIgnored, RecvNewAck, RecvNoAck, RecvCloseClosing, RecvCloseOpen,
        Receiving, Heard
<1>3. /\ NoClose(Taken(e)) /\ Taken(e)[e] = chan[e]
      /\ \A p \in Packets : p.kind # "close" =>
            NoClose(Put(Taken(e), e, p)) /\ Put(Taken(e), e, p)[e] # <<>>
      /\ Head(chan[Peer(e)]).kind # "close"
    BY <1>1, <1>2, NoCloseFacts
<1>4. ~Owes(e)
    BY <1>2 DEF Idle, Owes
<1>5. CASE RecvNewAck(e)
    <2>1. /\ UNCHANGED <<nextSeq, ready, state, timer, closeTask, ticked, lost>>
          /\ chan' = Taken(e)
        BY <1>5 DEF RecvNewAck, lifeVars
    <2>2. /\ rx' = [rx EXCEPT ![e] = Head(chan[Peer(e)])]
          /\ running' = [running EXCEPT ![e] = "recv"]
        BY <1>5 DEF RecvNewAck, TakeAck
    <2>3. \A d \in Ends : d # e => /\ buf'[d] = buf[d] /\ unacked'[d] = unacked[d]
                                   /\ running'[d] = running[d]
        BY <1>5, <2>2 DEF RecvNewAck, TakeAck, TypeOK
    <2>6. \A d \in Ends : rx'[d].kind # "close"
        <3>1. \A d \in Ends : rx'[d] = rx[d] \/ rx'[d] = Head(chan[Peer(e)])
            BY <2>2 DEF TypeOK
        <3> QED
            BY <1>3, <3>1 DEF Alive, NobodyWillClose
    <2>7. NobodyWillClose'
        BY <1>3, <2>1, <2>6 DEF Alive, NobodyWillClose
    <2>8. Owes(Peer(e))' <=> Owes(Peer(e))
        BY <2>1, <2>3, PeerFacts DEF Owes
    <2> QED
        BY <1>2, <1>3, <1>4, <2>1, <2>7, <2>8, EndStep
<1>6. CASE RecvNoAck(e)
    <2>1. UNCHANGED <<buf, unacked, nextSeq, running, rx, ready, state, timer, closeTask,
                      ticked, lost>>
        BY <1>6 DEF RecvNoAck, sendVars, appVars, lifeVars
    <2>2. /\ NoClose(chan')
          /\ chan[e] # <<>> => chan'[e] # <<>>
        <3>1. \/ chan' = Taken(e)
              \/ LastSend(Taken(e), e, Control("ack", recvSeq'[e])) /\ recvSeq'[e] \in Nat
            BY <1>6, Zenon DEF RecvNoAck, HandleSequence, TypeOK
        <3>2. CASE chan' = Taken(e)
            BY <1>3, <3>2
        <3>3. ASSUME LastSend(Taken(e), e, Control("ack", recvSeq'[e])), recvSeq'[e] \in Nat
              PROVE  NoClose(chan') /\ chan'[e] # <<>>
            <4>1. PICK p : p = Control("ack", recvSeq'[e])
                OBVIOUS
            <4>2. p \in Packets /\ p.kind # "close"
                BY <3>3, <4>1, PacketType DEF Control
            <4>3. chan' = Put(Taken(e), e, p)
                BY <3>3, <4>1, BoundsAssumption DEF LastSend, TypeOK
            <4> QED
                BY <1>3, <4>2, <4>3
        <3> QED
            BY <3>1, <3>2, <3>3
    <2>3. NobodyWillClose'
        BY <2>1, <2>2 DEF Alive, NobodyWillClose
    <2>4. \A d \in Ends : Owes(d)' <=> Owes(d)
        BY <2>1 DEF Owes
    <2> QED
        BY <1>2, <1>4, <2>1, <2>2, <2>3, <2>4, PeerFacts, EndStep
<1>7. CASE RecvIgnored(e) \/ RecvCloseClosing(e) \/ RecvCloseOpen(e)
    BY <1>1, <1>3, <1>7 DEF RecvIgnored, RecvCloseClosing, RecvCloseOpen, Receiving
<1> QED
    BY <1>5, <1>6, <1>7 DEF Receive

LEMMA AliveDelivers ==
    ASSUME TypeOK, TypeOK', StreamInv, Alive, ChanCap > 0, MaxFail = 0,
           NEW e \in Ends, FlushEndDeliver(e)
    PROVE  Alive'
<1>1. /\ UNCHANGED <<buf, unacked, nextSeq, ready, state, timer, closeTask, idle, ticked, lost>>
      /\ MayRun(e, "recv") /\ running' = [running EXCEPT ![e] = "none"]
      /\ rx' = [rx EXCEPT ![e] = NoPacket]
    BY DEF FlushEndDeliver, appVars, lifeVars, timeVars
<1>2. (Owes(Peer(e))' <=> Owes(Peer(e))) /\ ~Owes(e)
    BY <1>1, PeerFacts DEF Owes, MayRun, TypeOK
<1>3. \A d \in Ends : rx'[d].kind # "close"
    <2>1. \A d \in Ends : rx'[d] = rx[d] \/ rx'[d] = NoPacket
        BY <1>1 DEF TypeOK
    <2>2. NoPacket.kind # "close"
        BY PacketType
    <2> QED
        BY <2>1, <2>2 DEF Alive, NobodyWillClose
<1>4. /\ NoClose(chan') /\ chan'[Peer(e)] = chan[Peer(e)]
      /\ chan[e] # <<>> => chan'[e] # <<>>
    <2>1. \/ chan' = chan
          \/ LastSend(chan, e, Control("ack", recvSeq'[e])) /\ recvSeq'[e] \in Nat
        BY Zenon DEF FlushEndDeliver, HandleSequence, TypeOK
    <2>2. chan \in [Ends -> Seq(Packets)] /\ NoClose(chan)
        BY DEF TypeOK, Alive, NobodyWillClose
    <2>3. ASSUME LastSend(chan, e, Control("ack", recvSeq'[e])), recvSeq'[e] \in Nat
          PROVE  NoClose(chan') /\ chan'[Peer(e)] = chan[Peer(e)] /\ chan'[e] # <<>>
        <3>1. PICK p : p = Control("ack", recvSeq'[e])
            OBVIOUS
        <3>2. p \in Packets /\ p.kind # "close"
            BY <2>3, <3>1, PacketType DEF Control
        <3>3. chan' = Put(chan, e, p)
            BY <2>3, <3>1, BoundsAssumption DEF LastSend, TypeOK
        <3> QED
            BY <2>2, <3>2, <3>3, NoCloseFacts, PutGrows
    <2> QED
        BY <2>1, <2>2, <2>3
<1>5. NobodyWillClose'
    BY <1>1, <1>3, <1>4 DEF Alive, NobodyWillClose
<1> QED
    BY <1>1, <1>2, <1>4, <1>5, EndStep

(* A flush of e.                                                           *)
LEMMA AliveFlush ==
    ASSUME TypeOK, TypeOK', StreamInv, Alive, ChanCap > 0, MaxFail = 0,
           NEW e \in Ends, NEW t \in FlushTasks, FlushStep(e, t)
    PROVE  Alive'
<1>1. ~FlushRaise(e, t)
    BY BoundsAssumption DEF FlushRaise, TypeOK
<1>2. \A d \in Ends : d # e => running'[d] = running[d]
    <2>1. PICK r : running' = [running EXCEPT ![e] = r]
        BY <1>1 DEF FlushStep, FlushSend, FlushEnd, AfterSend
    <2> QED
        BY <2>1 DEF TypeOK
<1>3. CASE FlushSend(e, t)
    <2>1. /\ UNCHANGED <<buf, unacked, rx, ready, state, timer, closeTask, idle, ticked, lost>>
          /\ nextSeq' = [nextSeq EXCEPT ![e] = @ + Len(Chunk(e))]
        BY <1>3 DEF FlushSend, recvVars, appVars, lifeVars, timeVars
    <2>2. PICK p : p = DataPacket(ChunkSeq(e), recvSeq[e], Chunk(e))
        OBVIOUS
    <2>3. p \in Packets /\ p.kind # "close"
        BY <1>3, <2>2, ChunkType, SizesAssumption, PacketType DEF FlushSend, TypeOK, DataPacket
    <2>4. chan' = Put(chan, e, p) /\ chan \in [Ends -> Seq(Packets)]
        BY <1>3, <2>2 DEF FlushSend, TypeOK
    <2>5. NoClose(chan') /\ chan'[Peer(e)] = chan[Peer(e)] /\ chan'[e] # <<>>
        BY <2>3, <2>4, NoCloseFacts, PutGrows DEF Alive, NobodyWillClose
    <2>6. NobodyWillClose'
        BY <2>1, <2>5 DEF Alive, NobodyWillClose
    <2>7. nextSeq'[Peer(e)] = nextSeq[Peer(e)]
        BY <2>1, PeerFacts DEF TypeOK
    <2>8. Owes(Peer(e))' <=> Owes(Peer(e))
        BY <1>2, <2>1, <2>7, PeerFacts DEF Owes
    <2> QED
        BY <2>1, <2>5, <2>6, <2>8, EndStep
<1>4. CASE FlushEnd(e, t)
    <2>1. /\ UNCHANGED <<buf, unacked, nextSeq, ready, state, timer, closeTask, idle, ticked,
                         lost, chan>>
          /\ FlushStops(e)
        BY <1>4 DEF FlushEnd, appVars, lifeVars, timeVars, netVars
    <2>2. \A d \in Ends : rx'[d].kind # "close"
        <3>1. \A d \in Ends : rx'[d] = rx[d] \/ rx'[d] = NoPacket
            <4>1. rx' = rx \/ rx' = [rx EXCEPT ![e] = NoPacket]
                BY <1>4 DEF FlushEnd
            <4>2. DOMAIN rx = Ends
                BY DEF TypeOK
            <4> QED
                BY <4>1, <4>2
        <3>2. NoPacket.kind # "close"
            BY PacketType
        <3> QED
            BY <3>1, <3>2 DEF Alive, NobodyWillClose
    <2>3. NobodyWillClose'
        BY <2>1, <2>2 DEF Alive, NobodyWillClose
    <2>4. Owes(Peer(e))' <=> Owes(Peer(e))
        BY <1>2, <2>1, PeerFacts DEF Owes
    <2>5. ~Owes(e)
        <3> SUFFICES ASSUME Owes(e) PROVE FALSE
            OBVIOUS
        <3>1. buf[e] # <<>> /\ nextSeq[e] = unacked[e]
            BY DEF Owes
        <3>2. Len(buf[e]) \in Nat /\ Len(buf[e]) > 0 /\ unacked[e] \in Nat
            <4>1. buf[e] \in Seq(Nat) /\ unacked[e] \in Nat
                BY DEF TypeOK
            <4> QED
                BY <3>1, <4>1
        <3>3. Remaining(e) = Len(buf[e]) /\ Available(e) = Window
            BY <3>1, <3>2, SizesAssumption DEF Remaining, Available, InFlight
        <3> QED
            BY <2>1, <3>2, <3>3, SizesAssumption DEF FlushStops
    <2> QED
        BY <2>1, <2>3, <2>4, <2>5, EndStep
<1> QED
    BY <1>1, <1>3, <1>4 DEF FlushStep

(* A tick speaks, or owes a packet.                                        *)
LEMMA AliveTick ==
    ASSUME TypeOK, TypeOK', StreamInv, Alive, ChanCap > 0, MaxFail = 0,
           MaxLost + 2 <= TimeoutTicks, NEW e \in Ends, TimerTick(e)
    PROVE  Alive'
<1> DEFINE o == Peer(e)
<1>1. o \in Ends /\ o # e /\ Peer(o) = e /\ \A d \in Ends : d = e \/ d = o
    BY PeerFacts
<1>2. Ticks(e) /\ state[e] = "OPEN"
    BY DEF TimerTick, TickTimeout, TickRetransmit, TickProbe, TickClosing, Alive, Untouched
<1>3. Idle(e) /\ e \notin ticked /\ ticked' = ticked \cup {e}
    BY <1>2 DEF Ticks
<1>4. \A d \in Ends : IdleBound(d) \in Nat /\ idle[d] \in Nat
    BY BoundType
<1>5. lost \in Nat /\ lost <= MaxLost /\ MaxLost \in Nat /\ TimeoutTicks \in Nat
    BY BoundsAssumption, SizesAssumption DEF TypeOK
<1>6. ~TickTimeout(e)
    <2>1. idle[e] <= IdleBound(e)
        BY DEF Alive, AllHeard
    <2>2. IdleBound(e) <= lost + 1
        BY <1>3, <1>5 DEF IdleBound, One
    <2> QED
        BY <1>4, <1>5, <2>1, <2>2 DEF TickTimeout, Silent
<1>7. ~TickClosing(e)
    BY <1>2 DEF TickClosing
<1>8. /\ UNCHANGED <<buf, unacked, rx, ready, state, closeTask, lost, timer>>
      /\ idle' = [idle EXCEPT ![e] = @ + 1]
    <2>1. CASE TickRetransmit(e)
        BY <2>1 DEF TickRetransmit, recvVars, appVars, lifeVars, netVars
    <2>2. CASE TickProbe(e)
        BY <2>2, BoundsAssumption DEF TickProbe, sendVars, recvVars, appVars, lifeVars, TypeOK
    <2> QED
        BY <1>6, <1>7, <2>1, <2>2 DEF TimerTick
<1>9. /\ NoClose(chan') /\ chan'[o] = chan[o]
      /\ Owes(o)' <=> Owes(o)
      /\ chan'[e] # <<>> \/ Owes(e)'
    <2>1. CASE TickRetransmit(e)
        <3>1. /\ chan' = chan /\ buf[e] # <<>>
              /\ nextSeq' = [nextSeq EXCEPT ![e] = unacked[e]]
              /\ running' = [running EXCEPT ![e] = "timer"]
            BY <2>1 DEF TickRetransmit, Rewind, netVars
        <3>2. /\ nextSeq'[e] = unacked[e] /\ nextSeq'[o] = nextSeq[o]
              /\ running'[e] = "timer" /\ running'[o] = running[o]
            BY <1>1, <3>1 DEF TypeOK
        <3> QED
            BY <1>8, <3>1, <3>2 DEF Owes, Alive, NobodyWillClose
    <2>2. CASE TickProbe(e)
        <3>1. UNCHANGED <<nextSeq, running>>
            BY <2>2 DEF TickProbe, sendVars
        <3>2. PICK p : p = Control("ack", recvSeq[e])
            OBVIOUS
        <3>3. p \in Packets /\ p.kind # "close"
            BY <3>2, PacketType DEF TypeOK, Control
        <3>4. chan' = Put(chan, e, p) /\ chan \in [Ends -> Seq(Packets)]
            BY <2>2, <3>2, BoundsAssumption DEF TickProbe, TypeOK
        <3>5. NoClose(chan') /\ chan'[o] = chan[o] /\ chan'[e] # <<>>
            BY <3>3, <3>4, NoCloseFacts, PutGrows DEF Alive, NobodyWillClose
        <3>6. Owes(o)' <=> Owes(o)
            BY <1>8, <3>1 DEF Owes
        <3> QED
            BY <3>5, <3>6
    <2> QED
        BY <1>6, <1>7, <2>1, <2>2 DEF TimerTick
<1>10. NobodyWillClose'
    BY <1>8, <1>9 DEF Alive, NobodyWillClose
<1>11. (Spoken(o)' <=> Spoken(o)) /\ ~Spoken(e)' /\ ~Spoken(e)
    BY <1>1, <1>3, <1>9 DEF Spoken
<1>12. idle'[e] <= IdleBound(e)'
    <2>1. idle'[e] = idle[e] + 1
        BY <1>8 DEF TypeOK
    <2>2. IdleBound(e)' = IdleBound(e) + 1
        BY <1>3, <1>5, <1>8, <1>11 DEF IdleBound, One
    <2>3. idle[e] <= IdleBound(e)
        BY DEF Alive, AllHeard
    <2> QED
        BY <1>4, <2>1, <2>2, <2>3
<1>13. idle'[o] <= IdleBound(o)'
    <2>1. idle'[o] = idle[o] /\ (o \in ticked' <=> o \in ticked)
        BY <1>1, <1>3, <1>8 DEF TypeOK
    <2>2. IdleBound(o)' = IdleBound(o)
        BY <1>1, <1>8, <1>11, <2>1 DEF IdleBound, One
    <2> QED
        BY <1>1, <2>1, <2>2 DEF Alive, AllHeard
<1> QED
    BY <1>1, <1>8, <1>9, <1>10, <1>12, <1>13 DEF Alive, AllHeard, Untouched

(* A packet is lost.                                                       *)
LEMMA AliveLose ==
    ASSUME TypeOK, TypeOK', Alive, NEW e \in Ends, Lose(e)
    PROVE  Alive'
<1> DEFINE o == Peer(e)
<1>1. o \in Ends /\ o # e /\ Peer(o) = e /\ \A d \in Ends : d = e \/ d = o
    BY PeerFacts
<1>2. UNCHANGED <<buf, unacked, nextSeq, running, rx, ready, state, closeTask, timer, idle,
                  ticked>> /\ lost' = lost + 1
    BY DEF Lose, sendVars, recvVars, appVars, lifeVars, timeVars
<1>3. NoClose(chan') /\ chan'[o] = chan[o]
    <2> DEFINE q == chan[e]
    <2>1. PICK i \in 1..Len(q) :
            chan' = [chan EXCEPT ![e] = SubSeq(q, 1, i - 1) \o SubSeq(q, i + 1, Len(q))]
        BY DEF Lose
    <2>2. q \in Seq(Packets) /\ DOMAIN chan = Ends
        BY DEF TypeOK
    <2> DEFINE r == SubSeq(q, 1, i - 1) \o SubSeq(q, i + 1, Len(q))
    <2>3. \A k \in 1..Len(r) : \E j \in 1..Len(q) : r[k] = q[j]
        BY <2>2, RemoveFacts
    <2>4. chan'[e] = r /\ \A d \in Ends : d # e => chan'[d] = chan[d]
        BY <2>1, <2>2
    <2> HIDE DEF r
    <2>5. NoClose(chan)
        BY DEF Alive, NobodyWillClose
    <2>6. ASSUME NEW k \in 1..Len(r) PROVE r[k].kind # "close"
        BY <2>3, <2>5 DEF NoClose
    <2>7. ASSUME NEW d \in Ends, NEW k \in 1..Len(chan'[d])
          PROVE  chan'[d][k].kind # "close"
        <3>1. CASE d = e
            BY <2>4, <2>6, <3>1
        <3>2. CASE d # e
            BY <2>4, <2>5, <3>2 DEF NoClose
        <3> QED
            BY <3>1, <3>2
    <2> QED
        BY <1>1, <2>4, <2>7 DEF NoClose
<1>4. NobodyWillClose'
    BY <1>2, <1>3 DEF Alive, NobodyWillClose
<1>5. Spoken(o)' <=> Spoken(o)
    BY <1>2, <1>3 DEF Spoken, Owes
<1>6. \A d \in Ends : IdleBound(d) \in Nat /\ idle[d] \in Nat /\ lost \in Nat
    BY BoundType
<1>7. IdleBound(e) <= IdleBound(e)' /\ IdleBound(o) <= IdleBound(o)'
      /\ IdleBound(e)' \in Nat /\ IdleBound(o)' \in Nat
    BY <1>1, <1>2, <1>5, <1>6 DEF IdleBound, One
<1>8. \A d \in Ends : idle'[d] <= IdleBound(d)'
    BY <1>1, <1>2, <1>6, <1>7 DEF Alive, AllHeard
<1> QED
    BY <1>2, <1>4, <1>8 DEF Alive, AllHeard, Untouched

(* An interval ends when both have ticked and all they sent has arrived or *)
(* is lost.                                                                *)
LEMMA AliveInterval ==
    ASSUME TypeOK, TypeOK', Alive, Prompt, NextInterval
    PROVE  Alive'
<1>1. UNCHANGED <<buf, unacked, nextSeq, running, rx, ready, state, closeTask, timer, idle,
                  chan, lost>> /\ ticked' = {}
    BY DEF NextInterval, sendVars, recvVars, appVars, netVars
<1>2. ASSUME NEW d \in Ends PROVE d \in ticked /\ Spoken(d)
    <2>1. /\ chan[d] = <<>> /\ flushing[d]["timer"] = 0 /\ Idle(d)
        BY DEF NextInterval, Quiet, FlushTasks
    <2>2. d \in ticked
        BY <2>1 DEF NextInterval, Sleeping, Alive, Untouched
    <2> QED
        BY <2>1, <2>2 DEF Spoken, Owes, Idle
<1>3. ASSUME NEW d \in Ends PROVE idle'[d] <= IdleBound(d)'
    <2>1. IdleBound(d) = lost + 1 + 0 /\ lost \in Nat /\ idle[d] \in Nat
        BY <1>2, PeerFacts, BoundType DEF IdleBound, One
    <2>2. IdleBound(d)' = lost + 0 + 1
        BY <1>1 DEF IdleBound, One, Spoken
    <2> QED
        BY <1>1, <2>1, <2>2 DEF Alive, AllHeard
<1> QED
    BY <1>1, <1>3 DEF Alive, AllHeard, Untouched, NobodyWillClose, NoClose

(* A transport that is closing stays so.                                   *)
LEMMA ClosingIsFinal ==
    ASSUME TypeOK, [Next]_vars
    PROVE  \A e \in Ends : closing[e] => closing'[e]
<1>1. ASSUME NEW e \in Ends, SendDataStart(e) \/ Receive(e) PROVE closing' = closing
    BY <1>1, Zenon DEF SendDataStart, Receive, RecvIgnored, RecvNewAck, RecvNoAck,
        RecvCloseClosing, RecvCloseOpen, appVars
<1>2. ASSUME NEW e \in Ends, RecvCloseFinish(e) \/ CloseStep(e) PROVE closing' = closing
    BY <1>2, Zenon DEF RecvCloseFinish, CloseStep, CloseStart, CloseSend, CloseFinish, appVars
<1>3. ASSUME NEW e \in Ends, FlushEndDeliver(e) \/ TimerTick(e) \/ Lose(e)
      PROVE  closing' = closing
    BY <1>3, Zenon DEF FlushEndDeliver, TimerTick, TickTimeout, TickRetransmit, TickProbe,
        TickClosing, Lose, appVars
<1>4. ASSUME NEW e \in Ends, NEW t \in FlushTasks, FlushStep(e, t) PROVE closing' = closing
    BY <1>4, Zenon DEF FlushStep, FlushSend, FlushRaise, FlushEnd, appVars
<1>5. CASE NextInterval \/ UNCHANGED vars
    BY <1>5, Zenon DEF NextInterval, vars, appVars
<1>6. ASSUME NEW e \in Ends, Program(e)
      PROVE  closing' = closing \/ closing' = [closing EXCEPT ![e] = TRUE]
    BY <1>6, Zenon DEF Program, Write, Close
<1>7. ASSUME NEW e \in Ends, closing' = [closing EXCEPT ![e] = TRUE]
      PROVE  \A d \in Ends : closing[d] => closing'[d]
    BY <1>7 DEF TypeOK
<1> QED
    BY <1>1, <1>2, <1>3, <1>4, <1>5, <1>6, <1>7 DEF Next

LEMMA AliveStep ==
    ASSUME Prompt, MaxFail = 0, ChanCap > 0, MaxLost + 2 <= TimeoutTicks,
           TypeOK, StreamInv, AliveInv, [Next]_vars
    PROVE  AliveInv'
<1> SUFFICES ASSUME NobodyCloses' PROVE Alive'
    BY DEF AliveInv
<1>1. TypeOK'
    BY TypeStep
<1>2. Alive
    <2>1. \A e \in Ends : closing[e] => closing'[e]
        BY ClosingIsFinal
    <2> QED
        BY <2>1 DEF NobodyCloses, AliveInv
<1>3. ASSUME NEW e \in Ends, RecvCloseFinish(e) \/ CloseStep(e) PROVE FALSE
    <2>1. rx[e].kind # "close" /\ closeTask[e] = "none"
        BY <1>2 DEF Alive, NobodyWillClose, Untouched
    <2>2. ~CloseStart(e)
        <3> SUFFICES ASSUME ready[e] # <<>> PROVE Head(ready[e]).kind # "close"
            BY DEF CloseStart
        <3>1. ready[e] \in Seq(TaskRecords)
            BY DEF TypeOK, TaskRecords
        <3>2. 1 \in 1..Len(ready[e]) /\ Head(ready[e]) = ready[e][1]
            BY <3>1
        <3> QED
            BY <1>2, <3>2 DEF Alive, NobodyWillClose
    <2> QED
        BY <1>3, <2>1, <2>2 DEF RecvCloseFinish, CloseStep, CloseSend, CloseFinish
<1>4. ASSUME NEW e \in Ends, Program(e) \/ SendDataStart(e) \/ Receive(e) PROVE Alive'
    BY <1>1, <1>2, <1>4, AliveProgram, AliveSend, AliveReceives
<1>5. ASSUME NEW e \in Ends, FlushEndDeliver(e) \/ TimerTick(e) \/ Lose(e) PROVE Alive'
    BY <1>1, <1>2, <1>5, AliveDelivers, AliveTick, AliveLose
<1>6. ASSUME NEW e \in Ends, NEW t \in FlushTasks, FlushStep(e, t) PROVE Alive'
    BY <1>1, <1>2, <1>6, AliveFlush
<1>7. CASE NextInterval
    BY <1>1, <1>2, <1>7, AliveInterval
<1>8. CASE UNCHANGED vars
    BY <1>2, <1>8 DEF vars, sendVars, recvVars, appVars, lifeVars, timeVars, netVars, Alive,
        Untouched, NobodyWillClose, NoClose, AllHeard, IdleBound, Spoken, Owes
<1> QED
    BY <1>3, <1>4, <1>5, <1>6, <1>7, <1>8 DEF Next

LEMMA AliveInit == Init => AliveInv
<1> SUFFICES ASSUME Init PROVE Alive
    BY DEF AliveInv
<1>1. \A e \in Ends : idle[e] = 0 /\ IdleBound(e) \in Nat
    BY BoundsAssumption DEF Init, IdleBound, One
<1>2. Untouched /\ AllHeard
    BY <1>1 DEF Init, Untouched, AllHeard
<1>3. NobodyWillClose
    BY PacketType DEF Init, NobodyWillClose, NoClose
<1> QED
    BY <1>2, <1>3 DEF Alive

(* Where no send raises and a round trip is shorter than the               *)
(* retransmission interval, for any window, chunk and amounts and wherever *)
(* the sends suspend: a connection that nobody closes stays open, through  *)
(* any losses up to TimeoutTicks - 2 (adsp.py, _timer_loop).               *)
THEOREM ConnectionStaysAlive ==
    ASSUME Prompt, MaxFail = 0, ChanCap > 0, MaxLost + 2 <= TimeoutTicks
    PROVE  Spec => []KeepAlive
<1>1. Init => AliveInv
    BY AliveInit
<1>2. TypeOK /\ StreamInv /\ AliveInv /\ [Next]_vars => AliveInv'
    BY AliveStep
<1>3. AliveInv => KeepAlive
    BY DEF AliveInv, Alive, Untouched, KeepAlive
<1> QED
    BY <1>1, <1>2, <1>3, TypeCorrect, StreamSafe, PTL DEF Spec

===============================================================================

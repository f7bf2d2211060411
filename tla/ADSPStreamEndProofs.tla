-------------------------- MODULE ADSPStreamEndProofs --------------------------
(* How a connection ends, for every value of the constants: it leaves no   *)
(* timer behind, its program was told, and CLOSED is final.                *)
EXTENDS ADSPStreamTypeProofs

(* A close task exists only after ADSPTransport.close has told the program;*)
(* close_connection stops the timer before it sends CLOSE_CONN.            *)
CloseTold ==
    \A e \in Ends :
        /\ closeTask[e] # "none" => lostCalls[e] > 0
        /\ \A i \in 1..Len(ready[e]) : ready[e][i].kind = "close" => lostCalls[e] > 0
TimerStopped == \A e \in Ends : closeTask[e] = "sent" => timer[e] # "running"

EndInv == NoTimerLeft /\ ProgramTold /\ CloseTold /\ TimerStopped

-------------------------------------------------------------------------------
(* Steps that leave the life of both connections alone, or only end a      *)
(* timer or let a created task other than a close appear or go.            *)
LEMMA EndFrame ==
    ASSUME TypeOK, EndInv,
           UNCHANGED <<state, lostCalls, closeTask>>,
           \A e \in Ends : timer'[e] = "running" => timer[e] = "running",
           \A e \in Ends : \A i \in 1..Len(ready'[e]) :
                ready'[e][i].kind = "close" =>
                    \E j \in 1..Len(ready[e]) : ready[e][j].kind = "close"
    PROVE  EndInv'
<1>1. NoTimerLeft' /\ ProgramTold' /\ TimerStopped'
    BY DEF EndInv, NoTimerLeft, ProgramTold, TimerStopped
<1>2. CloseTold'
    BY DEF EndInv, CloseTold
<1> QED
    BY <1>1, <1>2 DEF EndInv

TaskRecords == [kind : {"send", "close"}, from : Nat, to : Nat]

(* Neither appending a send task nor starting a task adds a close task. *)
LEMMA ReadyAppend ==
    ASSUME NEW q \in Seq(TaskRecords), NEW x \in TaskRecords, x.kind = "send"
    PROVE  \A i \in 1..Len(Append(q, x)) : Append(q, x)[i].kind = "close" =>
                \E j \in 1..Len(q) : q[j].kind = "close"
<1>1. \A i \in 1..Len(Append(q, x)) :
            Append(q, x)[i] = x \/ (i \in 1..Len(q) /\ Append(q, x)[i] = q[i])
    OBVIOUS
<1> QED
    BY <1>1

LEMMA ReadyTail ==
    ASSUME NEW q \in Seq(TaskRecords), q # <<>>
    PROVE  /\ 1 \in 1..Len(q) /\ Head(q) = q[1]
           /\ \A i \in 1..Len(Tail(q)) : Tail(q)[i].kind = "close" =>
                \E j \in 1..Len(q) : q[j].kind = "close"
<1>1. 1 \in 1..Len(q) /\ Head(q) = q[1]
    OBVIOUS
<1>2. \A i \in 1..Len(Tail(q)) : i + 1 \in 1..Len(q) /\ Tail(q)[i] = q[i + 1]
    OBVIOUS
<1> QED
    BY <1>1, <1>2

-------------------------------------------------------------------------------
LEMMA EndInit == Init => EndInv
    BY DEF Init, EndInv, NoTimerLeft, ProgramTold, CloseTold, TimerStopped

(* The transport's close tells the program and creates the close task. *)
LEMMA EndClose ==
    ASSUME TypeOK, EndInv, NEW e \in Ends, Close(e)
    PROVE  EndInv'
<1>1. UNCHANGED <<state, closeTask, timer>>
    BY DEF Close, timeVars
<1> lostCalls \in [Ends -> Nat] /\ lostCalls' = [lostCalls EXCEPT ![e] = @ + 1]
    BY DEF Close, TypeOK
<1>2. \A d \in Ends : lostCalls[d] > 0 => lostCalls'[d] > 0
    OBVIOUS
<1>3. lostCalls'[e] > 0
    OBVIOUS
<1>4. \A d \in Ends : d # e => ready'[d] = ready[d]
    BY DEF Close, TypeOK
<1>5. NoTimerLeft' /\ TimerStopped'
    BY <1>1 DEF EndInv, NoTimerLeft, TimerStopped
<1>6. ProgramTold'
    BY <1>1, <1>2 DEF EndInv, ProgramTold
<1>7. ASSUME NEW d \in Ends
      PROVE  /\ closeTask'[d] # "none" => lostCalls'[d] > 0
             /\ \A i \in 1..Len(ready'[d]) :
                    ready'[d][i].kind = "close" => lostCalls'[d] > 0
    <2>1. CASE d = e
        BY <1>3, <2>1
    <2>2. CASE d # e
        BY <1>1, <1>2, <1>4, <2>2 DEF EndInv, CloseTold
    <2> QED
        BY <2>1, <2>2
<1>8. CloseTold'
    BY <1>7 DEF CloseTold
<1> QED
    BY <1>5, <1>6, <1>8 DEF EndInv

(* close_connection starts: only a task that was created. *)
LEMMA EndCloseStart ==
    ASSUME TypeOK, EndInv, NEW e \in Ends, CloseStart(e)
    PROVE  EndInv'
<1>1. ready[e] \in Seq(TaskRecords) /\ ready[e] # <<>> /\ Head(ready[e]).kind = "close"
    BY DEF CloseStart, TypeOK, TaskRecords
<1>2. /\ 1 \in 1..Len(ready[e]) /\ ready[e][1].kind = "close"
      /\ \A i \in 1..Len(Tail(ready[e])) : Tail(ready[e])[i].kind = "close" =>
            \E j \in 1..Len(ready[e]) : ready[e][j].kind = "close"
    BY <1>1, ReadyTail
<1>3. lostCalls[e] > 0
    BY <1>2 DEF EndInv, CloseTold
<1>4. UNCHANGED <<lostCalls, timer>>
    BY DEF CloseStart, timeVars
<1>5. \A d \in Ends : /\ state'[d] = "CLOSED" => state[d] = "CLOSED"
                      /\ closeTask'[d] = "sent" => closeTask[d] = "sent"
                      /\ d # e => closeTask'[d] = closeTask[d] /\ ready'[d] = ready[d]
    <2>1. state' = state \/ state' = [state EXCEPT ![e] = "CLOSING"]
        BY DEF CloseStart
    <2>2. \E c \in {"done", "proceed", "waiting"} :
            closeTask' = [closeTask EXCEPT ![e] = c]
        BY Zenon DEF CloseStart
    <2>3. ready' = [ready EXCEPT ![e] = Tail(@)]
        BY DEF CloseStart
    <2>4. state \in [Ends -> {"OPEN", "CLOSING", "CLOSED"}] /\ DOMAIN ready = Ends
          /\ DOMAIN closeTask = Ends
        BY DEF TypeOK
    <2>5. \A d \in Ends : state'[d] = "CLOSED" => state[d] = "CLOSED"
        BY <2>1, <2>4
    <2>6. \A d \in Ends : closeTask'[d] = "sent" => closeTask[d] = "sent"
        BY <2>2, <2>4
    <2>7. \A d \in Ends : d # e => closeTask'[d] = closeTask[d]
        BY <2>2, <2>4
    <2>8. \A d \in Ends : d # e => ready'[d] = ready[d]
        BY <2>3, <2>4
    <2> QED
        BY <2>5, <2>6, <2>7, <2>8
<1>6. NoTimerLeft' /\ ProgramTold' /\ TimerStopped'
    BY <1>4, <1>5 DEF EndInv, NoTimerLeft, ProgramTold, TimerStopped
<1>7. CloseTold'
    BY <1>3, <1>4, <1>5 DEF EndInv, CloseTold
<1> QED
    BY <1>6, <1>7 DEF EndInv

(* The timer is stopped before CLOSE_CONN is sent. *)
LEMMA EndCloseSend ==
    ASSUME TypeOK, EndInv, NEW e \in Ends, CloseSend(e)
    PROVE  EndInv'
<1>1. UNCHANGED <<state, lostCalls, ready>>
    BY DEF CloseSend, appVars
<1>2. closeTask[e] # "none"
    BY DEF CloseSend
<1>3. \A d \in Ends : d # e => closeTask'[d] = closeTask[d] /\ timer'[d] = timer[d]
    <2>1. \A d \in Ends : d # e => timer'[d] = timer[d]
        BY DEF CloseSend, StopTimer, TypeOK
    <2>2. \E c \in {"done", "sent"} : closeTask' = [closeTask EXCEPT ![e] = c]
        BY DEF CloseSend
    <2> QED
        BY <2>1, <2>2 DEF TypeOK
<1>4. timer'[e] = "stopped"
    BY DEF CloseSend, StopTimer, TypeOK
<1>5. NoTimerLeft' /\ ProgramTold' /\ TimerStopped'
    BY <1>1, <1>3, <1>4 DEF EndInv, NoTimerLeft, ProgramTold, TimerStopped
<1>6. CloseTold'
    BY <1>1, <1>2, <1>3 DEF EndInv, CloseTold
<1> QED
    BY <1>5, <1>6 DEF EndInv

LEMMA EndCloseFinish ==
    ASSUME TypeOK, EndInv, NEW e \in Ends, CloseFinish(e)
    PROVE  EndInv'
<1>1. UNCHANGED <<lostCalls, ready, timer>>
    BY DEF CloseFinish, appVars, timeVars
<1>2. closeTask[e] = "sent"
    BY DEF CloseFinish
<1>3. \A d \in Ends : d # e => closeTask'[d] = closeTask[d] /\ state'[d] = state[d]
    BY DEF CloseFinish, TypeOK
<1>4. closeTask'[e] = "done"
    BY DEF CloseFinish, TypeOK
<1>5. lostCalls[e] > 0 /\ timer[e] # "running"
    BY <1>2 DEF EndInv, CloseTold, TimerStopped
<1>6. NoTimerLeft' /\ ProgramTold' /\ TimerStopped'
    BY <1>1, <1>3, <1>4, <1>5 DEF EndInv, NoTimerLeft, ProgramTold, TimerStopped
<1>7. CloseTold'
    BY <1>1, <1>3, <1>5 DEF EndInv, CloseTold
<1> QED
    BY <1>6, <1>7 DEF EndInv

(* CLOSED by the peer or by the timeout: the timer stops, the program is   *)
(* told.                                                                   *)
LEMMA EndTold ==
    ASSUME TypeOK, EndInv, NEW e \in Ends,
           state' = [state EXCEPT ![e] = "CLOSED"],
           lostCalls' = [lostCalls EXCEPT ![e] = @ + 1],
           StopTimer(e), UNCHANGED <<closeTask, ready>>
    PROVE  EndInv'
<1>1. lostCalls'[e] > 0 /\ timer'[e] = "stopped"
    <2>1. lostCalls \in [Ends -> Nat] /\ DOMAIN timer = Ends
        BY DEF TypeOK
    <2>2. lostCalls'[e] > 0
        BY <2>1
    <2> QED
        BY <2>1, <2>2 DEF StopTimer
<1>2. \A d \in Ends : d # e =>
        state'[d] = state[d] /\ lostCalls'[d] = lostCalls[d] /\ timer'[d] = timer[d]
    BY DEF StopTimer, TypeOK
<1>3. NoTimerLeft' /\ ProgramTold' /\ TimerStopped'
    BY <1>1, <1>2 DEF EndInv, NoTimerLeft, ProgramTold, TimerStopped
<1>4. CloseTold'
    BY <1>1, <1>2 DEF EndInv, CloseTold
<1> QED
    BY <1>3, <1>4 DEF EndInv

-------------------------------------------------------------------------------
LEMMA EndStep == TypeOK /\ EndInv /\ [Next]_vars => EndInv'
<1> SUFFICES ASSUME TypeOK, EndInv, [Next]_vars PROVE EndInv'
    OBVIOUS
<1>1. ASSUME NEW e \in Ends, Write(e) PROVE EndInv'
    <2>1. UNCHANGED <<state, lostCalls, closeTask, timer>>
        BY <1>1 DEF Write, lifeVars, timeVars
    <2>2. PICK n \in Nat : ready' = [ready EXCEPT ![e] =
                Append(@, SendTask(written[e], written[e] + n))]
        <3>1. \A k \in 1..Lesser(MaxWrite, WriteLimit[e] - written[e]) : k \in Nat
            BY BoundsAssumption DEF BoundsAssumption, Lesser, TypeOK
        <3> QED
            BY <1>1, <3>1 DEF Write
    <2>3. SendTask(written[e], written[e] + n) \in TaskRecords
          /\ SendTask(written[e], written[e] + n).kind = "send"
        <3>1. written[e] \in Nat
            BY DEF TypeOK
        <3> QED
            BY <3>1 DEF SendTask, TaskRecords
    <2>4. /\ ready[e] \in Seq(TaskRecords)
          /\ ready'[e] = Append(ready[e], SendTask(written[e], written[e] + n))
        BY <2>2 DEF TypeOK, TaskRecords
    <2>5. \A i \in 1..Len(ready'[e]) : ready'[e][i].kind = "close" =>
                \E j \in 1..Len(ready[e]) : ready[e][j].kind = "close"
        BY <2>3, <2>4, ReadyAppend
    <2>6. \A d \in Ends : d # e => ready'[d] = ready[d]
        BY <2>2 DEF TypeOK
    <2> QED
        BY <2>1, <2>5, <2>6, EndFrame
<1>2. ASSUME NEW e \in Ends, SendDataStart(e) PROVE EndInv'
    <2>1. UNCHANGED <<state, lostCalls, closeTask, timer>>
        BY <1>2 DEF SendDataStart, lifeVars, timeVars
    <2>2. ready' = [ready EXCEPT ![e] = Tail(@)]
        BY <1>2 DEF SendDataStart
    <2>3. ready[e] \in Seq(TaskRecords) /\ ready[e] # <<>> /\ ready'[e] = Tail(ready[e])
        BY <1>2, <2>2 DEF SendDataStart, TypeOK, TaskRecords
    <2>4. \A i \in 1..Len(ready'[e]) : ready'[e][i].kind = "close" =>
                \E j \in 1..Len(ready[e]) : ready[e][j].kind = "close"
        BY <2>3, ReadyTail
    <2>5. \A d \in Ends : d # e => ready'[d] = ready[d]
        BY <2>2 DEF TypeOK
    <2> QED
        BY <2>1, <2>4, <2>5, EndFrame
<1>3. ASSUME NEW e \in Ends,
             \/ RecvIgnored(e) \/ RecvNewAck(e) \/ RecvNoAck(e) \/ RecvCloseOpen(e)
             \/ FlushEndDeliver(e) \/ Lose(e)
      PROVE  EndInv'
    <2>1. UNCHANGED <<state, lostCalls, closeTask, timer, ready>>
        BY <1>3 DEF RecvIgnored, RecvNewAck, RecvNoAck, RecvCloseOpen, FlushEndDeliver,
            Lose, lifeVars, timeVars, appVars
    <2> QED
        BY <2>1, EndFrame
<1>4. ASSUME NEW e \in Ends, NEW t \in FlushTasks, FlushStep(e, t) PROVE EndInv'
    <2>1. UNCHANGED <<state, lostCalls, closeTask, ready>>
        BY <1>4 DEF FlushStep, FlushSend, FlushRaise, FlushEnd, lifeVars, appVars
    <2>2. \A d \in Ends : timer'[d] = "running" => timer[d] = "running"
        <3>1. \/ timer' = timer
              \/ timer' = [timer EXCEPT ![e] = "dead"]
            BY <1>4 DEF FlushStep, FlushSend, FlushRaise, FlushEnd, timeVars
        <3> QED
            BY <3>1 DEF TypeOK
    <2> QED
        BY <2>1, <2>2, EndFrame
<1>5. ASSUME NEW e \in Ends, TickRetransmit(e) \/ TickProbe(e) \/ TickClosing(e)
      PROVE  EndInv'
    <2>1. UNCHANGED <<state, lostCalls, closeTask, ready>>
        BY <1>5 DEF TickRetransmit, TickProbe, TickClosing, lifeVars, appVars
    <2>2. \A d \in Ends : timer'[d] = "running" => timer[d] = "running"
        <3>1. \/ timer' = timer
              \/ timer' = [timer EXCEPT ![e] = "dead"]
            BY <1>5 DEF TickRetransmit, TickProbe, TickClosing
        <3> QED
            BY <3>1 DEF TypeOK
    <2> QED
        BY <2>1, <2>2, EndFrame
<1>6. ASSUME NEW e \in Ends, RecvCloseClosing(e) \/ RecvCloseFinish(e) PROVE EndInv'
    <2>1. PeerClosed(e) /\ UNCHANGED <<closeTask, ready>>
        BY <1>6 DEF RecvCloseClosing, RecvCloseFinish, appVars
    <2> QED
        BY <2>1, EndTold DEF PeerClosed
<1>7. ASSUME NEW e \in Ends, TickTimeout(e) PROVE EndInv'
    BY <1>7, EndTold DEF TickTimeout, appVars
<1>8. CASE NextInterval
    BY <1>8, EndFrame DEF NextInterval, appVars
<1>9. CASE UNCHANGED vars
    BY <1>9, EndFrame DEF vars, lifeVars, timeVars, appVars
<1> QED
    BY <1>1, <1>2, <1>3, <1>4, <1>5, <1>6, <1>7, <1>8, <1>9,
       EndClose, EndCloseStart, EndCloseSend, EndCloseFinish
    DEF Next, Program, Receive, CloseStep, TimerTick

LEMMA EndSafe == Spec => []EndInv
<1>1. Init => EndInv
    BY EndInit
<1>2. TypeOK /\ EndInv /\ [Next]_vars => EndInv'
    BY EndStep
<1> QED
    BY <1>1, <1>2, TypeCorrect, PTL DEF Spec

(* A connection that is gone has no running timer: whoever closes it, and  *)
(* whatever is lost or raises, the task of _timer_loop ends with it.       *)
THEOREM NoTimerIsLeft == Spec => []NoTimerLeft
<1>1. EndInv => NoTimerLeft
    BY DEF EndInv
<1> QED
    BY <1>1, EndSafe, PTL

(* A program is told of the end of its connection (connection_lost) before *)
(* or when the connection becomes CLOSED.                                  *)
THEOREM ProgramIsTold == Spec => []ProgramTold
<1>1. EndInv => ProgramTold
    BY DEF EndInv
<1> QED
    BY <1>1, EndSafe, PTL

-------------------------------------------------------------------------------
(* CLOSED is final.                                                        *)

(* What a step may do to an end that is CLOSED (ClosedIsFinal).            *)
Rests(e) ==
    /\ state'[e] = "CLOSED" /\ delivered'[e] = delivered[e]
    /\ Working(e) \/ /\ ~Working(e)' /\ recvSeq'[e] = recvSeq[e]
                     /\ Len(chan'[e]) <= Len(chan[e])

(* The channel of an end grows only when the end itself sends.             *)
LEMMA ChanLengths ==
    ASSUME TypeOK, NEW d \in Ends
    PROVE  /\ chan[Peer(d)] # <<>> =>
                /\ DOMAIN Taken(d) = Ends
                /\ \A e \in Ends : Len(Taken(d)[e]) <= Len(chan[e])
           /\ \A c, p : DOMAIN c = Ends => \A e \in Ends : e # d => Put(c, d, p)[e] = c[e]
           /\ \A e \in Ends : Len(chan[e]) \in Nat
           /\ Lose(d) => \A e \in Ends : Len(chan'[e]) <= Len(chan[e])
<1>1. chan \in [Ends -> Seq(Packets)] /\ Peer(d) \in Ends
    BY PeerFacts DEF TypeOK
<1>2. ASSUME chan[Peer(d)] # <<>>
      PROVE  /\ DOMAIN Taken(d) = Ends
             /\ \A e \in Ends : Len(Taken(d)[e]) <= Len(chan[e])
    <2> DEFINE q == chan[Peer(d)]
    <2>1. q \in Seq(Packets) /\ Len(Tail(q)) <= Len(q)
        BY <1>1, <1>2
    <2>2. Taken(d) = [chan EXCEPT ![Peer(d)] = Tail(q)]
        BY DEF Taken
    <2> QED
        BY <1>1, <2>1, <2>2
<1>3. ASSUME NEW c, NEW p, DOMAIN c = Ends, NEW e \in Ends, e # d
      PROVE  Put(c, d, p)[e] = c[e]
    BY <1>3 DEF Put
<1>4. ASSUME Lose(d), NEW e \in Ends PROVE Len(chan'[e]) <= Len(chan[e])
    <2> DEFINE q == chan[d]
    <2>1. PICK i \in 1..Len(q) :
            chan' = [chan EXCEPT ![d] = SubSeq(q, 1, i - 1) \o SubSeq(q, i + 1, Len(q))]
        BY <1>4 DEF Lose
    <2>2. q \in Seq(Packets) /\ Len(q) \in Nat
        BY <1>1
    <2> DEFINE a == SubSeq(q, 1, i - 1)
               b == SubSeq(q, i + 1, Len(q))
    <2>3. a \in Seq(Packets) /\ Len(a) = i - 1 /\ b \in Seq(Packets) /\ Len(b) = Len(q) - i
        BY <2>2
    <2>4. chan' = [chan EXCEPT ![d] = a \o b]
        BY <2>1
    <2> HIDE DEF a, b
    <2>5. Len(a \o b) = Len(a) + Len(b)
        BY <2>3
    <2>6. Len(a \o b) <= Len(q)
        BY <2>2, <2>3, <2>5
    <2> HIDE DEF q
    <2>7. CASE e = d
        BY <1>1, <2>4, <2>6, <2>7 DEF q
    <2>8. CASE e # d
        BY <1>1, <2>4, <2>8
    <2> QED
        BY <2>7, <2>8
<1> QED
    BY <1>1, <1>2, <1>3, <1>4

(* The steps of an end do not touch the other one but by its packets.      *)
Aloof(e) ==
    /\ state'[e] = state[e] /\ delivered'[e] = delivered[e]
    /\ rx'[e] = rx[e] /\ flushing'[e] = flushing[e] /\ recvSeq'[e] = recvSeq[e]
    /\ Len(chan'[e]) <= Len(chan[e])

LEMMA AloofRests == ASSUME NEW e \in Ends, state[e] = "CLOSED", Aloof(e) PROVE Rests(e)
BY DEF Aloof, Rests, Working

LEMMA Elsewhere ==
    ASSUME TypeOK, NEW d \in Ends, NEW e \in Ends, d # e,
           \/ Program(d) \/ SendDataStart(d) \/ Receive(d) \/ RecvCloseFinish(d)
           \/ FlushEndDeliver(d) \/ CloseStep(d) \/ TimerTick(d) \/ Lose(d)
           \/ \E t \in FlushTasks : FlushStep(d, t)
    PROVE  Aloof(e)
<1>1. /\ DOMAIN state = Ends /\ DOMAIN delivered = Ends /\ DOMAIN rx = Ends
      /\ DOMAIN flushing = Ends /\ DOMAIN recvSeq = Ends /\ DOMAIN chan = Ends
      /\ Len(chan[e]) \in Nat
    BY ChanLengths DEF TypeOK
<1>2. \A p : Put(chan, d, p)[e] = chan[e]
    <2>1. \A c, p : DOMAIN c = Ends => \A x \in Ends : x # d => Put(c, d, p)[x] = c[x]
        BY ChanLengths
    <2> QED
        BY <1>1, <2>1
<1>3. chan[Peer(d)] # <<>> =>
        /\ Len(Taken(d)[e]) <= Len(chan[e])
        /\ \A p : Put(Taken(d), d, p)[e] = Taken(d)[e]
    BY ChanLengths
<1>4. CASE Program(d)
    BY <1>1, <1>4 DEF Program, Write, Close, Aloof, sendVars, recvVars, lifeVars, netVars
<1>5. CASE SendDataStart(d)
    <2>1. UNCHANGED <<state, delivered, rx, recvSeq, chan>>
        BY <1>5 DEF SendDataStart, recvVars, lifeVars, netVars
    <2>2. flushing' = flushing \/ flushing' = [flushing EXCEPT ![d]["send"] = @ + 1]
        BY <1>5, Zenon DEF SendDataStart
    <2> QED
        BY <1>1, <2>1, <2>2 DEF Aloof
<1>6. ASSUME NEW p, NEW c, HandleSequence(d, p, c)
      PROVE  /\ recvSeq'[e] = recvSeq[e] /\ delivered'[e] = delivered[e]
             /\ chan' = c \/ \E q : chan' = Put(c, d, q)
    BY <1>1, <1>6 DEF HandleSequence, LastSend
<1>7. CASE Receive(d)
    <2>1. chan[Peer(d)] # <<>>
        BY <1>7 DEF Receive, RecvIgnored, RecvNewAck, RecvNoAck, RecvCloseClosing,
            RecvCloseOpen, Receiving
    <2>2. CASE RecvIgnored(d)
        BY <1>3, <2>1, <2>2 DEF RecvIgnored, Aloof, sendVars, recvVars, lifeVars
    <2>3. CASE RecvNewAck(d)
        BY <1>1, <1>3, <2>1, <2>3 DEF RecvNewAck, TakeAck, Aloof, lifeVars
    <2>4. CASE RecvNoAck(d)
        <3>1. /\ state' = state /\ rx' = rx /\ flushing' = flushing
              /\ \/ HandleSequence(d, Head(chan[Peer(d)]), Taken(d))
                 \/ chan' = Taken(d) /\ UNCHANGED <<recvSeq, delivered>>
            BY <2>4 DEF RecvNoAck, sendVars, lifeVars
        <3>2. recvSeq'[e] = recvSeq[e] /\ delivered'[e] = delivered[e]
            BY <1>6, <3>1
        <3>3. chan' = Taken(d) \/ \E q : chan' = Put(Taken(d), d, q)
            BY <1>6, <3>1
        <3> QED
            BY <1>3, <2>1, <3>1, <3>2, <3>3 DEF Aloof
    <2>5. CASE RecvCloseClosing(d)
        BY <1>1, <1>3, <2>1, <2>5 DEF RecvCloseClosing, PeerClosed, CancelTimerFlush,
            Aloof, recvVars
    <2>6. CASE RecvCloseOpen(d)
        BY <1>1, <1>3, <2>1, <2>6 DEF RecvCloseOpen, Aloof, sendVars, lifeVars
    <2> QED
        BY <1>7, <2>2, <2>3, <2>4, <2>5, <2>6 DEF Receive
<1>8. CASE RecvCloseFinish(d)
    BY <1>1, <1>8 DEF RecvCloseFinish, PeerClosed, CancelTimerFlush, Aloof, netVars
<1>9. CASE FlushEndDeliver(d)
    <2>1. /\ state' = state /\ rx'[e] = rx[e] /\ flushing'[e] = flushing[e]
          /\ HandleSequence(d, rx[d], chan)
        BY <1>1, <1>9 DEF FlushEndDeliver, lifeVars
    <2>2. /\ recvSeq'[e] = recvSeq[e] /\ delivered'[e] = delivered[e]
          /\ chan' = chan \/ \E q : chan' = Put(chan, d, q)
        BY <1>6, <2>1
    <2> QED
        BY <1>1, <1>2, <2>1, <2>2 DEF Aloof
<1>10. CASE CloseStart(d)
    BY <1>1, <1>10 DEF CloseStart, Aloof, sendVars, recvVars, netVars
<1>11. CASE CloseSend(d)
    BY <1>1, <1>2, <1>11 DEF CloseSend, CancelTimerFlush, Aloof, recvVars
<1>12. CASE CloseFinish(d)
    BY <1>1, <1>12 DEF CloseFinish, Aloof, sendVars, recvVars, netVars
<1>13. CASE TickTimeout(d)
    BY <1>1, <1>13 DEF TickTimeout, Aloof, sendVars, recvVars, netVars
<1>14. CASE TickRetransmit(d)
    BY <1>1, <1>14 DEF TickRetransmit, Aloof, recvVars, lifeVars, netVars
<1>15. CASE TickProbe(d)
    BY <1>1, <1>2, <1>15 DEF TickProbe, Aloof, sendVars, recvVars, lifeVars
<1>16. CASE TickClosing(d)
    BY <1>1, <1>16 DEF TickClosing, Aloof, sendVars, recvVars, lifeVars, netVars
<1>17. CASE Lose(d)
    BY <1>1, <1>17, ChanLengths DEF Lose, Aloof, sendVars, recvVars, lifeVars
<1>18. ASSUME NEW t \in FlushTasks, FlushStep(d, t) PROVE Aloof(e)
    <2>1. CASE FlushSend(d, t)
        BY <1>1, <1>2, <2>1 DEF FlushSend, Aloof, recvVars, lifeVars
    <2>2. CASE FlushRaise(d, t)
        BY <1>1, <2>2 DEF FlushRaise, Aloof, lifeVars
    <2>3. CASE FlushEnd(d, t)
        BY <1>1, <2>3 DEF FlushEnd, Aloof, lifeVars, netVars
    <2> QED
        BY <1>18, <2>1, <2>2, <2>3 DEF FlushStep
<1> QED
    BY <1>4, <1>5, <1>7, <1>8, <1>9, <1>10, <1>11, <1>12, <1>13, <1>14, <1>15, <1>16,
       <1>17, <1>18 DEF CloseStep, TimerTick

(* The steps of an end that is CLOSED itself: what was at work ends, and   *)
(* nothing begins.                                                         *)
LEMMA ClosedSteps ==
    ASSUME TypeOK, EndInv, NEW e \in Ends, state[e] = "CLOSED",
           \/ Program(e) \/ SendDataStart(e) \/ Receive(e) \/ RecvCloseFinish(e)
           \/ FlushEndDeliver(e) \/ CloseStep(e) \/ TimerTick(e) \/ Lose(e)
           \/ \E t \in FlushTasks : FlushStep(e, t)
    PROVE  Rests(e)
<1>1. /\ DOMAIN state = Ends /\ DOMAIN flushing = Ends /\ DOMAIN recvSeq = Ends
      /\ Len(chan[e]) \in Nat /\ lostCalls[e] > 0 /\ flushing[e] \in [FlushTasks -> Nat]
    BY ChanLengths DEF TypeOK, EndInv, ProgramTold
<1>2. CASE Program(e)
    <2>1. UNCHANGED <<state, delivered, rx, flushing, recvSeq, chan>>
        BY <1>2 DEF Program, Write, Close, sendVars, recvVars, lifeVars, netVars
    <2> QED
        BY <1>1, <2>1, AloofRests DEF Aloof
<1>3. CASE SendDataStart(e)
    BY <1>1, <1>3, AloofRests DEF SendDataStart, MaySend, Aloof, recvVars, lifeVars, netVars
<1>4. CASE Receive(e)
    <2>1. RecvIgnored(e)
        BY <1>4 DEF Receive, RecvNewAck, RecvNoAck, RecvCloseClosing, RecvCloseOpen
    <2>2. chan' = Taken(e) /\ chan[Peer(e)] # <<>>
        BY <2>1 DEF RecvIgnored, Receiving
    <2>3. Len(chan'[e]) <= Len(chan[e])
        BY <2>2, ChanLengths
    <2> QED
        BY <2>1, <2>3, AloofRests DEF RecvIgnored, Aloof, sendVars, recvVars, lifeVars
<1>5. CASE RecvCloseFinish(e)
    <2>1. rx[e] # NoPacket
        BY <1>5, PacketType DEF RecvCloseFinish
    <2> QED
        BY <1>1, <1>5, <2>1 DEF RecvCloseFinish, PeerClosed, Rests, Working
<1>6. CASE FlushEndDeliver(e)
    <2>1. Working(e)
        BY <1>6 DEF FlushEndDeliver, Working, FlushTasks
    <2>2. HandleSequence(e, rx[e], chan)
        BY <1>6 DEF FlushEndDeliver
    <2>3. lostCalls[e] # 0
        BY <1>1
    <2>4. delivered' = delivered
        BY <2>2, <2>3, Zenon DEF HandleSequence
    <2> QED
        BY <1>6, <2>1, <2>4 DEF FlushEndDeliver, Rests, lifeVars
<1>7. CASE CloseStart(e)
    BY <1>1, <1>7, AloofRests DEF CloseStart, Aloof, sendVars, recvVars, netVars
<1>8. CASE CloseSend(e)
    <2>1. UNCHANGED <<state, delivered, recvSeq, rx, chan>>
        BY <1>8 DEF CloseSend, recvVars
    <2>2. flushing'[e] = [flushing[e] EXCEPT !["timer"] = 0]
        BY <1>1, <1>8 DEF CloseSend, CancelTimerFlush
    <2>3. \A t \in FlushTasks : flushing'[e][t] > 0 => flushing[e][t] > 0
        BY <1>1, <2>2
    <2> QED
        BY <1>1, <2>1, <2>3 DEF Rests, Working
<1>9. CASE CloseFinish(e)
    BY <1>1, <1>9, AloofRests DEF CloseFinish, Aloof, sendVars, recvVars, netVars
<1>10. CASE TimerTick(e)
    <2>1. TickTimeout(e)
        BY <1>10 DEF TimerTick, TickRetransmit, TickProbe, TickClosing
    <2> QED
        BY <1>1, <2>1, AloofRests DEF TickTimeout, Aloof, sendVars, recvVars, netVars
<1>11. CASE Lose(e)
    BY <1>1, <1>11, AloofRests, ChanLengths DEF Lose, Aloof, sendVars, recvVars, lifeVars
<1>12. ASSUME NEW t \in FlushTasks, FlushStep(e, t) PROVE Rests(e)
    <2>1. Working(e)
        BY <1>12 DEF FlushStep, FlushSend, FlushRaise, FlushEnd, Working
    <2>2. UNCHANGED <<state, delivered>>
        BY <1>12 DEF FlushStep, FlushSend, FlushRaise, FlushEnd, recvVars, lifeVars
    <2> QED
        BY <2>1, <2>2 DEF Rests
<1> QED
    BY <1>2, <1>3, <1>4, <1>5, <1>6, <1>7, <1>8, <1>9, <1>10, <1>11, <1>12 DEF CloseStep

(* CLOSED is final, whatever suspends or raises: the state does not change *)
(* again, the program is handed nothing, and only a task that was in the   *)
(* middle of a send still sends or receives.                               *)
THEOREM ClosedStaysClosed == Spec => ClosedIsFinal
<1>1. TypeOK /\ EndInv /\ [Next]_vars => [\A e \in Ends : state[e] = "CLOSED" => Rests(e)]_vars
    <2> SUFFICES ASSUME TypeOK, EndInv, Next, NEW e \in Ends, state[e] = "CLOSED"
                 PROVE  Rests(e)
        OBVIOUS
    <2>1. CASE NextInterval
        <3>1. Len(chan[e]) \in Nat
            BY ChanLengths
        <3> QED
            BY <2>1, <3>1, AloofRests DEF NextInterval, Aloof, sendVars, recvVars, netVars
    <2> QED
        BY <2>1, Elsewhere, AloofRests, ClosedSteps DEF Next
<1>2. TypeOK /\ EndInv /\ [Next]_vars =>
        [\A e \in Ends : state[e] = "CLOSED" =>
            /\ state'[e] = "CLOSED" /\ delivered'[e] = delivered[e]
            /\ Working(e) \/ /\ ~Working(e)' /\ recvSeq'[e] = recvSeq[e]
                             /\ Len(chan'[e]) <= Len(chan[e])]_vars
    BY <1>1 DEF Rests
<1> QED
    BY <1>2, EndSafe, TypeCorrect, PTL DEF Spec, ClosedIsFinal

===============================================================================

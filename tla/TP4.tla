---------------------------------- MODULE TP4 ----------------------------------
(***************************************************************************)
(* TP4 connections between two nodes (retro_net/protocols/osi/             *)
(* tp4_manager.py): connect and its polling, the handlers of the five      *)
(* PDUs, data and close tasks.  There are no timers, acknowledgements or   *)
(* retransmissions in the code.                                            *)
(*                                                                         *)
(* conn[n][i] is the i-th connection of node n; its local_ref is 999 + i.  *)
(* The k-th write on a connection carries the number k.  A node handles    *)
(* one PDU at a time (Node.run); `await send' suspends only under          *)
(* backpressure, and only _handle_dr has work left after it.               *)
(***************************************************************************)
EXTENDS Integers, Sequences, FiniteSets

CONSTANTS
    MaxPolls,       \* rounds of connect's wait (50 in the code)
    Backpressure,   \* may an `await send' suspend the sending task?
    Closers,        \* nodes whose program may close its connections
    Opens,          \* bound: calls of connect per node
    MaxWrites,      \* bound: writes per connection
    MaxId,          \* bound on the ids that occur, for the liveness properties
    MaxLost,        \* bound: PDUs lost between the nodes
    MaxFail         \* bound: sends that raise

Nodes == {"A", "B"}
Peer(n) == IF n = "A" THEN "B" ELSE "A"

ASSUME TP4Assumption ==
    /\ MaxPolls \in Nat /\ Backpressure \in BOOLEAN /\ Closers \subseteq Nodes
    /\ Opens \in [Nodes -> Nat]
    /\ MaxWrites \in Nat /\ MaxId \in Nat /\ MaxLost \in Nat /\ MaxFail \in Nat

VARIABLES
    conn,       \* conn[n]: the connections of node n, by local_ref
    tasks,      \* tasks[n]: created and not started send_data, close_connection
    chan,       \* chan[n]: PDUs sent by n and not yet received
    lost,       \* PDUs lost so far
    failed      \* sends that have raised so far

vars == <<conn, tasks, chan, lost, failed>>

-------------------------------------------------------------------------------
PDU(type, src, dst, data) == [type |-> type, src |-> src, dst |-> dst, data |-> data]

NewConn(state, remote, call) ==
    [state    |-> state,
     remote   |-> remote,   \* remote_ref, 0 when unknown
     call     |-> call,     \* connect: waiting, returned, raised; none if accepted
     polls    |-> 0,        \* rounds connect has waited
     listed   |-> TRUE,     \* in manager.connections
     eof      |-> FALSE,    \* reader.feed_eof was called
     received |-> <<>>,     \* history: data fed to the reader
     written  |-> 0,        \* history: writes by the program
     closing  |-> FALSE,    \* history: the program called close
     handler  |-> "none"]   \* suspended half of _handle_dr

Ids(n) == DOMAIN conn[n]
Id(n) == Len(conn[n]) + 1
Replace(n, i, c) == conn' = [conn EXCEPT ![n][i] = c]

Put(c, n, p) == [c EXCEPT ![n] = Append(@, p)]
Rest(n) == [chan EXCEPT ![Peer(n)] = Tail(@)]

Sent(c, n, p) == chan' = Put(c, n, p) /\ UNCHANGED failed
Raised(c) == failed < MaxFail /\ failed' = failed + 1 /\ chan' = c

-------------------------------------------------------------------------------
Init ==
    /\ conn = [n \in Nodes |-> <<>>]
    /\ tasks = [n \in Nodes |-> <<>>]
    /\ chan = [n \in Nodes |-> <<>>]
    /\ lost = 0
    /\ failed = 0

(* connect up to its wait.  If sending CR raises so does connect.          *)
Connect(n) ==
    /\ Cardinality({i \in Ids(n) : conn[n][i].call # "none"}) < Opens[n]
    /\ \/ /\ conn' = [conn EXCEPT ![n] = Append(@, NewConn("SYN_SENT", 0, "waiting"))]
          /\ Sent(chan, n, PDU("CR", Id(n), 0, 0))
       \/ /\ conn' = [conn EXCEPT ![n] = Append(@, NewConn("SYN_SENT", 0, "raised"))]
          /\ Raised(chan)
    /\ UNCHANGED <<tasks, lost>>

PollsLeftOneMore(c) == c.polls <= MaxPolls               \* mutant of PollsLeft
PollsLeft(c) == c.polls < MaxPolls
TimedOutSilently(c) == c                                 \* mutant of TimedOut
TimedOut(c) == [c EXCEPT !.call = "raised"]

(* A round of connect's wait; the last one does not look at the state.     *)
Poll(n) ==
    \E i \in Ids(n) :
        LET c == conn[n][i]
        IN  /\ c.call = "waiting"
            /\ \/ /\ PollsLeft(c) /\ c.state = "ESTABLISHED"
                  /\ Replace(n, i, [c EXCEPT !.call = "returned"])
               \/ /\ PollsLeft(c) /\ c.state # "ESTABLISHED"
                  /\ Replace(n, i, [c EXCEPT !.polls = @ + 1])
               \/ /\ ~PollsLeft(c)
                  /\ Replace(n, i, TimedOut(c))
            /\ UNCHANGED <<tasks, chan, lost, failed>>

-------------------------------------------------------------------------------
(* The program, on connections that connect returned or that were accepted *)
(* (it finds those in manager.connections, as the repository's test does). *)

InUse(c) == c.call \in {"none", "returned"} /\ ~c.closing

(* StreamWriter.write: a task of send_data.                                *)
Write(n) ==
    \E i \in Ids(n) :
        LET c == conn[n][i]
        IN  /\ InUse(c) /\ c.written < MaxWrites
            /\ Replace(n, i, [c EXCEPT !.written = @ + 1])
            /\ tasks' = [tasks EXCEPT ![n] =
                            Append(@, [kind |-> "data", id |-> i, data |-> c.written + 1])]
            /\ UNCHANGED <<chan, lost, failed>>

ClosedAtOnce(c) == [c EXCEPT !.closing = TRUE, !.state = "FIN_WAIT"] \* mutant of CloseCalled
CloseCalled(c) == [c EXCEPT !.closing = TRUE]

(* TP4Connection.close: a task of close_connection.                        *)
Close(n) ==
    \E i \in Ids(n) :
        /\ n \in Closers /\ InUse(conn[n][i])
        /\ Replace(n, i, CloseCalled(conn[n][i]))
        /\ tasks' = [tasks EXCEPT ![n] =
                        Append(@, [kind |-> "close", id |-> i, data |-> 0])]
        /\ UNCHANGED <<chan, lost, failed>>

-------------------------------------------------------------------------------
(* Tasks start in the order of their creation.                             *)

DueLast(n) == Len(tasks[n])                              \* mutant of Due
Due(n) == 1

Started(n) ==
    tasks' = [tasks EXCEPT ![n] =
                SubSeq(@, 1, Due(n) - 1) \o SubSeq(@, Due(n) + 1, Len(@))]

(* send_data: outside ESTABLISHED the data are dropped.                    *)
SendData(n) ==
    /\ tasks[n] # <<>>
    /\ LET t == tasks[n][Due(n)]
           c == conn[n][t.id]
       IN  /\ t.kind = "data"
           /\ \/ c.state # "ESTABLISHED" /\ UNCHANGED <<chan, failed>>
              \/ c.state = "ESTABLISHED" /\ Sent(chan, n, PDU("DT", t.id, c.remote, t.data))
              \/ c.state = "ESTABLISHED" /\ Raised(chan)
    /\ Started(n)
    /\ UNCHANGED <<conn, lost>>

NeedsCloseAlways(c) == TRUE                              \* mutant of NeedsClose
NeedsClose(c) == c.state # "CLOSED"

(* close_connection.                                                       *)
CloseConnection(n) ==
    /\ tasks[n] # <<>>
    /\ LET t == tasks[n][Due(n)]
           c == conn[n][t.id]
       IN  /\ t.kind = "close"
           /\ \/ ~NeedsClose(c) /\ UNCHANGED <<conn, chan, failed>>
              \/ /\ NeedsClose(c)
                 /\ Replace(n, t.id, [c EXCEPT !.state = "FIN_WAIT"])
                 /\ \/ Sent(chan, n, PDU("DR", t.id, c.remote, 0))
                    \/ Raised(chan)
    /\ Started(n)
    /\ UNCHANGED lost

-------------------------------------------------------------------------------
(* Receiving: handle_pdu.                                                  *)

Waiting(n) == Head(chan[Peer(n)])
Dispatching(n) == chan[Peer(n)] # <<>> /\ \A i \in Ids(n) : conn[n][i].handler = "none"
Receiving(n, type) == Dispatching(n) /\ Waiting(n).type = type

(* The PDU is for connection i of n.                                       *)
For(n, i) == Waiting(n).dst = i /\ conn[n][i].listed

(* _handle_cr: every CR is accepted.                                       *)
RecvCR(n) ==
    /\ Receiving(n, "CR")
    /\ conn' = [conn EXCEPT ![n] =
                    Append(@, NewConn("ESTABLISHED", Waiting(n).src, "none"))]
    /\ \/ Sent(Rest(n), n, PDU("CC", Id(n), Waiting(n).src, 0))
       \/ Raised(Rest(n))
    /\ UNCHANGED <<tasks, lost>>

(* _handle_cc.                                                             *)
RecvCC(n) ==
    \E i \in Ids(n) :
        /\ Receiving(n, "CC") /\ For(n, i) /\ conn[n][i].state = "SYN_SENT"
        /\ Replace(n, i, [conn[n][i] EXCEPT !.state = "ESTABLISHED",
                                            !.remote = Waiting(n).src])
        /\ chan' = Rest(n)
        /\ UNCHANGED <<tasks, lost, failed>>

(* _handle_dr: closed, then DC, then out of the dictionary; if DC raises   *)
(* the connection stays there.                                             *)
RecvDR(n) ==
    \E i \in Ids(n) :
        LET c == [conn[n][i] EXCEPT !.state = "CLOSED", !.eof = TRUE]
        IN  /\ Receiving(n, "DR") /\ For(n, i)
            /\ \/ /\ Sent(Rest(n), n, PDU("DC", i, c.remote, 0))
                  /\ \/ Replace(n, i, [c EXCEPT !.listed = FALSE])
                     \/ Backpressure /\ Replace(n, i, [c EXCEPT !.handler = "removing"])
               \/ Raised(Rest(n)) /\ Replace(n, i, c)
            /\ UNCHANGED <<tasks, lost>>

HandlerResumes(n) ==
    \E i \in Ids(n) :
        /\ conn[n][i].handler = "removing"
        /\ Replace(n, i, [conn[n][i] EXCEPT !.handler = "none", !.listed = FALSE])
        /\ UNCHANGED <<tasks, chan, lost, failed>>

ConfirmsOpen(c) == c.state = "ESTABLISHED"               \* mutant of AwaitsDC
AwaitsDC(c) == c.state = "FIN_WAIT"

DisconnectedListed(c) == [c EXCEPT !.state = "CLOSED", !.eof = TRUE] \* mutant of Disconnected
Disconnected(c) == [c EXCEPT !.state = "CLOSED", !.eof = TRUE, !.listed = FALSE]

(* _handle_dc.                                                             *)
RecvDC(n) ==
    \E i \in Ids(n) :
        /\ Receiving(n, "DC") /\ For(n, i) /\ AwaitsDC(conn[n][i])
        /\ Replace(n, i, Disconnected(conn[n][i]))
        /\ chan' = Rest(n)
        /\ UNCHANGED <<tasks, lost, failed>>

(* _handle_dt.                                                             *)
RecvDT(n) ==
    \E i \in Ids(n) :
        /\ Receiving(n, "DT") /\ For(n, i) /\ conn[n][i].state = "ESTABLISHED"
        /\ Replace(n, i, [conn[n][i] EXCEPT !.received = Append(@, Waiting(n).data)])
        /\ chan' = Rest(n)
        /\ UNCHANGED <<tasks, lost, failed>>

(* CC, DC or DT that its connection does not expect, or has none.          *)
RecvIgnored(n) ==
    /\ \/ Receiving(n, "CC") /\ \A i \in Ids(n) : For(n, i) => conn[n][i].state # "SYN_SENT"
       \/ Receiving(n, "DC") /\ \A i \in Ids(n) : For(n, i) => ~AwaitsDC(conn[n][i])
       \/ Receiving(n, "DT") /\ \A i \in Ids(n) : For(n, i) => conn[n][i].state # "ESTABLISHED"
       \/ Receiving(n, "DR") /\ \A i \in Ids(n) : ~For(n, i)
    /\ chan' = Rest(n)
    /\ UNCHANGED <<conn, tasks, lost, failed>>

Receive(n) ==
    RecvCR(n) \/ RecvCC(n) \/ RecvDR(n) \/ RecvDC(n) \/ RecvDT(n) \/ RecvIgnored(n)

Lose(n) ==
    /\ lost < MaxLost
    /\ \E i \in 1..Len(chan[n]) :
        chan' = [chan EXCEPT ![n] = SubSeq(@, 1, i - 1) \o SubSeq(@, i + 1, Len(@))]
    /\ lost' = lost + 1
    /\ UNCHANGED <<conn, tasks, failed>>

-------------------------------------------------------------------------------
Program(n) == Connect(n) \/ Write(n) \/ Close(n)
Step(n) == Poll(n) \/ SendData(n) \/ CloseConnection(n) \/ Receive(n) \/ HandlerResumes(n)

Next == \E n \in Nodes : Program(n) \/ Step(n) \/ Lose(n)

Spec == Init /\ [][Next]_vars

(* asyncio runs what is ready and nodes keep reading.                      *)
Fairness ==
    \A n \in Nodes :
        /\ WF_vars(Poll(n)) /\ WF_vars(SendData(n) \/ CloseConnection(n))
        /\ WF_vars(Receive(n)) /\ WF_vars(HandlerResumes(n))

FairSpec == Spec /\ Fairness
-------------------------------------------------------------------------------
(* Properties.                                                             *)

Connections ==
    [state : {"SYN_SENT", "ESTABLISHED", "FIN_WAIT", "CLOSED"}, remote : Nat,
     call : {"none", "waiting", "returned", "raised"}, polls : 0..MaxPolls,
     listed : BOOLEAN, eof : BOOLEAN, received : Seq(1..MaxWrites),
     written : 0..MaxWrites, closing : BOOLEAN, handler : {"none", "removing"}]

(* Every variable keeps its type, and a task is about a connection of its  *)
(* node.                                                                   *)
TypeOK ==
    /\ conn \in [Nodes -> Seq(Connections)]
    /\ \A n \in Nodes : \A k \in DOMAIN tasks[n] : tasks[n][k] \in
            [kind : {"data", "close"}, id : Ids(n), data : 0..MaxWrites]
    /\ chan \in [Nodes -> Seq([type : {"CR", "CC", "DR", "DC", "DT"}, src : Nat,
                               dst : Nat, data : 0..MaxWrites])]
    /\ lost \in 0..MaxLost /\ failed \in 0..MaxFail

Reliable == lost = 0 /\ failed = 0

(* The connection at the other node that i at n is connected to.           *)
Other(n, i) == conn[Peer(n)][conn[n][i].remote]

(* Data arrive in the order of their writes and at most once; gaps are     *)
(* only what was lost or what a send that raised has dropped.              *)
InOrder ==
    \A n \in Nodes : \A i \in Ids(n) :
        LET r == conn[n][i].received
        IN  /\ \A j, k \in DOMAIN r : j < k => r[j] < r[k]
            /\ Reliable => \A k \in DOMAIN r : r[k] = k

(* A reader that sees the end of the stream because its peer closed, while *)
(* its own side did not close, has been given all that the peer wrote.     *)
CompleteAtEOF ==
    \A n \in Nodes : \A i \in Ids(n) :
        conn[n][i].eof /\ ~conn[n][i].closing /\ Reliable =>
            Len(conn[n][i].received) = Other(n, i).written

(* As long as no send raises, and but for the moment in which DC is sent,  *)
(* a connection is in the dictionary exactly until it is CLOSED.           *)
Retired ==
    \A n \in Nodes : \A i \in Ids(n) :
        /\ ~conn[n][i].listed => conn[n][i].state = "CLOSED"
        /\ conn[n][i].state = "CLOSED" /\ failed = 0 =>
            ~conn[n][i].listed \/ conn[n][i].handler = "removing"

(* A connection that has left the dictionary has ended for its program,    *)
(* and nothing of it comes back.                                           *)
EndIsFinal ==
    [][\A n \in Nodes : \A i \in Ids(n) : conn[n][i].eof =>
        /\ conn'[n][i].state = "CLOSED"
        /\ conn'[n][i].received = conn[n][i].received]_vars

(* MaxId names every connection that occurs.                               *)
IdsBounded == \A n \in Nodes : Len(conn[n]) <= MaxId

(* connect returns or raises.                                              *)
Waits(n, i) == i \in Ids(n) /\ conn[n][i].call = "waiting"
ConnectReturns ==
    /\ []IdsBounded
    /\ \A n \in Nodes, i \in 1..MaxId : Waits(n, i) ~> ~Waits(n, i)

(* A close ends the connection at both sides, unless a PDU is lost.        *)
Ended(n, i) == i \in Ids(n) /\ ~conn[n][i].listed
BothEnd ==
    /\ []IdsBounded
    /\ \A n \in Nodes, i \in 1..MaxId :
        (i \in Ids(n) /\ conn[n][i].closing)
            ~> (Ended(n, i) /\ Ended(Peer(n), conn[n][i].remote)) \/ ~Reliable
===============================================================================

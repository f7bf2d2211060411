------------------------------ MODULE ADSPSession ------------------------------
(***************************************************************************)
(* How ADSP connections come and go (retro_net/protocols/appletalk/adsp.py)*)
(* ADSPManager of two nodes: open_connection, the listener, the three-way  *)
(* handshake OPEN_CONN_REQ / REQ_ACK / ACK with its retransmissions, the   *)
(* probes and the dead-connection check of the timer, and the close.  What *)
(* travels over an OPEN connection is ADSPStream; here every send buffer   *)
(* is empty.                                                               *)
(*                                                                         *)
(* conn[n][i] is the connection with local_conn_id i at node n: ids are    *)
(* 1, 2, ... in the order of creation.  A connection object may outlive    *)
(* its entry in the manager's dictionary (listed).  Every connection of a  *)
(* node uses one ADSP socket, the one its listener listens on.             *)
(*                                                                         *)
(* Grain.  An action is the code between two suspensions of a task.  An    *)
(* `await send' suspends only under backpressure (Backpressure); `handler' *)
(* and `close' name what is left to do after it.  A node handles one       *)
(* message at a time (Node.run).                                           *)
(***************************************************************************)
EXTENDS Integers, Sequences, FiniteSets

CONSTANTS
    TimeoutTicks,   \* _timeout_interval in units of _retransmit_interval (10)
    Backpressure,   \* may an `await send' suspend the sending task?
    Prompt,         \* is a round trip shorter than _retransmit_interval?
    Listeners,      \* nodes that call start_server
    Closers,        \* nodes whose program may close its connections
    Opens,          \* bound: calls of open_connection per node
    MaxId,          \* bound on the ids that occur, for the liveness properties
    MaxLost,        \* bound: packets lost between the nodes
    MaxFail,        \* bound: sends that raise
    ChanCap         \* bound: packets in flight per direction, more are lost

Nodes == {"A", "B"}
Peer(n) == IF n = "A" THEN "B" ELSE "A"

ASSUME SessionAssumption ==
    /\ TimeoutTicks \in Nat \ {0}
    /\ Backpressure \in BOOLEAN /\ Prompt \in BOOLEAN
    /\ Listeners \subseteq Nodes /\ Closers \subseteq Nodes
    /\ Opens \in [Nodes -> Nat]
    /\ MaxId \in Nat /\ MaxLost \in Nat /\ MaxFail \in Nat /\ ChanCap \in Nat

VARIABLES
    conn,       \* conn[n]: the connections of node n, by local_conn_id
    listening,  \* nodes with an entry in manager.listeners
    chan,       \* chan[n]: packets sent by n and not yet received
    lost,       \* packets lost so far
    failed      \* sends that have raised so far

netVars == <<chan, lost, failed>>
vars == <<conn, listening, netVars>>

-------------------------------------------------------------------------------
(* Packets and connections.                                                *)

Packet(code, src, dst) == [code |-> code, src |-> src, dst |-> dst]

(* A fresh ADSPConnection in OPENING, its timer started.                   *)
NewConn(opener, remote, future) ==
    [state   |-> "OPENING",
     remote  |-> remote,    \* remote_conn_id, 0 when unknown
     opener  |-> opener,    \* made by open_connection, not by the listener
     future  |-> future,    \* how open_connection stands
     listed  |-> TRUE,      \* in manager.connections
     made    |-> 0,         \* history: calls of connection_made
     gone    |-> 0,         \* history: calls of connection_lost
     timer   |-> "running",
     idle    |-> 0,         \* ticks since the last packet
     ticked  |-> FALSE,     \* has the timer fired in this interval?
     handler |-> "none",    \* suspended half of process_packet
     close   |-> "none"]    \* task of close_connection

Ids(n) == DOMAIN conn[n]
Id(n) == Len(conn[n]) + 1
Replace(n, i, c) == conn' = [conn EXCEPT ![n][i] = c]

(* The channels c after n has sent p.                                      *)
Put(c, n, p) == IF Len(c[n]) < ChanCap THEN [c EXCEPT ![n] = Append(@, p)] ELSE c
Rest(n) == [chan EXCEPT ![Peer(n)] = Tail(@)]

Sent(c, n, p) == chan' = Put(c, n, p) /\ UNCHANGED failed
Raised(c) == failed < MaxFail /\ failed' = failed + 1 /\ chan' = c

ReqAck(n, i) == Packet("req_ack", i, conn[n][i].remote)

-------------------------------------------------------------------------------
Init ==
    /\ conn = [n \in Nodes |-> <<>>]
    /\ listening = Listeners
    /\ chan = [n \in Nodes |-> <<>>]
    /\ lost = 0
    /\ failed = 0

(* open_connection: the connection is listed and its timer runs before     *)
(* OPEN_CONN_REQ is sent; if that raises so does open_connection.          *)
OpenConnection(n) ==
    /\ Cardinality({i \in Ids(n) : conn[n][i].opener}) < Opens[n]
    /\ \/ /\ conn' = [conn EXCEPT ![n] = Append(@, NewConn(TRUE, 0, "pending"))]
          /\ Sent(chan, n, Packet("req", Id(n), 0))
       \/ /\ conn' = [conn EXCEPT ![n] = Append(@, NewConn(TRUE, 0, "raised"))]
          /\ Raised(chan)
    /\ UNCHANGED <<listening, lost>>

StopListening(n) ==
    /\ n \in Closers \cap listening
    /\ listening' = listening \ {n}
    /\ UNCHANGED <<conn, netVars>>

-------------------------------------------------------------------------------
(* Receiving: handle_incoming, process_packet.                             *)

Waiting(n) == Head(chan[Peer(n)])

(* Node n takes the next packet, having handled the one before.            *)
Receiving(n) ==
    /\ chan[Peer(n)] # <<>>
    /\ \A i \in Ids(n) : conn[n][i].handler = "none"

(* The packet is for connection i of n.                                    *)
For(n, i) == Waiting(n).dst = i /\ conn[n][i].listed

Heard(c) == [c EXCEPT !.idle = 0]

(* OPEN_CONN_REQ, first or repeated, makes a connection of its own.        *)
RecvRequest(n) ==
    /\ Receiving(n) /\ Waiting(n).code = "req" /\ n \in listening
    /\ conn' = [conn EXCEPT ![n] = Append(@, NewConn(FALSE, Waiting(n).src, "none"))]
    /\ \/ Sent(Rest(n), n, Packet("req_ack", Id(n), Waiting(n).src))
       \/ Raised(Rest(n))
    /\ UNCHANGED <<listening, lost>>

(* Nobody listens, or the connection is gone.                              *)
RecvDropped(n) ==
    /\ Receiving(n)
    /\ \/ Waiting(n).code = "req" /\ n \notin listening
       \/ Waiting(n).code # "req" /\ \A i \in Ids(n) : ~For(n, i)
    /\ chan' = Rest(n)
    /\ UNCHANGED <<conn, listening, lost, failed>>

OpeningOrOpen(c) == c.state \in {"OPENING", "OPEN"}      \* mutant of Opening
Opening(c) == c.state = "OPENING"

Remote(p) == p.src

OpenedUntold(c) ==                                       \* mutant of Opened
    [c EXCEPT !.state = "OPEN", !.made = @ + 1, !.handler = "none"]

(* The end of the OPEN_CONN_REQ_ACK branch, after OPEN_CONN_ACK is sent.   *)
Opened(c) ==
    [c EXCEPT !.state = "OPEN", !.made = @ + 1, !.handler = "none",
              !.future = IF @ = "pending" THEN "done" ELSE @]

(* OPEN_CONN_REQ_ACK while OPENING.                                        *)
RecvReqAck(n) ==
    \E i \in Ids(n) :
        LET c == Heard(conn[n][i])
            bound == [c EXCEPT !.remote = Remote(Waiting(n))]
        IN  /\ Receiving(n) /\ For(n, i)
            /\ Waiting(n).code = "req_ack" /\ Opening(c)
            /\ \/ /\ Sent(Rest(n), n, Packet("open_ack", i, bound.remote))
                  /\ \/ Replace(n, i, Opened(bound))
                     \/ Backpressure /\ Replace(n, i, [bound EXCEPT !.handler = "opening"])
               \/ Raised(Rest(n)) /\ Replace(n, i, bound)
            /\ UNCHANGED <<listening, lost>>

(* OPEN_CONN_ACK while OPENING.                                            *)
RecvOpenAck(n) ==
    \E i \in Ids(n) :
        LET c == Heard(conn[n][i])
        IN  /\ Receiving(n) /\ For(n, i)
            /\ Waiting(n).code = "open_ack" /\ Opening(c)
            /\ Replace(n, i, [c EXCEPT !.state = "OPEN", !.made = @ + 1])
            /\ chan' = Rest(n)
            /\ UNCHANGED <<listening, lost, failed>>

(* A packet the state has no use for, and probes: only the time is noted.  *)
RecvNoted(n) ==
    \E i \in Ids(n) :
        LET c == Heard(conn[n][i])
        IN  /\ Receiving(n) /\ For(n, i)
            /\ \/ Waiting(n).code = "probe"
               \/ Waiting(n).code \in {"req_ack", "open_ack"} /\ ~Opening(c)
            /\ Replace(n, i, c)
            /\ chan' = Rest(n)
            /\ UNCHANGED <<listening, lost, failed>>

PeerClosedListed(c) ==                                   \* mutant of PeerClosed
    [c EXCEPT !.state = "CLOSED", !.gone = @ + 1, !.timer = "stopped",
              !.handler = "none"]
PeerClosed(c) ==
    [c EXCEPT !.state = "CLOSED", !.gone = @ + 1, !.listed = FALSE,
              !.timer = "stopped", !.handler = "none"]

(* CLOSE_CONN: answered unless CLOSING; if the answer raises, nothing else *)
(* happens.                                                                *)
RecvClose(n) ==
    \E i \in Ids(n) :
        LET c == Heard(conn[n][i])
        IN  /\ Receiving(n) /\ For(n, i) /\ Waiting(n).code = "close"
            /\ \/ /\ c.state = "CLOSING"
                  /\ chan' = Rest(n) /\ UNCHANGED failed
                  /\ Replace(n, i, PeerClosed(c))
               \/ /\ c.state # "CLOSING"
                  /\ Sent(Rest(n), n, Packet("close", i, c.remote))
                  /\ \/ Replace(n, i, PeerClosed(c))
                     \/ Backpressure /\ Replace(n, i, [c EXCEPT !.handler = "answering"])
               \/ c.state # "CLOSING" /\ Raised(Rest(n)) /\ Replace(n, i, c)
            /\ UNCHANGED <<listening, lost>>

(* The suspended send of the handler is over.                              *)
HandlerResumes(n) ==
    \E i \in Ids(n) :
        /\ \/ conn[n][i].handler = "opening" /\ Replace(n, i, Opened(conn[n][i]))
           \/ conn[n][i].handler = "answering" /\ Replace(n, i, PeerClosed(conn[n][i]))
        /\ UNCHANGED <<listening, netVars>>

Receive(n) ==
    RecvRequest(n) \/ RecvDropped(n) \/ RecvReqAck(n) \/ RecvOpenAck(n)
        \/ RecvNoted(n) \/ RecvClose(n)

-------------------------------------------------------------------------------
(* Closing.                                                                *)

(* The program holds a transport once its end of the connection was made.  *)
HasTransport(c) == IF c.opener THEN c.future = "done" ELSE c.made > 0

(* ADSPTransport.close.                                                    *)
Close(n) ==
    \E i \in Ids(n) :
        /\ n \in Closers /\ HasTransport(conn[n][i]) /\ conn[n][i].close = "none"
        /\ Replace(n, i, [conn[n][i] EXCEPT !.close = "created", !.gone = @ + 1])
        /\ UNCHANGED <<listening, netVars>>

Closed(c) == [c EXCEPT !.state = "CLOSED", !.listed = FALSE, !.close = "done"]

NeedsCloseAlways(c) == TRUE                              \* mutant of NeedsClose
NeedsClose(c) == c.state \notin {"CLOSED", "CLOSING"}

(* The task of close_connection.                                           *)
CloseConnection(n) ==
    \E i \in Ids(n) :
        LET c == conn[n][i]
            closing == [c EXCEPT !.state = "CLOSING", !.timer = "stopped"]
        IN  /\ c.close = "created"
            /\ \/ /\ ~NeedsClose(c)
                  /\ Replace(n, i, [c EXCEPT !.close = "done"])
                  /\ UNCHANGED <<chan, failed>>
               \/ /\ NeedsClose(c)
                  /\ Sent(chan, n, Packet("close", i, c.remote))
                  /\ \/ Replace(n, i, Closed(closing))
                     \/ Backpressure /\ Replace(n, i, [closing EXCEPT !.close = "sending"])
               \/ /\ NeedsClose(c)
                  /\ Raised(chan)
                  /\ Replace(n, i, [closing EXCEPT !.close = "done"])
            /\ UNCHANGED <<listening, lost>>

CloseResumes(n) ==
    \E i \in Ids(n) :
        /\ conn[n][i].close = "sending"
        /\ Replace(n, i, Closed(conn[n][i]))
        /\ UNCHANGED <<listening, netVars>>

-------------------------------------------------------------------------------
(* The timer and the passing of time.                                      *)

Ticks(c) == c.timer = "running" /\ ~c.ticked

ForceClosedPending(c) ==                                 \* mutant of ForceClosed
    [c EXCEPT !.state = "CLOSED", !.gone = @ + 1, !.listed = FALSE,
              !.timer = "stopped"]
ForceClosedListed(c) ==                                  \* mutant of ForceClosed
    [c EXCEPT !.state = "CLOSED", !.gone = @ + 1, !.timer = "stopped",
              !.future = IF @ = "pending" THEN "raised" ELSE @]
ForceClosed(c) ==
    [c EXCEPT !.state = "CLOSED", !.gone = @ + 1, !.listed = FALSE,
              !.timer = "stopped",
              !.future = IF @ = "pending" THEN "raised" ELSE @]

TimedOutLate(c) == c.idle > TimeoutTicks                 \* mutant of TimedOut
TimedOut(c) == c.idle = TimeoutTicks

TickTimeout(n) ==
    \E i \in Ids(n) :
        /\ Ticks(conn[n][i]) /\ TimedOut(conn[n][i])
        /\ Replace(n, i, ForceClosed(conn[n][i]))
        /\ UNCHANGED <<listening, netVars>>

(* What the timer sends: the handshake packet of its side again, a probe.  *)
TimerPacket(n, i) ==
    LET c == conn[n][i]
    IN  IF c.state = "OPEN" THEN Packet("probe", i, c.remote)
        ELSE IF c.remote = 0 THEN Packet("req", i, 0)
        ELSE ReqAck(n, i)

TickSend(n) ==
    \E i \in Ids(n) :
        LET c == [conn[n][i] EXCEPT !.idle = @ + 1, !.ticked = TRUE]
        IN  /\ Ticks(conn[n][i]) /\ ~TimedOut(conn[n][i])
            /\ c.state \in {"OPENING", "OPEN"}
            /\ \/ Sent(chan, n, TimerPacket(n, i)) /\ Replace(n, i, c)
               \/ Raised(chan) /\ Replace(n, i, [c EXCEPT !.timer = "dead"])
            /\ UNCHANGED <<listening, lost>>

Quiet ==
    \A n \in Nodes :
        /\ chan[n] = <<>>
        /\ \A i \in Ids(n) :
            conn[n][i].handler = "none" /\ conn[n][i].close \in {"none", "done"}

(* The next _retransmit_interval begins: clocks run at the same rate.      *)
NextInterval ==
    /\ \E n \in Nodes : \E i \in Ids(n) : conn[n][i].ticked
    /\ \A n \in Nodes : \A i \in Ids(n) : ~Ticks(conn[n][i])
    /\ Prompt => Quiet
    /\ conn' = [n \in Nodes |->
                    [i \in Ids(n) |-> [conn[n][i] EXCEPT !.ticked = FALSE]]]
    /\ UNCHANGED <<listening, netVars>>

Lose(n) ==
    /\ lost < MaxLost
    /\ \E i \in 1..Len(chan[n]) :
        chan' = [chan EXCEPT ![n] = SubSeq(@, 1, i - 1) \o SubSeq(@, i + 1, Len(@))]
    /\ lost' = lost + 1
    /\ UNCHANGED <<conn, listening, failed>>

-------------------------------------------------------------------------------
Program(n) == OpenConnection(n) \/ StopListening(n) \/ Close(n)

Step(n) ==
    Receive(n) \/ HandlerResumes(n) \/ CloseConnection(n) \/ CloseResumes(n)
        \/ TickTimeout(n) \/ TickSend(n)

Next ==
    \/ \E n \in Nodes : Program(n) \/ Step(n) \/ Lose(n)
    \/ NextInterval

Spec == Init /\ [][Next]_vars

(* asyncio runs what is ready, nodes keep reading, time passes.            *)
Fairness ==
    /\ \A n \in Nodes :
        /\ WF_vars(Receive(n)) /\ WF_vars(HandlerResumes(n))
        /\ WF_vars(CloseConnection(n)) /\ WF_vars(CloseResumes(n))
        /\ WF_vars(TickTimeout(n) \/ TickSend(n))
    /\ WF_vars(NextInterval)

FairSpec == Spec /\ Fairness
-------------------------------------------------------------------------------
(* Properties.                                                             *)

Codes == {"req", "req_ack", "open_ack", "probe", "close"}

Connections ==
    [state : {"OPENING", "OPEN", "CLOSING", "CLOSED"}, remote : Nat,
     opener : BOOLEAN, future : {"none", "pending", "done", "raised"},
     listed : BOOLEAN, made : Nat, gone : Nat,
     timer : {"running", "stopped", "dead"}, idle : 0..TimeoutTicks,
     ticked : BOOLEAN, handler : {"none", "opening", "answering"},
     close : {"none", "created", "sending", "done"}]

(* Every variable keeps its type; the timer's clock stops at the timeout.  *)
TypeOK ==
    /\ conn \in [Nodes -> Seq(Connections)]
    /\ listening \subseteq Listeners
    /\ chan \in [Nodes -> Seq([code : Codes, src : Nat, dst : Nat])]
    /\ lost \in 0..MaxLost /\ failed \in 0..MaxFail

(* Connection j at the other node is the one that i at n is connected to.  *)
Acceptor(n, i) == conn[Peer(n)][conn[n][i].remote]

(* An accepted connection belongs to an opener of the peer.                *)
AcceptedForOpener ==
    \A n \in Nodes : \A i \in Ids(n) : ~conn[n][i].opener =>
        /\ conn[n][i].remote \in Ids(Peer(n))
        /\ Acceptor(n, i).opener

(* An opener is bound to a connection that was accepted for it.            *)
OpenerBound ==
    \A n \in Nodes : \A i \in Ids(n) :
        conn[n][i].opener /\ conn[n][i].remote # 0 =>
            /\ conn[n][i].remote \in Ids(Peer(n))
            /\ ~Acceptor(n, i).opener /\ Acceptor(n, i).remote = i

(* However often OPEN_CONN_REQ is repeated, and whatever order the answers *)
(* come in: only the connection the opener is bound to is handed to the    *)
(* accepting program, so each open_connection gives it at most one.        *)
OnlyBoundIsMade ==
    \A n \in Nodes : \A i \in Ids(n) :
        ~conn[n][i].opener /\ conn[n][i].made > 0 => Acceptor(n, i).remote = i

Paired == AcceptedForOpener /\ OpenerBound /\ OnlyBoundIsMade

(* What open_connection tells its caller is so: while it waits the         *)
(* connection is not OPEN, and if it raises none stays in the manager.     *)
OpenFaithful ==
    \A n \in Nodes : \A i \in Ids(n) :
        /\ conn[n][i].state = "OPEN" => conn[n][i].future # "pending"
        /\ conn[n][i].future = "raised" => ~conn[n][i].listed

(* A connection is in the manager's dictionary exactly until it is CLOSED, *)
(* and then its timer is not running: nothing is left behind.              *)
Retired ==
    \A n \in Nodes : \A i \in Ids(n) :
        /\ conn[n][i].listed <=> conn[n][i].state # "CLOSED"
        /\ ~conn[n][i].listed => conn[n][i].timer # "running"

(* A program is told of a connection at most once and never after it was   *)
(* told that the connection is lost.                                       *)
MadeBeforeGone ==
    [][\A n \in Nodes : \A i \in Ids(n) :
        conn'[n][i].made # conn[n][i].made =>
            conn[n][i].made = 0 /\ conn[n][i].gone = 0]_vars

(* CLOSED is final.                                                        *)
ClosedIsFinal ==
    [][\A n \in Nodes : \A i \in Ids(n) :
        conn[n][i].state = "CLOSED" => conn'[n][i].state = "CLOSED"]_vars

(* The ids 1..MaxId below are all there are.                               *)
IdsBounded == \A n \in Nodes : Len(conn[n]) <= MaxId

Is(n, i, P(_)) == i \in Ids(n) /\ P(conn[n][i])

Pending(c) == c.future = "pending"

(* open_connection returns or raises, whatever is lost.                    *)
OpenReturns ==
    /\ []IdsBounded
    /\ \A n \in Nodes, i \in 1..MaxId : Is(n, i, Pending) ~> ~Is(n, i, Pending)

(* A connection accepted for a repeated OPEN_CONN_REQ, which its opener    *)
(* never turns to, does not stay: it times out.                            *)
Orphan(n, i) ==
    /\ i \in Ids(n) /\ ~conn[n][i].opener /\ conn[n][i].listed
    /\ Acceptor(n, i).remote # i
OrphansGo ==
    /\ []IdsBounded
    /\ \A n \in Nodes, i \in 1..MaxId : Orphan(n, i) ~> ~Orphan(n, i)

(* The handshake comes to an end: when the opener is OPEN, so in the end   *)
(* is the other side, unless the connection ends.                          *)
HalfOpen(n, i) ==
    /\ i \in Ids(n) /\ conn[n][i].opener /\ conn[n][i].state = "OPEN"
    /\ Acceptor(n, i).state = "OPENING"
HandshakeCompletes ==
    \A n \in Nodes, i \in 1..MaxId : HalfOpen(n, i) ~> ~HalfOpen(n, i)
===============================================================================

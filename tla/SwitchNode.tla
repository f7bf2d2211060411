------------------------------ MODULE SwitchNode ------------------------------
(***************************************************************************)
(* The switch (retro_net/core/switch.py) and the nodes (core/node.py) that *)
(* connect to it, register and exchange datagrams through it.              *)
(*                                                                         *)
(* Connection <<n, k>> is the websocket of the k-th run of node n.  Its    *)
(* two ends learn at different moments that it is closed, and what is on   *)
(* its way by then is still read.  A websocket's send returns at once      *)
(* unless more than QueueCap messages wait to be read at the other end;    *)
(* then it suspends until they have been read or the connection is closed. *)
(*                                                                         *)
(* A message is identified by the connection it was sent over and its      *)
(* number there: 0 is the registration, sent[c][k] the destination of      *)
(* datagram k.  The switch forwards messages as they are.  It has a task   *)
(* per connection (its handler); a node handles one message at a time.     *)
(***************************************************************************)
EXTENDS Naturals, Sequences

CONSTANTS
    Nodes,      \* node ids
    Broadcast,  \* the id "*"
    QueueCap,   \* messages a connection holds before a send suspends
    Leavers,    \* nodes that may fail to connect, stop, disconnect or die
    MaxLife,    \* bound: runs of any node
    Lives,      \* bound: runs of each node
    MaxSends    \* bound: datagrams sent over a connection

ASSUME SwitchNodeAssumption ==
    /\ Broadcast \notin Nodes /\ Leavers \subseteq Nodes
    /\ QueueCap \in Nat \ {0} /\ MaxLife \in Nat /\ MaxSends \in Nat
    /\ Lives \in [Nodes -> 0..MaxLife]

Conns == Nodes \X (1..MaxLife)
Addresses == Nodes \cup {Broadcast}

VARIABLES
    nodes,      \* Switch.nodes: nodes[n] = k stands for <<n, k>>, 0 for no entry
    handler,    \* handle_client of a connection: reading, draining, ended
    named,      \* connections whose handler has set node_id
    target,     \* connection a draining handler has sent to
    server,     \* the switch's end of a connection
    client,     \* the node's end: left when closed by the node, else dropped
    up,         \* messages from node to switch, not yet read
    down,       \* messages from switch to node, not yet read
    life,       \* runs of a node so far
    phase,      \* where Node.run is
    running,    \* Node._running
    websocket,  \* Node.websocket is set
    inbox,      \* the message a node is handling
    sent,       \* history: destinations of the datagrams sent over a connection
    arrived     \* history: the datagrams of a connection each node has handled

switchVars  == <<nodes, handler, named, target, server>>
nodeVars    == <<client, life, phase, running, websocket, inbox>>
wireVars    == <<up, down>>
historyVars == <<sent, arrived>>
networkVars == <<switchVars, nodeVars, wireVars, historyVars>>

Message(c, k) == [from |-> c, num |-> k]
NoMessage == [from |-> <<>>, num |-> 0]

Current(n) == <<n, life[n]>>        \* the connection Node.run reads

SwitchInit ==
    /\ nodes = [n \in Nodes |-> 0]
    /\ handler = [c \in Conns |-> "none"]
    /\ named = {}
    /\ target = [c \in Conns |-> c]
    /\ server = [c \in Conns |-> "none"]
    /\ client = [c \in Conns |-> "none"]
    /\ up = [c \in Conns |-> <<>>]
    /\ down = [c \in Conns |-> <<>>]
    /\ life = [n \in Nodes |-> 0]
    /\ phase = [n \in Nodes |-> "idle"]
    /\ running = [n \in Nodes |-> FALSE]
    /\ websocket = [n \in Nodes |-> FALSE]
    /\ inbox = [n \in Nodes |-> NoMessage]
    /\ sent = [c \in Conns |-> <<>>]
    /\ arrived = [c \in Conns |-> [n \in Nodes |-> <<>>]]

-------------------------------------------------------------------------------
(* A node's run, up to its receive loop.                                   *)

Run(n) ==
    /\ phase[n] = "idle" /\ life[n] < Lives[n]
    /\ phase' = [phase EXCEPT ![n] = "connecting"]
    /\ running' = [running EXCEPT ![n] = TRUE]
    /\ life' = [life EXCEPT ![n] = @ + 1]
    /\ UNCHANGED <<switchVars, client, websocket, inbox, wireVars, historyVars>>

(* websockets.connect returned, the registration is sent.  Setting up a    *)
(* connection takes longer than the switch needs to read the registration  *)
(* that an earlier connection of the node began with.                      *)
Connected(n) ==
    /\ phase[n] = "connecting"
    /\ \A k \in 1..(life[n] - 1) : handler[<<n, k>>] = "reading" => <<n, k>> \in named
    /\ phase' = [phase EXCEPT ![n] = "reading"]
    /\ websocket' = [websocket EXCEPT ![n] = TRUE]
    /\ client' = [client EXCEPT ![Current(n)] = "open"]
    /\ server' = [server EXCEPT ![Current(n)] = "open"]
    /\ handler' = [handler EXCEPT ![Current(n)] = "reading"]
    /\ up' = [up EXCEPT ![Current(n)] = <<Message(Current(n), 0)>>]
    /\ UNCHANGED <<nodes, named, target, life, running, inbox, down, historyVars>>

(* connect raises ConnectionError out of run.                              *)
ConnectFails(n) ==
    /\ n \in Leavers /\ phase[n] = "connecting"
    /\ phase' = [phase EXCEPT ![n] = "idle"]
    /\ UNCHANGED <<switchVars, client, life, running, websocket, inbox, wireVars,
                   historyVars>>

-------------------------------------------------------------------------------
(* Sending from a node: send_datagram.                                     *)

(* The send does not raise, and d is datagram number k of the connection.  *)
CanSend(n) == websocket[n] /\ client[Current(n)] = "open"

Sending(n, d) ==
    /\ CanSend(n)
    /\ sent' = [sent EXCEPT ![Current(n)] = Append(@, d)]
    /\ up' = [up EXCEPT ![Current(n)] =
                Append(@, Message(Current(n), Len(sent[Current(n)]) + 1))]

Full(queue) == Len(queue) > QueueCap

(* A task of the program sends; it waits while an earlier send suspends.   *)
Send(n, d) ==
    /\ Sending(n, d)
    /\ ~Full(up[Current(n)]) /\ Len(sent[Current(n)]) < MaxSends
    /\ UNCHANGED <<switchVars, nodeVars, down, arrived>>

(* The handler of a message sends, and returns when the send does.         *)
Reply(n, d) ==
    /\ phase[n] = "handling"
    /\ Sending(n, d)
    /\ inbox' = [inbox EXCEPT ![n] = NoMessage]
    /\ phase' = [phase EXCEPT ![n] =
                    IF Full(up'[Current(n)]) THEN "draining" ELSE "reading"]
    /\ UNCHANGED <<switchVars, client, life, running, websocket, down, arrived>>

(* The suspended reply goes on, or raises ConnectionClosed, which          *)
(* _handle_message catches.                                                *)
Replied(n) ==
    /\ phase[n] = "draining"
    /\ ~Full(up[Current(n)]) \/ client[Current(n)] # "open"
    /\ phase' = [phase EXCEPT ![n] = "reading"]
    /\ UNCHANGED <<switchVars, client, life, running, websocket, inbox, wireVars,
                   historyVars>>

(* The handler of a message returns, or raises, without having sent.       *)
Handled(n) ==
    /\ phase[n] = "handling"
    /\ phase' = [phase EXCEPT ![n] = "reading"]
    /\ inbox' = [inbox EXCEPT ![n] = NoMessage]
    /\ UNCHANGED <<switchVars, client, life, running, websocket, wireVars, historyVars>>

-------------------------------------------------------------------------------
(* Receiving at a node: the loop of run.                                   *)

LeaveOpen(n) ==                                           \* mutant of Leave
    /\ phase' = [phase EXCEPT ![n] = "idle"]
    /\ websocket' = [websocket EXCEPT ![n] = FALSE]
    /\ inbox' = [inbox EXCEPT ![n] = NoMessage]
    /\ UNCHANGED client

(* run ends: disconnect.                                                   *)
Leave(n) ==
    /\ phase' = [phase EXCEPT ![n] = "idle"]
    /\ websocket' = [websocket EXCEPT ![n] = FALSE]
    /\ inbox' = [inbox EXCEPT ![n] = NoMessage]
    /\ client' = IF client[Current(n)] = "open"
                 THEN [client EXCEPT ![Current(n)] = "left"] ELSE client

Receive(n) ==
    /\ phase[n] = "reading" /\ down[Current(n)] # <<>>
    /\ down' = [down EXCEPT ![Current(n)] = Tail(@)]
    /\ \/ /\ running[n]
          /\ LET m == Head(down[Current(n)])
             IN  /\ inbox' = [inbox EXCEPT ![n] = m]
                 /\ arrived' = [arrived EXCEPT ![m.from][n] = Append(@, m.num)]
          /\ phase' = [phase EXCEPT ![n] = "handling"]
          /\ UNCHANGED <<client, websocket>>
       \/ ~running[n] /\ Leave(n) /\ UNCHANGED arrived
    /\ UNCHANGED <<switchVars, life, running, up, sent>>

ReadEnds(n) ==
    /\ phase[n] = "reading"
    /\ client[Current(n)] # "open" /\ down[Current(n)] = <<>>
    /\ Leave(n)
    /\ UNCHANGED <<switchVars, life, running, wireVars, historyVars>>

(* The switch has closed the connection and the node's end learns of it.   *)
Dropped(n) ==
    /\ websocket[n] /\ client[Current(n)] = "open" /\ server[Current(n)] = "closed"
    /\ client' = [client EXCEPT ![Current(n)] = "dropped"]
    /\ UNCHANGED <<switchVars, life, phase, running, websocket, inbox, wireVars,
                   historyVars>>

(* The program calls stop.                                                 *)
Stop(n) ==
    /\ n \in Leavers /\ phase[n] # "idle" /\ running[n]
    /\ running' = [running EXCEPT ![n] = FALSE]
    /\ UNCHANGED <<switchVars, client, life, phase, websocket, inbox, wireVars,
                   historyVars>>

(* The program calls disconnect while run goes on.                         *)
Disconnect(n) ==
    /\ n \in Leavers /\ websocket[n]
    /\ websocket' = [websocket EXCEPT ![n] = FALSE]
    /\ client' = [client EXCEPT ![Current(n)] =
                    IF @ = "open" THEN "left" ELSE @]
    /\ UNCHANGED <<switchVars, life, phase, running, inbox, wireVars, historyVars>>

(* The process of the node dies.                                           *)
Crash(n) ==
    /\ n \in Leavers /\ phase[n] # "idle"
    /\ Leave(n)
    /\ UNCHANGED <<switchVars, life, running, wireVars, historyVars>>

-------------------------------------------------------------------------------
(* The switch: handle_client, one message at a time.                       *)

Owner(c) == c[1]
Number(c) == c[2]

Reading(c) == handler[c] = "reading" /\ up[c] # <<>>
Unread(c) == Head(up[c])
Consume(c) == up' = [up EXCEPT ![c] = Tail(@)]
Destination(m) == sent[m.from][m.num]

(* The connection a datagram read from c is routed to, if its destination  *)
(* is in the table.                                                        *)
Known(c) == Destination(Unread(c)) \in Nodes /\ nodes[Destination(Unread(c))] # 0
Route(c) == <<Destination(Unread(c)), nodes[Destination(Unread(c))]>>

HandleRegister(c) ==
    /\ Reading(c) /\ Unread(c).num = 0
    /\ Consume(c)
    /\ nodes' = [nodes EXCEPT ![Owner(c)] = Number(c)]
    /\ named' = named \cup {c}
    /\ UNCHANGED <<handler, target, server, down, nodeVars, historyVars>>

(* Destination not found.                                                  *)
Drop(c) ==
    /\ Reading(c) /\ Unread(c).num # 0 /\ ~Known(c)
    /\ Consume(c)
    /\ UNCHANGED <<switchVars, down, nodeVars, historyVars>>

DeliverFirst(c) ==                                        \* mutant of Deliver
    down' = [down EXCEPT ![Route(c)] = <<Unread(c)>> \o @]
Deliver(c) == down' = [down EXCEPT ![Route(c)] = Append(@, Unread(c))]

Forward(c) ==
    /\ Reading(c) /\ Unread(c).num # 0 /\ Known(c) /\ server[Route(c)] = "open"
    /\ Consume(c)
    /\ Deliver(c)
    /\ IF Full(down'[Route(c)])
       THEN /\ handler' = [handler EXCEPT ![c] = "draining"]
            /\ target' = [target EXCEPT ![c] = Route(c)]
       ELSE UNCHANGED <<handler, target>>
    /\ UNCHANGED <<nodes, named, server, nodeVars, historyVars>>

Drained(c) ==
    /\ handler[c] = "draining"
    /\ server[target[c]] = "open" /\ ~Full(down[target[c]])
    /\ handler' = [handler EXCEPT ![c] = "reading"]
    /\ target' = [target EXCEPT ![c] = c]
    /\ UNCHANGED <<nodes, named, server, nodeVars, wireVars, historyVars>>

RemovedWithoutLook(c) == c \in named                      \* mutant of Removed
Removed(c) == c \in named /\ nodes[Owner(c)] = Number(c)

(* The handler returns, after its finally clause, and websockets closes    *)
(* the connection it was for.                                              *)
HandlerReturns(c) ==
    /\ nodes' = IF Removed(c) THEN [nodes EXCEPT ![Owner(c)] = 0] ELSE nodes
    /\ handler' = [handler EXCEPT ![c] = "ended"]
    /\ target' = [target EXCEPT ![c] = c]
    /\ server' = [server EXCEPT ![c] = "closed"]
    /\ UNCHANGED <<named, down, nodeVars, historyVars>>

(* The connection sent to is closed, and send raises ConnectionClosed in   *)
(* the handler of the connection read from.                                *)
ForwardFails(c) ==
    /\ Reading(c) /\ Unread(c).num # 0 /\ Known(c) /\ server[Route(c)] = "closed"
    /\ Consume(c)
    /\ HandlerReturns(c)

DrainFails(c) ==
    /\ handler[c] = "draining" /\ server[target[c]] = "closed"
    /\ HandlerReturns(c)
    /\ UNCHANGED up

(* The loop ends: the connection is closed and all of it has been read.    *)
LoopEnds(c) ==
    /\ handler[c] = "reading" /\ up[c] = <<>> /\ server[c] = "closed"
    /\ HandlerReturns(c)
    /\ UNCHANGED up

(* The switch's end learns that the node has closed the connection or died.*)
Closed(c) ==
    /\ server[c] = "open" /\ client[c] = "left"
    /\ server' = [server EXCEPT ![c] = "closed"]
    /\ UNCHANGED <<nodes, handler, named, target, nodeVars, wireVars, historyVars>>

-------------------------------------------------------------------------------
Program(n) == Run(n) \/ ConnectFails(n) \/ Stop(n) \/ Disconnect(n)
NodeStep(n) ==
    Connected(n) \/ Receive(n) \/ Replied(n) \/ ReadEnds(n) \/ Dropped(n)
SwitchStep(c) ==
    HandleRegister(c) \/ Drop(c) \/ Forward(c) \/ Drained(c) \/ ForwardFails(c)
        \/ DrainFails(c) \/ LoopEnds(c) \/ Closed(c)

(* What happens of itself: a task goes on, a message or a close arrives.   *)
NetworkStep ==
    (\E n \in Nodes : NodeStep(n)) \/ (\E c \in Conns : SwitchStep(c))

(* A protocol above sends with Send, handles a message with Reply or       *)
(* Handled and dies with Crash.                                            *)
SwitchNext ==
    \/ NetworkStep
    \/ \E n \in Nodes :
        \/ Program(n) \/ Handled(n) \/ Crash(n)
        \/ \E d \in Addresses : Send(n, d) \/ Reply(n, d)

SwitchSpec == SwitchInit /\ [][SwitchNext]_networkVars

-------------------------------------------------------------------------------
(* Properties.                                                             *)

Messages == [from : Conns, num : Nat]

(* Every variable keeps its type.                                          *)
NetworkTypeOK ==
    /\ nodes \in [Nodes -> 0..MaxLife] /\ life \in [Nodes -> 0..MaxLife]
    /\ handler \in [Conns -> {"none", "reading", "draining", "ended"}]
    /\ named \subseteq Conns /\ target \in [Conns -> Conns]
    /\ server \in [Conns -> {"none", "open", "closed"}]
    /\ client \in [Conns -> {"none", "open", "left", "dropped"}]
    /\ up \in [Conns -> Seq(Messages)] /\ down \in [Conns -> Seq(Messages)]
    /\ phase \in [Nodes -> {"idle", "connecting", "reading", "handling", "draining"}]
    /\ running \in [Nodes -> BOOLEAN] /\ websocket \in [Nodes -> BOOLEAN]
    /\ inbox \in [Nodes -> Messages \cup {NoMessage}]
    /\ sent \in [Conns -> Seq(Addresses)]
    /\ arrived \in [Conns -> [Nodes -> Seq(Nat)]]

(* The table is right while nodes come back under their old id and old     *)
(* handlers end late: it never names a connection whose handler has ended, *)
(* and a registered current connection whose handler runs is in it.        *)
Directory ==
    \A n \in Nodes :
        /\ nodes[n] # 0 => /\ <<n, nodes[n]>> \in named
                          /\ handler[<<n, nodes[n]>>] # "ended"
        /\ Current(n) \in named /\ handler[Current(n)] # "ended" =>
            nodes[n] = life[n]

(* A node that has not left and has sent nothing stays connected and, once *)
(* registered, reachable, whatever becomes of the nodes that send to it    *)
(* and of those that these send to.                                        *)
ListenerStays ==
    \A c \in Conns :
        client[c] \in {"open", "dropped"} /\ sent[c] = <<>> =>
            /\ server[c] = "open"
            /\ c \in named => nodes[Owner(c)] = Number(c)

(* Switch and nodes implement the datagram service.                        *)
Service == INSTANCE Datagrams WITH sent <- sent, arrived <- arrived
DatagramSpec == Service!Spec
===============================================================================

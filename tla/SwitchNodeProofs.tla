--------------------------- MODULE SwitchNodeProofs ---------------------------
(***************************************************************************)
(* Switch and nodes, for any number of nodes, runs and datagrams and any   *)
(* size of the queues: types, the switch's table, and the refinement of    *)
(* the datagram service.                                                   *)
(***************************************************************************)
EXTENDS SwitchNode, TLAPS

LEMMA ConnParts ==
    /\ \A c \in Conns : Owner(c) \in Nodes /\ Number(c) \in 1..MaxLife
    /\ \A c \in Conns : c = <<Owner(c), Number(c)>>
    /\ \A n \in Nodes, k \in 1..MaxLife :
        <<n, k>> \in Conns /\ Owner(<<n, k>>) = n /\ Number(<<n, k>>) = k
BY DEF Conns, Owner, Number

LEMMA SeqFacts ==
    ASSUME NEW T, NEW s \in Seq(T)
    PROVE  /\ Len(s) \in Nat
           /\ \A i \in 1..Len(s) : s[i] \in T
           /\ s # <<>> => /\ Head(s) = s[1] /\ Head(s) \in T
                          /\ Tail(s) \in Seq(T) /\ Len(Tail(s)) = Len(s) - 1
                          /\ \A i \in 1..Len(Tail(s)) : Tail(s)[i] = s[i + 1]
           /\ \A x \in T : /\ Append(s, x) \in Seq(T) /\ Len(Append(s, x)) = Len(s) + 1
                           /\ Append(s, x)[Len(s) + 1] = x
                           /\ \A i \in 1..Len(s) : Append(s, x)[i] = s[i]
OBVIOUS

LEMMA EmptyFacts == \A T : <<>> \in Seq(T) /\ Len(<<>>) = 0
OBVIOUS

-------------------------------------------------------------------------------
(* Types.                                                                  *)

(* A node that is past connect, or has a websocket, has run.               *)
HasRun == \A n \in Nodes : phase[n] # "idle" \/ websocket[n] => life[n] # 0

TypeInv == NetworkTypeOK /\ HasRun

LEMMA InitTypes == SwitchInit => TypeInv
<1> USE SwitchNodeAssumption, EmptyFacts
<1> SUFFICES ASSUME SwitchInit PROVE TypeInv
    OBVIOUS
<1>1. NetworkTypeOK
    BY DEF SwitchInit, NetworkTypeOK, Conns
<1>2. HasRun
    BY DEF SwitchInit, HasRun
<1> QED
    BY <1>1, <1>2 DEF TypeInv

LEMMA CurrentConn ==
    ASSUME TypeInv, NEW n \in Nodes, life[n] # 0
    PROVE  Current(n) \in Conns /\ Owner(Current(n)) = n /\ Number(Current(n)) = life[n]
<1>1. life[n] \in 1..MaxLife
    BY SwitchNodeAssumption DEF TypeInv, NetworkTypeOK
<1> QED
    BY <1>1, ConnParts DEF Current

LEMMA SendingTypes ==
    ASSUME TypeInv, NEW n \in Nodes, NEW d \in Addresses, Sending(n, d)
    PROVE  /\ sent' \in [Conns -> Seq(Addresses)] /\ up' \in [Conns -> Seq(Messages)]
           /\ Current(n) \in Conns /\ client[Current(n)] = "open"
<1>1. Current(n) \in Conns
    BY CurrentConn DEF TypeInv, HasRun, Sending, CanSend
<1>2. sent[Current(n)] \in Seq(Addresses) /\ Len(sent[Current(n)]) \in Nat
    BY <1>1 DEF TypeInv, NetworkTypeOK
<1>3. Message(Current(n), Len(sent[Current(n)]) + 1) \in Messages
    BY <1>1, <1>2 DEF Message, Messages
<1>4. \A q \in Seq(Addresses) : Append(q, d) \in Seq(Addresses)
    OBVIOUS
<1>5. \A q \in Seq(Messages) : \A m \in Messages : Append(q, m) \in Seq(Messages)
    OBVIOUS
<1> QED
    BY <1>1, <1>3, <1>4, <1>5 DEF TypeInv, NetworkTypeOK, Sending, CanSend

LEMMA NodeTypes ==
    ASSUME TypeInv, NEW n \in Nodes,
           Run(n) \/ Connected(n) \/ ConnectFails(n) \/ Replied(n) \/ Handled(n)
               \/ ReadEnds(n) \/ Dropped(n) \/ Stop(n) \/ Disconnect(n) \/ Crash(n)
    PROVE  TypeInv'
<1> USE SwitchNodeAssumption
<1> USE DEF TypeInv, NetworkTypeOK, HasRun, switchVars, nodeVars, wireVars, historyVars
<1>1. CASE Run(n)
    <2>1. Lives[n] <= MaxLife /\ Lives[n] \in Nat
        OBVIOUS
    <2> QED
        BY <1>1, <2>1 DEF Run
<1>2. CASE Connected(n)
    <2>1. Current(n) \in Conns
        BY <1>2, CurrentConn DEF Connected
    <2>2. <<Message(Current(n), 0)>> \in Seq(Messages)
        BY <2>1 DEF Message, Messages
    <2> QED
        BY <1>2, <2>1, <2>2 DEF Connected
<1>3. CASE ConnectFails(n)
    BY <1>3 DEF ConnectFails
<1>4. CASE Replied(n)
    BY <1>4 DEF Replied
<1>5. CASE Handled(n)
    BY <1>5 DEF Handled
<1>6. CASE ReadEnds(n)
    BY <1>6 DEF ReadEnds, Leave
<1>7. CASE Dropped(n)
    BY <1>7 DEF Dropped
<1>8. CASE Stop(n)
    BY <1>8 DEF Stop
<1>9. CASE Disconnect(n)
    BY <1>9 DEF Disconnect
<1>10. CASE Crash(n)
    BY <1>10 DEF Crash, Leave
<1> QED
    BY <1>1, <1>2, <1>3, <1>4, <1>5, <1>6, <1>7, <1>8, <1>9, <1>10

LEMMA SendTypes ==
    ASSUME TypeInv, NEW n \in Nodes, NEW d \in Addresses, Send(n, d) \/ Reply(n, d)
    PROVE  TypeInv'
<1>1. sent' \in [Conns -> Seq(Addresses)] /\ up' \in [Conns -> Seq(Messages)]
    BY SendingTypes DEF Send, Reply
<1> USE DEF TypeInv, NetworkTypeOK, HasRun, switchVars, nodeVars, wireVars, historyVars
<1>2. CASE Send(n, d)
    BY <1>1, <1>2 DEF Send
<1>3. CASE Reply(n, d)
    BY <1>1, <1>3 DEF Reply
<1> QED
    BY <1>2, <1>3

LEMMA ReceiveTypes ==
    ASSUME TypeInv, NEW n \in Nodes, Receive(n)
    PROVE  TypeInv'
<1>1. Current(n) \in Conns
    BY CurrentConn DEF Receive, TypeInv, HasRun
<1> DEFINE q == down[Current(n)]
<1>2. q \in Seq(Messages) /\ q # <<>>
    BY <1>1 DEF Receive, TypeInv, NetworkTypeOK
<1>3. Head(q) \in Messages /\ Tail(q) \in Seq(Messages)
    BY <1>2
<1>4. Head(q).from \in Conns /\ Head(q).num \in Nat
    BY <1>3 DEF Messages
<1>5. \A s \in Seq(Nat) : Append(s, Head(q).num) \in Seq(Nat)
    BY <1>4
<1>6. down' \in [Conns -> Seq(Messages)]
    BY <1>3 DEF Receive, TypeInv, NetworkTypeOK
<1>7. CASE running[n]
    <2>1. arrived' = [arrived EXCEPT ![Head(q).from][n] = Append(@, Head(q).num)]
        BY <1>7 DEF Receive
    <2>2. arrived[Head(q).from] \in [Nodes -> Seq(Nat)]
        BY <1>4 DEF TypeInv, NetworkTypeOK
    <2>3. arrived' \in [Conns -> [Nodes -> Seq(Nat)]]
        BY <1>4, <1>5, <2>1, <2>2 DEF TypeInv, NetworkTypeOK
    <2>4. /\ inbox' = [inbox EXCEPT ![n] = Head(q)]
          /\ phase' = [phase EXCEPT ![n] = "handling"]
          /\ UNCHANGED <<client, websocket, switchVars, life, running, up, sent>>
          /\ phase[n] = "reading"
        BY <1>7 DEF Receive
    <2> QED
        BY <1>3, <1>6, <2>3, <2>4 DEF TypeInv, NetworkTypeOK, HasRun, switchVars
<1>8. CASE ~running[n]
    <2>1. /\ Leave(n)
          /\ UNCHANGED <<arrived, switchVars, life, running, up, sent>>
          /\ phase[n] = "reading"
        BY <1>8 DEF Receive
    <2> QED
        BY <1>6, <2>1 DEF Leave, TypeInv, NetworkTypeOK, HasRun, switchVars
<1> QED
    BY <1>7, <1>8 DEF TypeInv, NetworkTypeOK

LEMMA SwitchTypes ==
    ASSUME TypeInv, NEW c \in Conns, SwitchStep(c)
    PROVE  TypeInv'
<1> USE SwitchNodeAssumption
<1>1. Owner(c) \in Nodes /\ Number(c) \in 0..MaxLife
    BY ConnParts
<1>2. ASSUME Reading(c)
      PROVE  /\ Unread(c) \in Messages /\ Tail(up[c]) \in Seq(Messages)
             /\ Known(c) => Route(c) \in Conns
    <2>1. up[c] \in Seq(Messages) /\ up[c] # <<>>
        BY <1>2 DEF Reading, TypeInv, NetworkTypeOK
    <2>2. Known(c) => nodes[Destination(Unread(c))] \in 1..MaxLife
        BY DEF Known, TypeInv, NetworkTypeOK
    <2> QED
        BY <2>1, <2>2, ConnParts DEF Unread, Known, Route
<1>3. ASSUME Reading(c), Consume(c) PROVE up' \in [Conns -> Seq(Messages)]
    BY <1>2, <1>3 DEF Consume, TypeInv, NetworkTypeOK
<1>4. ASSUME HandlerReturns(c), up' \in [Conns -> Seq(Messages)] PROVE TypeInv'
    BY <1>1, <1>4
       DEF HandlerReturns, TypeInv, NetworkTypeOK, HasRun, nodeVars, historyVars
<1> USE DEF TypeInv, NetworkTypeOK, HasRun, switchVars, nodeVars, wireVars, historyVars
<1>5. CASE HandleRegister(c)
    BY <1>1, <1>3, <1>5 DEF HandleRegister
<1>6. CASE Drop(c)
    BY <1>3, <1>6 DEF Drop
<1>7. CASE Forward(c)
    <2>1. \A q \in Seq(Messages) : Append(q, Unread(c)) \in Seq(Messages)
        BY <1>2, <1>7 DEF Forward
    <2>2. down' \in [Conns -> Seq(Messages)]
        BY <2>1, <1>7 DEF Forward, Deliver
    <2>3. up' \in [Conns -> Seq(Messages)] /\ Route(c) \in Conns
        BY <1>2, <1>3, <1>7 DEF Forward
    <2>4. handler' \in [Conns -> {"none", "reading", "draining", "ended"}]
          /\ target' \in [Conns -> Conns]
        BY <2>3, <1>7 DEF Forward
    <2> QED
        BY <2>2, <2>3, <2>4, <1>7 DEF Forward
<1>8. CASE Drained(c)
    BY <1>8 DEF Drained
<1>9. CASE ForwardFails(c)
    BY <1>3, <1>4, <1>9 DEF ForwardFails
<1>10. CASE DrainFails(c)
    BY <1>4, <1>10 DEF DrainFails
<1>11. CASE LoopEnds(c)
    BY <1>4, <1>11 DEF LoopEnds
<1>12. CASE Closed(c)
    BY <1>12 DEF Closed
<1> QED
    BY <1>5, <1>6, <1>7, <1>8, <1>9, <1>10, <1>11, <1>12 DEF SwitchStep

LEMMA NextTypes == TypeInv /\ [SwitchNext]_networkVars => TypeInv'
<1> SUFFICES ASSUME TypeInv, [SwitchNext]_networkVars PROVE TypeInv'
    OBVIOUS
<1>1. CASE NetworkStep
    BY <1>1, NodeTypes, ReceiveTypes, SwitchTypes DEF NetworkStep, NodeStep
<1>2. CASE \E n \in Nodes : Program(n) \/ Handled(n) \/ Crash(n)
    BY <1>2, NodeTypes DEF Program
<1>3. CASE \E n \in Nodes : \E d \in Addresses : Send(n, d) \/ Reply(n, d)
    BY <1>3, SendTypes
<1>4. CASE UNCHANGED networkVars
    BY <1>4 DEF networkVars, switchVars, nodeVars, wireVars, historyVars, TypeInv,
                NetworkTypeOK, HasRun
<1> QED
    BY <1>1, <1>2, <1>3, <1>4 DEF SwitchNext

-------------------------------------------------------------------------------
(* A connection that a node has not made yet is untouched.                 *)

NotYet(c) ==
    \/ Number(c) > life[Owner(c)]
    \/ Number(c) = life[Owner(c)] /\ phase[Owner(c)] = "connecting"

Fresh ==
    \A c \in Conns :
        /\ NotYet(c) => handler[c] = "none"
        /\ handler[c] = "none" => /\ server[c] = "none" /\ client[c] = "none"
                                 /\ c \notin named /\ up[c] = <<>>
        /\ server[c] = "none" => handler[c] = "none" /\ down[c] = <<>>
        /\ client[c] = "none" => sent[c] = <<>>

LEMMA InitFresh == SwitchInit => Fresh
BY ConnParts DEF SwitchInit, Fresh

LEMMA NodeFresh ==
    ASSUME TypeInv, Fresh, NEW n \in Nodes,
           Run(n) \/ Connected(n) \/ ConnectFails(n) \/ Replied(n) \/ Handled(n)
               \/ ReadEnds(n) \/ Dropped(n) \/ Stop(n) \/ Disconnect(n) \/ Crash(n)
    PROVE  Fresh'
<1> SUFFICES ASSUME NEW c \in Conns
             PROVE  /\ NotYet(c)' => handler'[c] = "none"
                    /\ handler'[c] = "none" => /\ server'[c] = "none" /\ client'[c] = "none"
                                              /\ c \notin named' /\ up'[c] = <<>>
                    /\ server'[c] = "none" => handler'[c] = "none" /\ down'[c] = <<>>
                    /\ client'[c] = "none" => sent'[c] = <<>>
    BY DEF Fresh
<1>0. /\ Owner(c) \in Nodes /\ Number(c) \in Nat
      /\ Current(n) = c <=> Owner(c) = n /\ Number(c) = life[n]
    BY ConnParts DEF Current, Conns, Owner, Number
<1>t. /\ life \in [Nodes -> 0..MaxLife]
      /\ phase \in [Nodes -> {"idle", "connecting", "reading", "handling", "draining"}]
      /\ client \in [Conns -> {"none", "open", "left", "dropped"}]
      /\ server \in [Conns -> {"none", "open", "closed"}]
      /\ handler \in [Conns -> {"none", "reading", "draining", "ended"}]
      /\ up \in [Conns -> Seq(Messages)]
    BY SwitchNodeAssumption DEF TypeInv, NetworkTypeOK
<1>f. /\ NotYet(c) => handler[c] = "none"
      /\ handler[c] = "none" => /\ server[c] = "none" /\ client[c] = "none"
                               /\ c \notin named /\ up[c] = <<>>
      /\ server[c] = "none" => handler[c] = "none" /\ down[c] = <<>>
      /\ client[c] = "none" => sent[c] = <<>>
    BY DEF Fresh
<1> USE DEF switchVars, nodeVars, wireVars, historyVars
<1>1. CASE Run(n)
    BY <1>0, <1>t, <1>f, <1>1 DEF Run, NotYet
<1>2. CASE Connected(n)
    BY <1>0, <1>t, <1>f, <1>2 DEF Connected, NotYet
<1>3. CASE ConnectFails(n)
    BY <1>0, <1>t, <1>f, <1>3 DEF ConnectFails, NotYet
<1>4. CASE Replied(n)
    BY <1>0, <1>t, <1>f, <1>4 DEF Replied, NotYet
<1>5. CASE Handled(n)
    BY <1>0, <1>t, <1>f, <1>5 DEF Handled, NotYet
<1>6. CASE ReadEnds(n)
    BY <1>0, <1>t, <1>f, <1>6 DEF ReadEnds, Leave, NotYet
<1>7. CASE Dropped(n)
    BY <1>0, <1>t, <1>f, <1>7 DEF Dropped, NotYet
<1>8. CASE Stop(n)
    BY <1>0, <1>t, <1>f, <1>8 DEF Stop, NotYet
<1>9. CASE Disconnect(n)
    BY <1>0, <1>t, <1>f, <1>9 DEF Disconnect, NotYet
<1>10. CASE Crash(n)
    BY <1>0, <1>t, <1>f, <1>10 DEF Crash, Leave, NotYet
<1> QED
    BY <1>1, <1>2, <1>3, <1>4, <1>5, <1>6, <1>7, <1>8, <1>9, <1>10

LEMMA SendFresh ==
    ASSUME TypeInv, Fresh, NEW n \in Nodes, NEW d \in Addresses, Send(n, d) \/ Reply(n, d)
    PROVE  Fresh'
<1>1. /\ UNCHANGED <<handler, server, client, named, down, life>>
      /\ \A m \in Nodes : phase'[m] = "connecting" => phase[m] = "connecting"
      /\ Sending(n, d)
    BY DEF Send, Reply, nodeVars, switchVars, TypeInv, NetworkTypeOK
<1>2. client[Current(n)] = "open" /\ Current(n) \in Conns
    BY <1>1, SendingTypes
<1>3. \A c \in Conns : c # Current(n) => sent'[c] = sent[c] /\ up'[c] = up[c]
    BY <1>1, <1>2 DEF Sending, TypeInv, NetworkTypeOK
<1> QED
    BY <1>1, <1>2, <1>3, ConnParts DEF Fresh, NotYet

LEMMA ReceiveFresh ==
    ASSUME TypeInv, Fresh, NEW n \in Nodes, Receive(n)
    PROVE  Fresh'
<1>t. /\ phase \in [Nodes -> {"idle", "connecting", "reading", "handling", "draining"}]
      /\ client \in [Conns -> {"none", "open", "left", "dropped"}]
    BY DEF TypeInv, NetworkTypeOK
<1>1. /\ UNCHANGED <<handler, server, named, life, sent, up>>
      /\ \A m \in Nodes : phase'[m] = "connecting" => phase[m] = "connecting"
      /\ \A c \in Conns : (client'[c] = "none" <=> client[c] = "none")
    <2>1. UNCHANGED <<handler, server, named, life, sent, up>>
        BY DEF Receive, switchVars
    <2>2. \/ phase' = [phase EXCEPT ![n] = "handling"] /\ UNCHANGED client
          \/ Leave(n)
        BY DEF Receive
    <2>3. \A m \in Nodes : phase'[m] = "connecting" => phase[m] = "connecting"
        BY <1>t, <2>2 DEF Leave
    <2>4. \A c \in Conns : (client'[c] = "none" <=> client[c] = "none")
        BY <1>t, <2>2 DEF Leave
    <2> QED
        BY <2>1, <2>3, <2>4
<1>2. \A c \in Conns : down[c] = <<>> => down'[c] = <<>>
    BY DEF Receive, TypeInv, NetworkTypeOK
<1> QED
    BY <1>1, <1>2, ConnParts DEF Fresh, NotYet

LEMMA SwitchFresh ==
    ASSUME TypeInv, Fresh, NEW c \in Conns, SwitchStep(c)
    PROVE  Fresh'
<1>1. UNCHANGED <<client, sent, life, phase>>
    BY DEF SwitchStep, HandleRegister, Drop, Forward, Drained, ForwardFails, DrainFails,
           LoopEnds, Closed, HandlerReturns, nodeVars, historyVars
<1>2. handler[c] # "none" \/ Closed(c)
    BY DEF SwitchStep, HandleRegister, Drop, Forward, Drained, ForwardFails, DrainFails,
           LoopEnds, Reading
<1>t. /\ server \in [Conns -> {"none", "open", "closed"}]
      /\ handler \in [Conns -> {"none", "reading", "draining", "ended"}]
    BY DEF TypeInv, NetworkTypeOK
<1>3. \A t \in Conns :
        /\ handler'[t] = "none" <=> handler[t] = "none"
        /\ server'[t] = "none" <=> server[t] = "none"
    <2>1. CASE HandlerReturns(c) /\ handler[c] # "none"
        <3>1. server[c] # "none"
            BY <2>1 DEF Fresh
        <3> QED
            BY <1>t, <2>1, <3>1 DEF HandlerReturns
    <2>2. CASE Forward(c)
        BY <1>t, <2>2 DEF Forward, Reading
    <2>3. CASE HandleRegister(c) \/ Drop(c)
        BY <2>3 DEF HandleRegister, Drop, switchVars
    <2>4. CASE Drained(c)
        BY <1>t, <2>4 DEF Drained
    <2>5. CASE Closed(c)
        BY <1>t, <2>5 DEF Closed
    <2>6. ForwardFails(c) \/ DrainFails(c) \/ LoopEnds(c) =>
            HandlerReturns(c) /\ handler[c] # "none"
        BY DEF ForwardFails, DrainFails, LoopEnds, Reading
    <2> QED
        BY <2>1, <2>2, <2>3, <2>4, <2>5, <2>6 DEF SwitchStep
<1>4. \A t \in Conns : t # c => up'[t] = up[t] /\ (t \in named' <=> t \in named)
    BY DEF SwitchStep, HandleRegister, Drop, Forward, Drained, ForwardFails, DrainFails,
           LoopEnds, Closed, HandlerReturns, Consume, switchVars, wireVars, TypeInv,
           NetworkTypeOK
<1>5. \A t \in Conns : server[t] = "none" => down'[t] = down[t]
    BY DEF SwitchStep, HandleRegister, Drop, Forward, Drained, ForwardFails, DrainFails,
           LoopEnds, Closed, HandlerReturns, Deliver, wireVars, TypeInv, NetworkTypeOK
<1>6. Closed(c) => up' = up /\ named' = named
    BY DEF Closed, wireVars
<1> SUFFICES ASSUME NEW t \in Conns
             PROVE  /\ NotYet(t)' => handler'[t] = "none"
                    /\ handler'[t] = "none" => /\ server'[t] = "none" /\ client'[t] = "none"
                                              /\ t \notin named' /\ up'[t] = <<>>
                    /\ server'[t] = "none" => handler'[t] = "none" /\ down'[t] = <<>>
                    /\ client'[t] = "none" => sent'[t] = <<>>
    BY DEF Fresh
<1>7. NotYet(t)' <=> NotYet(t)
    BY <1>1 DEF NotYet
<1>f. /\ NotYet(t) => handler[t] = "none"
      /\ handler[t] = "none" => /\ server[t] = "none" /\ client[t] = "none"
                               /\ t \notin named /\ up[t] = <<>>
      /\ server[t] = "none" => handler[t] = "none" /\ down[t] = <<>>
      /\ client[t] = "none" => sent[t] = <<>>
    BY DEF Fresh
<1>8. handler[t] = "none" => t \notin named' /\ up'[t] = <<>>
    <2>1. CASE t # c
        BY <1>4, <1>f, <2>1
    <2>2. CASE t = c
        BY <1>2, <1>6, <1>f, <2>2
    <2> QED
        BY <2>1, <2>2
<1>9. server[t] = "none" => down'[t] = <<>>
    BY <1>5, <1>f
<1>10. client'[t] = client[t] /\ sent'[t] = sent[t]
    BY <1>1
<1>11. /\ handler'[t] = "none" <=> handler[t] = "none"
       /\ server'[t] = "none" <=> server[t] = "none"
    BY <1>3
<1> QED
    BY <1>f, <1>7, <1>8, <1>9, <1>10, <1>11

LEMMA NextFresh == TypeInv /\ Fresh /\ [SwitchNext]_networkVars => Fresh'
<1> SUFFICES ASSUME TypeInv, Fresh, [SwitchNext]_networkVars PROVE Fresh'
    OBVIOUS
<1>1. CASE NetworkStep
    BY <1>1, NodeFresh, ReceiveFresh, SwitchFresh DEF NetworkStep, NodeStep
<1>2. CASE \E n \in Nodes : Program(n) \/ Handled(n) \/ Crash(n)
    BY <1>2, NodeFresh DEF Program
<1>3. CASE \E n \in Nodes : \E d \in Addresses : Send(n, d) \/ Reply(n, d)
    BY <1>3, SendFresh
<1>4. CASE UNCHANGED networkVars
    BY <1>4 DEF networkVars, switchVars, nodeVars, wireVars, historyVars, Fresh, NotYet
<1> QED
    BY <1>1, <1>2, <1>3, <1>4 DEF SwitchNext

-------------------------------------------------------------------------------
(* Where the datagrams are: in the order of their numbers on the way to    *)
(* the switch, behind those of the same connection on the way to a node,   *)
(* and these behind the ones the node has handled.                         *)

UpOrdered ==
    \A c \in Conns : \A i \in 1..Len(up[c]) :
        /\ up[c][i].from = c /\ up[c][i].num <= Len(sent[c])
        /\ \A j \in 1..Len(up[c]) : i < j => up[c][i].num < up[c][j].num

DownSent ==
    \A t \in Conns : \A i \in 1..Len(down[t]) :
        /\ down[t][i].num \in 1..Len(sent[down[t][i].from])
        /\ sent[down[t][i].from][down[t][i].num] = Owner(t)

DownOrdered ==
    \A t \in Conns : \A i, j \in 1..Len(down[t]) :
        i < j /\ down[t][i].from = down[t][j].from => down[t][i].num < down[t][j].num

DownBeforeUp ==
    \A t \in Conns : \A i \in 1..Len(down[t]) : \A k \in 1..Len(up[down[t][i].from]) :
        down[t][i].num < up[down[t][i].from][k].num

ArrivedSent ==
    \A c \in Conns, n \in Nodes : \A i \in 1..Len(arrived[c][n]) :
        arrived[c][n][i] \in 1..Len(sent[c])

ArrivedBeforeUp ==
    \A c \in Conns, n \in Nodes : \A i \in 1..Len(arrived[c][n]) :
        \A k \in 1..Len(up[c]) : arrived[c][n][i] < up[c][k].num

ArrivedBeforeDown ==
    \A c \in Conns, t \in Conns : Number(t) = life[Owner(t)] =>
        \A i \in 1..Len(arrived[c][Owner(t)]) : \A j \in 1..Len(down[t]) :
            down[t][j].from = c => arrived[c][Owner(t)][i] < down[t][j].num

Flow ==
    /\ UpOrdered /\ DownSent /\ DownOrdered /\ DownBeforeUp
    /\ ArrivedSent /\ ArrivedBeforeUp /\ ArrivedBeforeDown

(* What the messages and queues are made of.                               *)
LEMMA FlowTypes ==
    ASSUME TypeInv
    PROVE  /\ \A c \in Conns : /\ up[c] \in Seq(Messages) /\ down[c] \in Seq(Messages)
                              /\ sent[c] \in Seq(Addresses)
                              /\ Len(up[c]) \in Nat /\ Len(down[c]) \in Nat
                              /\ Len(sent[c]) \in Nat
           /\ \A c \in Conns : \A i \in 1..Len(up[c]) : up[c][i] \in Messages
           /\ \A c \in Conns : \A i \in 1..Len(down[c]) : down[c][i] \in Messages
           /\ \A m \in Messages : m.from \in Conns /\ m.num \in Nat
           /\ \A c \in Conns, n \in Nodes : /\ arrived[c][n] \in Seq(Nat)
                                         /\ Len(arrived[c][n]) \in Nat
           /\ \A c \in Conns, n \in Nodes : \A i \in 1..Len(arrived[c][n]) :
                arrived[c][n][i] \in Nat
           /\ \A n \in Nodes : life[n] \in Nat
<1>1. \A c \in Conns : /\ up[c] \in Seq(Messages) /\ down[c] \in Seq(Messages)
                    /\ sent[c] \in Seq(Addresses)
    BY DEF TypeInv, NetworkTypeOK
<1>2. \A c \in Conns, n \in Nodes : arrived[c][n] \in Seq(Nat)
    BY DEF TypeInv, NetworkTypeOK
<1>3. \A m \in Messages : m.from \in Conns /\ m.num \in Nat
    BY DEF Messages
<1>4. \A n \in Nodes : life[n] \in Nat
    BY SwitchNodeAssumption DEF TypeInv, NetworkTypeOK
<1>5. \A q \in Seq(Messages) : Len(q) \in Nat /\ \A i \in 1..Len(q) : q[i] \in Messages
    OBVIOUS
<1>6. \A q \in Seq(Nat) : Len(q) \in Nat /\ \A i \in 1..Len(q) : q[i] \in Nat
    OBVIOUS
<1>7. \A q \in Seq(Addresses) : Len(q) \in Nat
    OBVIOUS
<1> QED
    BY <1>1, <1>2, <1>3, <1>4, <1>5, <1>6, <1>7

LEMMA InitFlow == SwitchInit => Flow
<1> SUFFICES ASSUME SwitchInit PROVE Flow
    OBVIOUS
<1>1. \A c \in Conns : Len(up[c]) = 0 /\ Len(down[c]) = 0
    BY DEF SwitchInit
<1>2. \A c \in Conns, n \in Nodes : Len(arrived[c][n]) = 0
    BY DEF SwitchInit
<1>3. 1..0 = {}
    OBVIOUS
<1> QED
    BY <1>1, <1>2, <1>3, ConnParts
       DEF Flow, UpOrdered, DownSent, DownOrdered, DownBeforeUp, ArrivedSent,
           ArrivedBeforeUp, ArrivedBeforeDown

(* Steps that move no message.                                             *)
LEMMA FlowFrame ==
    ASSUME Flow, UNCHANGED <<sent, arrived, up, down>>,
           \A t \in Conns : Number(t) = life'[Owner(t)] =>
                Number(t) = life[Owner(t)] \/ down[t] = <<>>
    PROVE  Flow'
<1>1. UpOrdered' /\ DownSent' /\ DownOrdered'
    BY DEF Flow, UpOrdered, DownSent, DownOrdered
<1>2. DownBeforeUp'
    BY DEF Flow, DownBeforeUp
<1>3. ArrivedSent' /\ ArrivedBeforeUp'
    BY DEF Flow, ArrivedSent, ArrivedBeforeUp
<1>4. \A t \in Conns : down[t] = <<>> => 1..Len(down[t]) = {}
    OBVIOUS
<1>5. ArrivedBeforeDown'
    BY <1>4 DEF Flow, ArrivedBeforeDown
<1> QED
    BY <1>1, <1>2, <1>3, <1>5 DEF Flow

(* A node makes its connection and sends the registration.                 *)
LEMMA ConnectedFlow ==
    ASSUME TypeInv, Fresh, Flow, NEW n \in Nodes, Connected(n)
    PROVE  Flow'
<1> DEFINE z == Current(n)
<1>1. z \in Conns /\ Owner(z) = n /\ Number(z) = life[n]
    BY CurrentConn DEF Connected, TypeInv, HasRun
<1>2. sent[z] = <<>> /\ up[z] = <<>>
    BY <1>1 DEF Fresh, NotYet, Connected
<1>3. /\ UNCHANGED <<sent, arrived, down, life>>
      /\ up' = [up EXCEPT ![z] = <<Message(z, 0)>>]
    BY DEF Connected, historyVars
<1>4. up'[z] = <<Message(z, 0)>> /\ \A c \in Conns : c # z => up'[c] = up[c]
    BY <1>1, <1>3 DEF TypeInv, NetworkTypeOK
<1>5. Len(sent[z]) = 0 /\ Len(up'[z]) = 1 /\ up'[z][1].from = z /\ up'[z][1].num = 0
    BY <1>2, <1>4 DEF Message
<1> HIDE DEF z
<1>6. 1..1 = {1} /\ 1..0 = {}
    OBVIOUS
<1>7. UpOrdered'
    BY <1>3, <1>4, <1>5, <1>6 DEF Flow, UpOrdered
<1>8. DownSent' /\ DownOrdered' /\ ArrivedSent' /\ ArrivedBeforeDown'
    BY <1>3 DEF Flow, DownSent, DownOrdered, ArrivedSent, ArrivedBeforeDown
<1>9. DownBeforeUp'
    <2>1. \A t \in Conns : \A i \in 1..Len(down[t]) : down[t][i].from # z
        BY <1>5, <1>6 DEF Flow, DownSent
    <2>2. \A t \in Conns : \A i \in 1..Len(down[t]) : down[t][i].from \in Conns
        BY FlowTypes
    <2> QED
        BY <1>3, <1>4, <2>1, <2>2 DEF Flow, DownBeforeUp
<1>10. ArrivedBeforeUp'
    <2>1. \A m \in Nodes : \A i \in 1..Len(arrived[z][m]) : FALSE
        BY <1>1, <1>5, <1>6 DEF Flow, ArrivedSent
    <2> QED
        BY <1>3, <1>4, <2>1 DEF Flow, ArrivedBeforeUp
<1> QED
    BY <1>7, <1>8, <1>9, <1>10 DEF Flow

(* A node sends a datagram.                                                *)
LEMMA SendingFlow ==
    ASSUME TypeInv, Flow, NEW n \in Nodes, NEW d \in Addresses, Sending(n, d),
           UNCHANGED <<arrived, down, life>>
    PROVE  Flow'
<1> DEFINE z == Current(n)
           l == Len(sent[z])
<1>1. z \in Conns
    BY SendingTypes
<1>2. l \in Nat
    BY <1>1, FlowTypes
<1>3. /\ sent' = [sent EXCEPT ![z] = Append(@, d)]
      /\ up' = [up EXCEPT ![z] = Append(@, Message(z, l + 1))]
    BY DEF Sending
<1>4. /\ Len(sent'[z]) = l + 1 /\ \A i \in 1..l : sent'[z][i] = sent[z][i]
      /\ \A c \in Conns : c # z => sent'[c] = sent[c]
    BY <1>1, <1>3, FlowTypes, SeqFacts DEF TypeInv, NetworkTypeOK
<1>5. PICK u \in Nat : Len(up[z]) = u
    BY <1>1, FlowTypes
<1>6. /\ Len(up'[z]) = u + 1 /\ \A i \in 1..u : up'[z][i] = up[z][i]
      /\ up'[z][u + 1] = Message(z, l + 1)
      /\ \A c \in Conns : c # z => up'[c] = up[c]
    <2> HIDE DEF z, l
    <2>1. Message(z, l + 1) \in Messages
        BY <1>1, <1>2 DEF Message, Messages
    <2>2. up[z] \in Seq(Messages) /\ up \in [Conns -> Seq(Messages)]
        BY <1>1 DEF TypeInv, NetworkTypeOK
    <2>3. up'[z] = Append(up[z], Message(z, l + 1))
            /\ \A c \in Conns : c # z => up'[c] = up[c]
        BY <1>1, <1>3, <2>2
    <2> QED
        BY <1>5, <2>1, <2>2, <2>3, SeqFacts
<1>7. up'[z][u + 1].from = z /\ up'[z][u + 1].num = l + 1
    BY <1>6 DEF Message
<1>8. \A c \in Conns : Len(sent[c]) <= Len(sent'[c]) /\ Len(sent[c]) \in Nat
                      /\ \A i \in 1..Len(sent[c]) : sent'[c][i] = sent[c][i]
                                                   /\ i \in 1..Len(sent'[c])
    <2> SUFFICES ASSUME NEW c \in Conns
                 PROVE  Len(sent[c]) <= Len(sent'[c]) /\ Len(sent[c]) \in Nat
                      /\ \A i \in 1..Len(sent[c]) : sent'[c][i] = sent[c][i]
                                                   /\ i \in 1..Len(sent'[c])
        OBVIOUS
    <2>1. Len(sent[c]) \in Nat
        BY FlowTypes
    <2>2. CASE c = z
        BY <1>2, <1>4, <2>2
    <2>3. CASE c # z
        BY <1>4, <2>1, <2>3
    <2> QED
        BY <2>2, <2>3
<1> HIDE DEF z, l
<1>9. \A i \in 1..(u + 1) : i \in 1..u \/ i = u + 1
    OBVIOUS
<1>10. \A i \in 1..u : up[z][i].num \in Nat /\ up[z][i].num <= l /\ up[z][i].from = z
    <2>1. \A i \in 1..u : up[z][i].num \in Nat
        BY <1>1, <1>5, FlowTypes
    <2> QED
        BY <1>1, <1>5, <2>1 DEF Flow, UpOrdered, l
<1>11. UpOrdered'
    <2> SUFFICES ASSUME NEW c \in Conns, NEW i \in 1..Len(up'[c])
                 PROVE  /\ up'[c][i].from = c /\ up'[c][i].num <= Len(sent'[c])
                        /\ \A j \in 1..Len(up'[c]) : i < j => up'[c][i].num < up'[c][j].num
        BY DEF UpOrdered
    <2>1. CASE c # z
        BY <1>4, <1>6, <2>1 DEF Flow, UpOrdered
    <2>2. CASE c = z
        <3>1. up'[c][i].from = c /\ up'[c][i].num <= Len(sent'[c])
            BY <1>2, <1>4, <1>6, <1>7, <1>9, <1>10, <2>2
        <3>2. ASSUME NEW j \in 1..Len(up'[c]), i < j
              PROVE  up'[c][i].num < up'[c][j].num
            <4>1. i \in 1..u
                BY <1>6, <2>2, <3>2
            <4>2. CASE j \in 1..u
                BY <1>1, <1>5, <1>6, <2>2, <3>2, <4>1, <4>2 DEF Flow, UpOrdered
            <4>3. CASE j = u + 1
                BY <1>2, <1>6, <1>7, <1>10, <2>2, <4>1, <4>3
            <4> QED
                BY <1>6, <1>9, <2>2, <4>2, <4>3
        <3> QED
            BY <3>1, <3>2
    <2> QED
        BY <2>1, <2>2
<1>12. DownSent'
    <2>1. \A t \in Conns : \A i \in 1..Len(down[t]) : down[t][i].from \in Conns
        BY FlowTypes
    <2>2. ASSUME NEW t \in Conns, NEW i \in 1..Len(down[t])
          PROVE  /\ down[t][i].num \in 1..Len(sent'[down[t][i].from])
                 /\ sent'[down[t][i].from][down[t][i].num] = Owner(t)
        <3>1. /\ down[t][i].num \in 1..Len(sent[down[t][i].from])
              /\ sent[down[t][i].from][down[t][i].num] = Owner(t)
            BY DEF Flow, DownSent
        <3> QED
            BY <1>8, <2>1, <3>1
    <2> QED
        BY <2>2 DEF DownSent
<1>13. DownOrdered' /\ ArrivedBeforeDown'
    BY DEF Flow, DownOrdered, ArrivedBeforeDown
<1>14. DownBeforeUp'
    <2> SUFFICES ASSUME NEW t \in Conns, NEW i \in 1..Len(down[t]),
                        NEW k \in 1..Len(up'[down[t][i].from])
                 PROVE  down[t][i].num < up'[down[t][i].from][k].num
        BY DEF DownBeforeUp
    <2>1. down[t][i].from \in Conns /\ down[t][i].num \in Nat
        BY FlowTypes
    <2>2. down[t][i].num < up[down[t][i].from][k].num \/ ~(k \in 1..Len(up[down[t][i].from]))
        BY DEF Flow, DownBeforeUp
    <2>3. down[t][i].num <= Len(sent[down[t][i].from])
        <3>1. down[t][i].num \in 1..Len(sent[down[t][i].from])
            BY DEF Flow, DownSent
        <3> QED
            BY <1>8, <2>1, <3>1
    <2>4. CASE down[t][i].from # z
        BY <1>6, <2>1, <2>2, <2>4
    <2>5. CASE down[t][i].from = z
        <3>1. down[t][i].num <= l
            BY <2>3, <2>5 DEF l
        <3>2. k \in 1..(u + 1)
            BY <1>6, <2>5
        <3>3. CASE k \in 1..u
            BY <1>5, <1>6, <2>2, <2>5, <3>3
        <3>4. CASE k = u + 1
            BY <1>2, <1>7, <2>1, <2>5, <3>1, <3>4
        <3> QED
            BY <1>9, <3>2, <3>3, <3>4
    <2> QED
        BY <2>4, <2>5
<1>15. ArrivedSent'
    BY <1>8 DEF Flow, ArrivedSent
<1>16. ArrivedBeforeUp'
    <2> SUFFICES ASSUME NEW c \in Conns, NEW m \in Nodes,
                        NEW i \in 1..Len(arrived[c][m]), NEW k \in 1..Len(up'[c])
                 PROVE  arrived[c][m][i] < up'[c][k].num
        BY DEF ArrivedBeforeUp
    <2>1. arrived[c][m][i] < up[c][k].num \/ ~(k \in 1..Len(up[c]))
        BY DEF Flow, ArrivedBeforeUp
    <2>2. arrived[c][m][i] \in Nat /\ arrived[c][m][i] <= Len(sent[c])
        BY FlowTypes DEF Flow, ArrivedSent
    <2>3. CASE c # z
        BY <1>6, <2>1, <2>3
    <2>4. CASE c = z
        <3>1. arrived[c][m][i] <= l
            BY <2>2, <2>4 DEF l
        <3>2. k \in 1..(u + 1)
            BY <1>6, <2>4
        <3>3. CASE k \in 1..u
            BY <1>5, <1>6, <2>1, <2>4, <3>3
        <3>4. CASE k = u + 1
            BY <1>2, <1>7, <2>2, <2>4, <3>1, <3>4
        <3> QED
            BY <1>9, <3>2, <3>3, <3>4
    <2> QED
        BY <2>3, <2>4
<1> QED
    BY <1>11, <1>12, <1>13, <1>14, <1>15, <1>16 DEF Flow

(* The switch reads a message: what is left is a part of what was there.   *)
LEMMA ConsumeFacts ==
    ASSUME TypeInv, NEW c \in Conns, Reading(c), Consume(c)
    PROVE  \A t \in Conns : \A k \in 1..Len(up'[t]) :
                \E l \in 1..Len(up[t]) : /\ up'[t][k] = up[t][l]
                                       /\ l = IF t = c THEN k + 1 ELSE k
<1>1. up[c] \in Seq(Messages) /\ up[c] # <<>> /\ Len(up[c]) \in Nat
    BY FlowTypes DEF Reading
<1>2. up'[c] = Tail(up[c]) /\ \A t \in Conns : t # c => up'[t] = up[t]
    BY DEF Consume, TypeInv, NetworkTypeOK
<1>3. Len(Tail(up[c])) = Len(up[c]) - 1
      /\ \A i \in 1..Len(Tail(up[c])) : Tail(up[c])[i] = up[c][i + 1]
    BY <1>1, SeqFacts
<1>4. \A k \in 1..Len(up'[c]) : k + 1 \in 1..Len(up[c]) /\ up'[c][k] = up[c][k + 1]
    BY <1>1, <1>2, <1>3
<1> QED
    BY <1>2, <1>4

LEMMA ConsumeFlow ==
    ASSUME TypeInv, Flow, NEW c \in Conns, Reading(c), Consume(c), UNCHANGED <<sent, arrived>>
    PROVE  UpOrdered' /\ ArrivedSent' /\ ArrivedBeforeUp'
<1>1. \A t \in Conns : \A k \in 1..Len(up'[t]) :
                \E l \in 1..Len(up[t]) : /\ up'[t][k] = up[t][l]
                                       /\ l = IF t = c THEN k + 1 ELSE k
    BY ConsumeFacts
<1>2. UpOrdered'
    <2> SUFFICES ASSUME NEW t \in Conns, NEW i \in 1..Len(up'[t])
                 PROVE  /\ up'[t][i].from = t /\ up'[t][i].num <= Len(sent[t])
                        /\ \A j \in 1..Len(up'[t]) : i < j => up'[t][i].num < up'[t][j].num
        BY DEF UpOrdered
    <2>1. PICK l \in 1..Len(up[t]) : up'[t][i] = up[t][l] /\ l = IF t = c THEN i + 1 ELSE i
        BY <1>1
    <2>2. ASSUME NEW j \in 1..Len(up'[t]), i < j
          PROVE  up'[t][i].num < up'[t][j].num
        <3>1. PICK m \in 1..Len(up[t]) : up'[t][j] = up[t][m] /\ m = IF t = c THEN j + 1 ELSE j
            BY <1>1
        <3>2. l < m
            BY <2>1, <2>2, <3>1
        <3> QED
            BY <2>1, <3>1, <3>2 DEF Flow, UpOrdered
    <2> QED
        BY <2>1, <2>2 DEF Flow, UpOrdered
<1>3. ArrivedSent'
    BY DEF Flow, ArrivedSent
<1>4. ArrivedBeforeUp'
    <2> SUFFICES ASSUME NEW t \in Conns, NEW n \in Nodes,
                        NEW i \in 1..Len(arrived[t][n]), NEW k \in 1..Len(up'[t])
                 PROVE  arrived[t][n][i] < up'[t][k].num
        BY DEF ArrivedBeforeUp
    <2>1. PICK l \in 1..Len(up[t]) : up'[t][k] = up[t][l]
        BY <1>1
    <2> QED
        BY <2>1 DEF Flow, ArrivedBeforeUp
<1> QED
    BY <1>2, <1>3, <1>4

(* Nothing is forwarded.                                                   *)
LEMMA DropFlow ==
    ASSUME TypeInv, Flow, NEW c \in Conns, Reading(c), Consume(c),
           UNCHANGED <<sent, arrived, down, life>>
    PROVE  Flow'
<1>1. \A t \in Conns : \A k \in 1..Len(up'[t]) :
                \E l \in 1..Len(up[t]) : up'[t][k] = up[t][l]
    BY ConsumeFacts
<1>2. UpOrdered' /\ ArrivedSent' /\ ArrivedBeforeUp'
    BY ConsumeFlow
<1>3. DownSent' /\ DownOrdered' /\ ArrivedBeforeDown'
    BY DEF Flow, DownSent, DownOrdered, ArrivedBeforeDown
<1>4. DownBeforeUp'
    <2> SUFFICES ASSUME NEW t \in Conns, NEW i \in 1..Len(down[t]),
                        NEW k \in 1..Len(up'[down[t][i].from])
                 PROVE  down[t][i].num < up'[down[t][i].from][k].num
        BY DEF DownBeforeUp
    <2>1. down[t][i].from \in Conns
        BY FlowTypes
    <2>2. PICK l \in 1..Len(up[down[t][i].from]) :
            up'[down[t][i].from][k] = up[down[t][i].from][l]
        BY <1>1, <2>1
    <2> QED
        BY <2>2 DEF Flow, DownBeforeUp
<1> QED
    BY <1>2, <1>3, <1>4 DEF Flow

LEMMA ForwardFlow ==
    ASSUME TypeInv, Flow, NEW c \in Conns, Forward(c)
    PROVE  Flow'
<1> DEFINE z == Route(c)
           m == Unread(c)
<1>1. /\ Reading(c) /\ Known(c) /\ Consume(c) /\ m.num # 0
      /\ UNCHANGED <<sent, arrived, life>>
    BY DEF Forward, nodeVars, historyVars
<1>2. up[c] \in Seq(Messages) /\ up[c] # <<>> /\ Len(up[c]) \in Nat
    BY <1>1, FlowTypes DEF Reading
<1>3. 1 \in 1..Len(up[c]) /\ m = up[c][1] /\ m \in Messages
    BY <1>2, SeqFacts DEF Unread
<1>4. /\ m.from = c /\ m.num <= Len(sent[c]) /\ m.num \in Nat
      /\ \A j \in 1..Len(up[c]) : 1 < j => m.num < up[c][j].num
    BY <1>3, FlowTypes DEF Flow, UpOrdered
<1>5. z \in Conns /\ Owner(z) = sent[m.from][m.num]
    <2>1. nodes[Destination(m)] \in 1..MaxLife /\ Destination(m) \in Nodes
        BY <1>1 DEF Known, TypeInv, NetworkTypeOK
    <2> QED
        BY <2>1, ConnParts DEF Route, Destination
<1>6. PICK w \in Nat : Len(down[z]) = w
    BY <1>5, FlowTypes
<1>7. /\ Len(down'[z]) = w + 1 /\ \A i \in 1..w : down'[z][i] = down[z][i]
      /\ down'[z][w + 1] = m
      /\ \A t \in Conns : t # z => down'[t] = down[t]
    <2>1. down[z] \in Seq(Messages) /\ down \in [Conns -> Seq(Messages)]
        BY <1>5 DEF TypeInv, NetworkTypeOK
    <2>2. down'[z] = Append(down[z], m) /\ \A t \in Conns : t # z => down'[t] = down[t]
        BY <1>5, <2>1 DEF Forward, Deliver
    <2> HIDE DEF z, m
    <2> QED
        BY <1>3, <1>6, <2>1, <2>2, SeqFacts
<1> HIDE DEF z, m
<1>8. \A i \in 1..(w + 1) : i \in 1..w \/ i = w + 1
    OBVIOUS
<1>9. UpOrdered' /\ ArrivedSent' /\ ArrivedBeforeUp'
    BY <1>1, ConsumeFlow
<1>10. \A t \in Conns : \A i \in 1..Len(down'[t]) :
        \/ i \in 1..Len(down[t]) /\ down'[t][i] = down[t][i]
        \/ t = z /\ i = w + 1 /\ down'[t][i] = m
    BY <1>6, <1>7, <1>8
<1>11. m.num \in 1..Len(sent[c]) /\ Len(sent[c]) \in Nat
    BY <1>1, <1>4, FlowTypes
<1>12. DownSent'
    <2> SUFFICES ASSUME NEW t \in Conns, NEW i \in 1..Len(down'[t])
                 PROVE  /\ down'[t][i].num \in 1..Len(sent[down'[t][i].from])
                        /\ sent[down'[t][i].from][down'[t][i].num] = Owner(t)
        BY <1>1 DEF DownSent
    <2> QED
        BY <1>4, <1>5, <1>10, <1>11 DEF Flow, DownSent
<1>13. DownOrdered'
    <2> SUFFICES ASSUME NEW t \in Conns, NEW i \in 1..Len(down'[t]),
                        NEW j \in 1..Len(down'[t]), i < j,
                        down'[t][i].from = down'[t][j].from
                 PROVE  down'[t][i].num < down'[t][j].num
        BY DEF DownOrdered
    <2>1. i \in 1..Len(down[t]) /\ down'[t][i] = down[t][i]
        BY <1>6, <1>7, <1>10
    <2>2. CASE j \in 1..Len(down[t]) /\ down'[t][j] = down[t][j]
        BY <2>1, <2>2 DEF Flow, DownOrdered
    <2>3. CASE down'[t][j] = m
        BY <1>3, <1>4, <2>1, <2>3 DEF Flow, DownBeforeUp
    <2> QED
        BY <1>10, <2>2, <2>3
<1>14. DownBeforeUp'
    <2> SUFFICES ASSUME NEW t \in Conns, NEW i \in 1..Len(down'[t]),
                        NEW k \in 1..Len(up'[down'[t][i].from])
                 PROVE  down'[t][i].num < up'[down'[t][i].from][k].num
        BY DEF DownBeforeUp
    <2> DEFINE f == down'[t][i].from
    <2>1. f \in Conns
        BY <1>4, <1>10, FlowTypes
    <2>2. PICK l \in 1..Len(up[f]) : up'[f][k] = up[f][l] /\ l = IF f = c THEN k + 1 ELSE k
        BY <1>1, <2>1, ConsumeFacts
    <2>3. CASE i \in 1..Len(down[t]) /\ down'[t][i] = down[t][i]
        BY <2>2, <2>3 DEF Flow, DownBeforeUp
    <2>4. CASE down'[t][i] = m
        <3>1. f = c /\ l = k + 1 /\ k \in Nat /\ k >= 1
            BY <1>4, <2>2, <2>4
        <3>2. 1 < l
            BY <3>1
        <3> QED
            BY <1>4, <2>2, <2>4, <3>1, <3>2
    <2> QED
        BY <1>10, <2>3, <2>4
<1>15. ArrivedBeforeDown'
    <2> SUFFICES ASSUME NEW d \in Conns, NEW t \in Conns, Number(t) = life[Owner(t)],
                        NEW i \in 1..Len(arrived[d][Owner(t)]),
                        NEW j \in 1..Len(down'[t]), down'[t][j].from = d
                 PROVE  arrived[d][Owner(t)][i] < down'[t][j].num
        BY <1>1 DEF ArrivedBeforeDown
    <2>1. CASE j \in 1..Len(down[t]) /\ down'[t][j] = down[t][j]
        BY <2>1 DEF Flow, ArrivedBeforeDown
    <2>2. CASE down'[t][j] = m
        <3>1. d = c /\ Owner(t) \in Nodes /\ 1 \in 1..Len(up[c])
            BY <1>3, <1>4, <2>2, ConnParts
        <3>2. arrived[c][Owner(t)][i] < up[c][1].num
            BY <3>1 DEF Flow, ArrivedBeforeUp
        <3> QED
            BY <1>3, <2>2, <3>1, <3>2
    <2> QED
        BY <1>10, <2>1, <2>2
<1> QED
    BY <1>9, <1>12, <1>13, <1>14, <1>15 DEF Flow

(* A node takes a message, and handles it unless it has been stopped.      *)
LEMMA ReceiveFacts ==
    ASSUME TypeInv, Flow, NEW n \in Nodes, Receive(n)
    PROVE  LET z == Current(n)
               m == Head(down[z])
           IN  /\ z \in Conns /\ Owner(z) = n /\ Number(z) = life[n]
               /\ Len(down[z]) \in Nat /\ 1 \in 1..Len(down[z]) /\ m = down[z][1]
               /\ m \in Messages /\ m.from \in Conns /\ m.num \in Nat
               /\ \A t \in Conns : t # z => down'[t] = down[t]
               /\ \A i \in 1..Len(down'[z]) :
                    i + 1 \in 1..Len(down[z]) /\ down'[z][i] = down[z][i + 1]
               /\ UNCHANGED <<up, sent, life>>
<1> DEFINE z == Current(n)
<1>1. z \in Conns /\ Owner(z) = n /\ Number(z) = life[n]
    BY CurrentConn DEF Receive, TypeInv, HasRun
<1>2. /\ down[z] \in Seq(Messages) /\ Len(down[z]) \in Nat /\ down[z] # <<>>
      /\ down \in [Conns -> Seq(Messages)]
    BY <1>1, FlowTypes DEF Receive, TypeInv, NetworkTypeOK
<1>3. down'[z] = Tail(down[z]) /\ \A t \in Conns : t # z => down'[t] = down[t]
    BY <1>1, <1>2 DEF Receive
<1>4. UNCHANGED <<up, sent, life>>
    BY DEF Receive
<1> HIDE DEF z
<1>5. /\ Head(down[z]) = down[z][1] /\ Head(down[z]) \in Messages
      /\ Len(down'[z]) = Len(down[z]) - 1
      /\ \A i \in 1..Len(down'[z]) : down'[z][i] = down[z][i + 1]
    BY <1>2, <1>3, SeqFacts
<1>6. 1 \in 1..Len(down[z]) /\ \A i \in 1..Len(down'[z]) : i + 1 \in 1..Len(down[z])
    BY <1>2, <1>5
<1>7. Head(down[z]).from \in Conns /\ Head(down[z]).num \in Nat
    BY <1>5, FlowTypes
<1> QED
    BY <1>1, <1>2, <1>3, <1>4, <1>5, <1>6, <1>7 DEF z

LEMMA ReceiveFlow ==
    ASSUME TypeInv, Flow, NEW n \in Nodes, Receive(n)
    PROVE  Flow'
<1> DEFINE z == Current(n)
           m == Head(down[z])
<1>1. /\ z \in Conns /\ Owner(z) = n /\ Number(z) = life[n]
      /\ Len(down[z]) \in Nat /\ 1 \in 1..Len(down[z]) /\ m = down[z][1]
      /\ m \in Messages /\ m.from \in Conns /\ m.num \in Nat
      /\ \A t \in Conns : t # z => down'[t] = down[t]
      /\ \A i \in 1..Len(down'[z]) :
            i + 1 \in 1..Len(down[z]) /\ down'[z][i] = down[z][i + 1]
      /\ UNCHANGED <<up, sent, life>>
    BY ReceiveFacts
<1>2. \/ UNCHANGED arrived
      \/ arrived' = [arrived EXCEPT ![m.from][n] = Append(@, m.num)]
    BY DEF Receive
<1> HIDE DEF z, m
<1>3. \A t \in Conns : \A i \in 1..Len(down'[t]) :
            \E l \in 1..Len(down[t]) : /\ down'[t][i] = down[t][l]
                                     /\ l = IF t = z THEN i + 1 ELSE i
    <2> SUFFICES ASSUME NEW t \in Conns, NEW i \in 1..Len(down'[t])
                 PROVE  \E l \in 1..Len(down[t]) : /\ down'[t][i] = down[t][l]
                                     /\ l = IF t = z THEN i + 1 ELSE i
        OBVIOUS
    <2>1. CASE t = z
        BY <1>1, <2>1
    <2>2. CASE t # z
        BY <1>1, <2>2
    <2> QED
        BY <2>1, <2>2
<1>4. \A c \in Conns, p \in Nodes : \A i \in 1..Len(arrived'[c][p]) :
        \/ i \in 1..Len(arrived[c][p]) /\ arrived'[c][p][i] = arrived[c][p][i]
        \/ c = m.from /\ p = n /\ arrived'[c][p][i] = m.num
    <2> SUFFICES ASSUME NEW c \in Conns, NEW p \in Nodes, NEW i \in 1..Len(arrived'[c][p])
                 PROVE
                    \/ i \in 1..Len(arrived[c][p]) /\ arrived'[c][p][i] = arrived[c][p][i]
                    \/ c = m.from /\ p = n /\ arrived'[c][p][i] = m.num
        OBVIOUS
    <2>1. arrived \in [Conns -> [Nodes -> Seq(Nat)]]
        BY DEF TypeInv, NetworkTypeOK
    <2>2. CASE UNCHANGED arrived
        BY <2>2
    <2>3. CASE arrived'[c][p] = arrived[c][p]
        BY <2>3
    <2>4. CASE c = m.from /\ p = n /\ arrived'[c][p] = Append(arrived[c][p], m.num)
        <3>1. arrived[c][p] \in Seq(Nat) /\ m.num \in Nat
            BY <1>1, <2>1
        <3>2. PICK a \in Nat : Len(arrived[c][p]) = a
            BY <3>1
        <3>3. /\ Len(Append(arrived[c][p], m.num)) = a + 1
              /\ Append(arrived[c][p], m.num)[a + 1] = m.num
              /\ \A j \in 1..a : Append(arrived[c][p], m.num)[j] = arrived[c][p][j]
            BY <3>1, <3>2, SeqFacts
        <3>4. \A j \in 1..(a + 1) : j \in 1..a \/ j = a + 1
            OBVIOUS
        <3> QED
            BY <2>4, <3>2, <3>3, <3>4
    <2>5. CASE arrived' = [arrived EXCEPT ![m.from][n] = Append(@, m.num)]
        BY <1>1, <2>1, <2>3, <2>4, <2>5
    <2> QED
        BY <1>2, <2>2, <2>5
<1>5. m.num \in 1..Len(sent[m.from])
    BY <1>1 DEF Flow, DownSent
<1>6. UpOrdered'
    BY <1>1 DEF Flow, UpOrdered
<1>7. DownSent'
    <2> SUFFICES ASSUME NEW t \in Conns, NEW i \in 1..Len(down'[t])
                 PROVE  /\ down'[t][i].num \in 1..Len(sent[down'[t][i].from])
                        /\ sent[down'[t][i].from][down'[t][i].num] = Owner(t)
        BY <1>1 DEF DownSent
    <2>1. PICK l \in 1..Len(down[t]) : down'[t][i] = down[t][l]
        BY <1>3
    <2> QED
        BY <2>1 DEF Flow, DownSent
<1>8. DownOrdered'
    <2> SUFFICES ASSUME NEW t \in Conns, NEW i \in 1..Len(down'[t]),
                        NEW j \in 1..Len(down'[t]), i < j,
                        down'[t][i].from = down'[t][j].from
                 PROVE  down'[t][i].num < down'[t][j].num
        BY DEF DownOrdered
    <2>1. PICK l \in 1..Len(down[t]) :
            down'[t][i] = down[t][l] /\ l = IF t = z THEN i + 1 ELSE i
        BY <1>3
    <2>2. PICK k \in 1..Len(down[t]) :
            down'[t][j] = down[t][k] /\ k = IF t = z THEN j + 1 ELSE j
        BY <1>3
    <2>3. l < k
        BY <2>1, <2>2
    <2> QED
        BY <2>1, <2>2, <2>3 DEF Flow, DownOrdered
<1>9. DownBeforeUp'
    <2> SUFFICES ASSUME NEW t \in Conns, NEW i \in 1..Len(down'[t]),
                        NEW k \in 1..Len(up[down'[t][i].from])
                 PROVE  down'[t][i].num < up[down'[t][i].from][k].num
        BY <1>1 DEF DownBeforeUp
    <2>1. PICK l \in 1..Len(down[t]) : down'[t][i] = down[t][l]
        BY <1>3
    <2> QED
        BY <2>1 DEF Flow, DownBeforeUp
<1>10. ArrivedSent'
    <2> SUFFICES ASSUME NEW c \in Conns, NEW p \in Nodes, NEW i \in 1..Len(arrived'[c][p])
                 PROVE  arrived'[c][p][i] \in 1..Len(sent[c])
        BY <1>1 DEF ArrivedSent
    <2> QED
        BY <1>4, <1>5 DEF Flow, ArrivedSent
<1>11. ArrivedBeforeUp'
    <2> SUFFICES ASSUME NEW c \in Conns, NEW p \in Nodes,
                        NEW i \in 1..Len(arrived'[c][p]), NEW k \in 1..Len(up[c])
                 PROVE  arrived'[c][p][i] < up[c][k].num
        BY <1>1 DEF ArrivedBeforeUp
    <2>1. CASE i \in 1..Len(arrived[c][p]) /\ arrived'[c][p][i] = arrived[c][p][i]
        BY <2>1 DEF Flow, ArrivedBeforeUp
    <2>2. CASE c = m.from /\ arrived'[c][p][i] = m.num
        BY <1>1, <2>2 DEF Flow, DownBeforeUp
    <2> QED
        BY <1>4, <2>1, <2>2
<1>12. ArrivedBeforeDown'
    <2> SUFFICES ASSUME NEW c \in Conns, NEW t \in Conns, Number(t) = life[Owner(t)],
                        NEW i \in 1..Len(arrived'[c][Owner(t)]),
                        NEW j \in 1..Len(down'[t]), down'[t][j].from = c
                 PROVE  arrived'[c][Owner(t)][i] < down'[t][j].num
        BY <1>1 DEF ArrivedBeforeDown
    <2>1. Owner(t) \in Nodes
        BY ConnParts
    <2>2. PICK l \in 1..Len(down[t]) :
            down'[t][j] = down[t][l] /\ l = IF t = z THEN j + 1 ELSE j
        BY <1>3
    <2>3. CASE i \in 1..Len(arrived[c][Owner(t)])
                /\ arrived'[c][Owner(t)][i] = arrived[c][Owner(t)][i]
        BY <2>2, <2>3 DEF Flow, ArrivedBeforeDown
    <2>4. CASE c = m.from /\ Owner(t) = n /\ arrived'[c][Owner(t)][i] = m.num
        <3>1. t = z
            BY <1>1, <2>4, ConnParts
        <3>2. l = j + 1 /\ j \in Nat /\ j >= 1
            BY <2>2, <3>1
        <3>3. 1 < l /\ down[z][1].from = down[z][l].from
            BY <1>1, <2>2, <2>4, <3>1, <3>2
        <3>4. down[z][1].num < down[z][l].num
            BY <1>1, <2>2, <3>1, <3>3 DEF Flow, DownOrdered
        <3> QED
            BY <1>1, <2>2, <2>4, <3>1, <3>4
    <2> QED
        BY <1>4, <2>1, <2>3, <2>4
<1> QED
    BY <1>6, <1>7, <1>8, <1>9, <1>10, <1>11, <1>12 DEF Flow

LEMMA NodeFlow ==
    ASSUME TypeInv, Fresh, Flow, NEW n \in Nodes,
           Run(n) \/ Connected(n) \/ ConnectFails(n) \/ Replied(n) \/ Handled(n)
               \/ ReadEnds(n) \/ Dropped(n) \/ Stop(n) \/ Disconnect(n) \/ Crash(n)
    PROVE  Flow'
<1>1. CASE Run(n)
    <2>1. UNCHANGED <<sent, arrived, up, down>> /\ life' = [life EXCEPT ![n] = @ + 1]
        BY <1>1 DEF Run, wireVars, historyVars
    <2>2. life \in [Nodes -> 0..MaxLife]
        BY DEF TypeInv, NetworkTypeOK
    <2>3. ASSUME NEW t \in Conns, Number(t) = life'[Owner(t)], Number(t) # life[Owner(t)]
          PROVE  down[t] = <<>>
        <3>1. Owner(t) = n /\ Number(t) = life[n] + 1
            BY <2>1, <2>2, <2>3, ConnParts
        <3>2. NotYet(t)
            BY <3>1, <2>2, SwitchNodeAssumption DEF NotYet
        <3> QED
            BY <3>2 DEF Fresh
    <2> QED
        BY <2>1, <2>3, FlowFrame
<1>2. CASE Connected(n)
    BY <1>2, ConnectedFlow
<1>3. CASE ConnectFails(n) \/ Replied(n) \/ Handled(n) \/ ReadEnds(n) \/ Dropped(n)
            \/ Stop(n) \/ Disconnect(n) \/ Crash(n)
    <2>1. UNCHANGED <<sent, arrived, up, down, life>>
        BY <1>3 DEF ConnectFails, Replied, Handled, ReadEnds, Dropped, Stop, Disconnect,
                    Crash, wireVars, historyVars
    <2> QED
        BY <2>1, FlowFrame
<1> QED
    BY <1>1, <1>2, <1>3

LEMMA SwitchFlow ==
    ASSUME TypeInv, Flow, NEW c \in Conns, SwitchStep(c)
    PROVE  Flow'
<1>1. CASE HandleRegister(c) \/ Drop(c) \/ ForwardFails(c)
    <2>1. Reading(c) /\ Consume(c) /\ UNCHANGED <<sent, arrived, down, life>>
        BY <1>1 DEF HandleRegister, Drop, ForwardFails, HandlerReturns, nodeVars, historyVars
    <2> QED
        BY <2>1, DropFlow
<1>2. CASE Forward(c)
    BY <1>2, ForwardFlow
<1>3. CASE Drained(c) \/ DrainFails(c) \/ LoopEnds(c) \/ Closed(c)
    <2>1. UNCHANGED <<sent, arrived, up, down, life>>
        BY <1>3 DEF Drained, DrainFails, LoopEnds, Closed, HandlerReturns, nodeVars,
                    wireVars, historyVars
    <2> QED
        BY <2>1, FlowFrame
<1> QED
    BY <1>1, <1>2, <1>3 DEF SwitchStep

LEMMA NextFlow == TypeInv /\ Fresh /\ Flow /\ [SwitchNext]_networkVars => Flow'
<1> SUFFICES ASSUME TypeInv, Fresh, Flow, [SwitchNext]_networkVars PROVE Flow'
    OBVIOUS
<1>1. CASE NetworkStep
    BY <1>1, NodeFlow, ReceiveFlow, SwitchFlow DEF NetworkStep, NodeStep
<1>2. CASE \E n \in Nodes : Program(n) \/ Handled(n) \/ Crash(n)
    BY <1>2, NodeFlow DEF Program
<1>3. CASE \E n \in Nodes : \E d \in Addresses : Send(n, d) \/ Reply(n, d)
    <2>1. PICK n \in Nodes, d \in Addresses : Send(n, d) \/ Reply(n, d)
        BY <1>3
    <2>2. Sending(n, d) /\ UNCHANGED <<arrived, down, life>>
        BY <2>1 DEF Send, Reply, nodeVars
    <2> QED
        BY <2>2, SendingFlow
<1>4. CASE UNCHANGED networkVars
    <2>1. UNCHANGED <<sent, arrived, up, down, life>>
        BY <1>4 DEF networkVars, nodeVars, wireVars, historyVars
    <2> QED
        BY <2>1, FlowFrame
<1> QED
    BY <1>1, <1>2, <1>3, <1>4 DEF SwitchNext

-------------------------------------------------------------------------------
(* Each step sends one datagram, hands over one that the node has not got  *)
(* past, or does neither.                                                  *)

LEMMA StepService ==
    TypeInv /\ Flow /\ [SwitchNext]_networkVars => [Service!Next]_(Service!datagramVars)
<1> SUFFICES ASSUME TypeInv, Flow, [SwitchNext]_networkVars
             PROVE  Service!Next \/ UNCHANGED <<sent, arrived>>
    BY DEF Service!datagramVars
<1>1. ASSUME NEW n \in Nodes, NEW d \in Addresses, Send(n, d) \/ Reply(n, d)
      PROVE  Service!Next
    <2>1. Sending(n, d) /\ UNCHANGED arrived
        BY <1>1 DEF Send, Reply
    <2>2. Current(n) \in Conns
        BY <2>1, SendingTypes
    <2>3. Service!Send(Current(n))
        BY <2>1 DEF Sending, Service!Send
    <2> QED
        BY <2>2, <2>3 DEF Service!Next
<1>2. ASSUME NEW n \in Nodes, Receive(n), ~UNCHANGED arrived
      PROVE  Service!Next
    <2> DEFINE z == Current(n)
               m == Head(down[z])
    <2>1. /\ z \in Conns /\ Owner(z) = n /\ Number(z) = life[n]
          /\ 1 \in 1..Len(down[z]) /\ m = down[z][1]
          /\ m.from \in Conns /\ m.num \in Nat /\ UNCHANGED sent
        BY <1>2, ReceiveFacts
    <2>2. arrived' = [arrived EXCEPT ![m.from][n] = Append(@, m.num)]
        BY <1>2 DEF Receive
    <2> HIDE DEF z, m
    <2>3. m.num \in 1..Len(sent[m.from]) /\ sent[m.from][m.num] = n
        BY <2>1 DEF Flow, DownSent
    <2>4. \A i \in 1..Len(arrived[m.from][n]) : arrived[m.from][n][i] < m.num
        BY <2>1 DEF Flow, ArrivedBeforeDown
    <2>5. DOMAIN sent[m.from] = 1..Len(sent[m.from])
        BY <2>1 DEF TypeInv, NetworkTypeOK
    <2>6. DOMAIN arrived[m.from][n] = 1..Len(arrived[m.from][n])
        BY <2>1 DEF TypeInv, NetworkTypeOK
    <2>7. Service!Past(m.from, n, m.num)
        BY <2>4, <2>6 DEF Service!Past
    <2>8. Service!Arrive(m.from, n)
        BY <2>1, <2>2, <2>3, <2>5, <2>7 DEF Service!Arrive
    <2> QED
        BY <2>1, <2>8 DEF Service!Next
<1>3. ASSUME NEW n \in Nodes, Receive(n), UNCHANGED arrived
      PROVE  UNCHANGED <<sent, arrived>>
    BY <1>3 DEF Receive
<1>4. ASSUME NEW n \in Nodes,
             Run(n) \/ Connected(n) \/ ConnectFails(n) \/ Replied(n) \/ Handled(n)
               \/ ReadEnds(n) \/ Dropped(n) \/ Stop(n) \/ Disconnect(n) \/ Crash(n)
      PROVE  UNCHANGED <<sent, arrived>>
    BY <1>4 DEF Run, Connected, ConnectFails, Replied, Handled, ReadEnds, Dropped, Stop,
                Disconnect, Crash, historyVars
<1>5. ASSUME NEW c \in Conns, SwitchStep(c)
      PROVE  UNCHANGED <<sent, arrived>>
    BY <1>5 DEF SwitchStep, HandleRegister, Drop, Forward, Drained, ForwardFails,
                DrainFails, LoopEnds, Closed, HandlerReturns, historyVars
<1>6. CASE UNCHANGED networkVars
    BY <1>6 DEF networkVars, historyVars
<1>7. CASE NetworkStep
    BY <1>2, <1>3, <1>4, <1>5, <1>7 DEF NetworkStep, NodeStep
<1>8. CASE \E n \in Nodes : Program(n) \/ Handled(n) \/ Crash(n)
    BY <1>4, <1>8 DEF Program
<1>9. CASE \E n \in Nodes : \E d \in Addresses : Send(n, d) \/ Reply(n, d)
    BY <1>1, <1>9
<1> QED
    BY <1>6, <1>7, <1>8, <1>9 DEF SwitchNext

-------------------------------------------------------------------------------
(* The table.  The registration is the first message of a connection, and  *)
(* by the time a node has connected again, each old handler that still     *)
(* reads has read its own.                                                 *)

RegisterFirst ==
    \A c \in Conns :
        /\ handler[c] = "draining" => c \in named
        /\ handler[c] = "reading" /\ c \notin named =>
            up[c] # <<>> /\ up[c][1].num = 0
        /\ c \in named => \A i \in 1..Len(up[c]) : up[c][i].num # 0

OldNamed ==
    \A c \in Conns :
        handler[c] = "reading" /\ Number(c) < life[Owner(c)]
            /\ handler[Current(Owner(c))] # "none" => c \in named

Names == RegisterFirst /\ OldNamed /\ Directory

LEMMA InitNames == SwitchInit => Names
<1> SUFFICES ASSUME SwitchInit PROVE Names
    OBVIOUS
<1>1. \A c \in Conns : handler[c] = "none"
    BY DEF SwitchInit
<1>2. named = {} /\ \A n \in Nodes : nodes[n] = 0
    BY DEF SwitchInit
<1> QED
    BY <1>1, <1>2 DEF Names, RegisterFirst, OldNamed, Directory

LEMMA NamesFrame ==
    ASSUME Names, UNCHANGED <<nodes, handler, named, up, life>>
    PROVE  Names'
BY DEF Names, RegisterFirst, OldNamed, Directory, Current

(* A node starts to run again.                                             *)
LEMMA RunNames ==
    ASSUME TypeInv, Fresh, Names, NEW n \in Nodes, Run(n)
    PROVE  Names'
<1>1. /\ UNCHANGED <<nodes, handler, named, up>> /\ life' = [life EXCEPT ![n] = @ + 1]
      /\ life \in [Nodes -> 0..MaxLife] /\ life' \in [Nodes -> 0..MaxLife]
      /\ nodes \in [Nodes -> 0..MaxLife]
    <2>1. Lives[n] \in 0..MaxLife
        BY SwitchNodeAssumption
    <2> QED
        BY <2>1, SwitchNodeAssumption DEF Run, TypeInv, NetworkTypeOK, switchVars, wireVars
<1>2. life[n] + 1 \in 1..MaxLife
    BY <1>1, SwitchNodeAssumption
<1> DEFINE z == <<n, life[n] + 1>>
<1>3. z \in Conns /\ Owner(z) = n /\ Number(z) = life[n] + 1
    BY <1>2, ConnParts
<1>4. handler[z] = "none" /\ z \notin named
    BY <1>1, <1>3 DEF Fresh, NotYet
<1>5. /\ Current(n)' = z
      /\ \A p \in Nodes : p # n => Current(p)' = Current(p) /\ life'[p] = life[p]
    BY <1>1 DEF Current
<1> HIDE DEF z
<1>6. RegisterFirst'
    BY <1>1 DEF Names, RegisterFirst
<1>7. OldNamed'
    <2> SUFFICES ASSUME NEW c \in Conns, handler[c] = "reading",
                        Number(c) < life'[Owner(c)],
                        handler[Current(Owner(c))'] # "none"
                 PROVE  c \in named
        BY <1>1 DEF OldNamed
    <2>1. Owner(c) \in Nodes /\ Owner(c) # n
        BY <1>4, <1>5, ConnParts
    <2> QED
        BY <1>5, <2>1 DEF Names, OldNamed
<1>8. Directory'
    <2> SUFFICES ASSUME NEW p \in Nodes
                 PROVE  /\ nodes[p] # 0 => /\ <<p, nodes[p]>> \in named
                                          /\ handler[<<p, nodes[p]>>] # "ended"
                        /\ Current(p)' \in named /\ handler[Current(p)'] # "ended" =>
                            nodes[p] = life'[p]
        BY <1>1 DEF Directory
    <2> QED
        BY <1>4, <1>5 DEF Names, Directory
<1> QED
    BY <1>6, <1>7, <1>8 DEF Names

LEMMA ConnectedNames ==
    ASSUME TypeInv, Fresh, Names, NEW n \in Nodes, Connected(n)
    PROVE  Names'
<1> DEFINE z == Current(n)
<1>1. z \in Conns /\ Owner(z) = n /\ Number(z) = life[n]
    BY CurrentConn DEF Connected, TypeInv, HasRun
<1>2. handler[z] = "none" /\ z \notin named
    BY <1>1 DEF Connected, Fresh, NotYet
<1>3. /\ UNCHANGED <<nodes, named, life>>
      /\ handler' = [handler EXCEPT ![z] = "reading"]
      /\ up' = [up EXCEPT ![z] = <<Message(z, 0)>>]
    BY DEF Connected
<1>4. /\ handler'[z] = "reading" /\ up'[z] = <<Message(z, 0)>>
      /\ \A c \in Conns : c # z => handler'[c] = handler[c] /\ up'[c] = up[c]
    BY <1>1, <1>3 DEF TypeInv, NetworkTypeOK
<1>5. up'[z] # <<>> /\ up'[z][1].num = 0
    BY <1>4 DEF Message
<1>6. \A k \in 1..(life[n] - 1) : handler[<<n, k>>] = "reading" => <<n, k>> \in named
    BY DEF Connected
<1>7. \A p \in Nodes : Current(p)' = Current(p)
    BY <1>3 DEF Current
<1>8. \A c \in Conns : handler[c] # "none" => c # z /\ handler'[c] = handler[c]
    BY <1>2, <1>4
<1> HIDE DEF z
<1>9. RegisterFirst'
    BY <1>2, <1>3, <1>4, <1>5 DEF Names, RegisterFirst
<1>10. OldNamed'
    <2> SUFFICES ASSUME NEW c \in Conns, handler'[c] = "reading",
                        Number(c) < life[Owner(c)],
                        handler'[Current(Owner(c))] # "none"
                 PROVE  c \in named
        BY <1>3, <1>7, ConnParts DEF OldNamed
    <2>1. CASE Owner(c) = n
        <3>1. c # z
            BY <1>1, <2>1, ConnParts
        <3>2. Number(c) \in 1..(life[n] - 1) /\ c = <<n, Number(c)>>
            BY <2>1, ConnParts, FlowTypes, SwitchNodeAssumption
        <3> QED
            BY <1>4, <1>6, <3>1, <3>2
    <2>2. CASE Owner(c) # n
        <3>1. c # z /\ Current(Owner(c)) # z
            BY <1>1, <2>2 DEF Owner, Current
        <3>2. Current(Owner(c)) \in Conns
            <4>1. Owner(c) \in Nodes /\ Number(c) \in 1..MaxLife
                BY ConnParts
            <4>2. life[Owner(c)] # 0
                BY <4>1, FlowTypes, SwitchNodeAssumption
            <4> QED
                BY <4>1, <4>2, CurrentConn
        <3> QED
            BY <1>4, <3>1, <3>2 DEF Names, OldNamed
    <2> QED
        BY <2>1, <2>2
<1>11. Directory'
    <2> SUFFICES ASSUME NEW p \in Nodes
                 PROVE  /\ nodes[p] # 0 => /\ <<p, nodes[p]>> \in named
                                          /\ handler'[<<p, nodes[p]>>] # "ended"
                        /\ Current(p) \in named /\ handler'[Current(p)] # "ended" =>
                            nodes[p] = life[p]
        BY <1>3, <1>7 DEF Directory
    <2>1. named \subseteq Conns
        BY DEF TypeInv, NetworkTypeOK
    <2> QED
        BY <1>2, <1>4, <2>1 DEF Names, Directory
<1> QED
    BY <1>9, <1>10, <1>11 DEF Names

LEMMA SendingNames ==
    ASSUME TypeInv, Flow, Names, NEW n \in Nodes, NEW d \in Addresses, Sending(n, d),
           UNCHANGED <<nodes, handler, named, life>>
    PROVE  Names'
<1> DEFINE z == Current(n)
           m == Message(z, Len(sent[z]) + 1)
<1>1. z \in Conns
    BY SendingTypes
<1>2. m.num # 0 /\ m \in Messages
    <2>1. Len(sent[z]) \in Nat
        BY <1>1, FlowTypes
    <2> QED
        BY <1>1, <2>1 DEF Message, Messages
<1>3. /\ up[z] \in Seq(Messages) /\ up'[z] = Append(up[z], m)
      /\ \A c \in Conns : c # z => up'[c] = up[c]
    BY <1>1 DEF Sending, TypeInv, NetworkTypeOK
<1> HIDE DEF z, m
<1>4. PICK u \in Nat : Len(up[z]) = u
    BY <1>3, SeqFacts
<1>5. /\ Len(up'[z]) = u + 1 /\ up'[z][u + 1] = m
      /\ \A i \in 1..u : up'[z][i] = up[z][i]
    BY <1>2, <1>3, <1>4, SeqFacts
<1>6. \A i \in 1..(u + 1) : i \in 1..u \/ i = u + 1
    OBVIOUS
<1>7. up[z] # <<>> => up'[z] # <<>> /\ up'[z][1] = up[z][1]
    <2>1. up[z] # <<>> => u # 0
        BY <1>3, <1>4
    <2>2. u + 1 # 0
        OBVIOUS
    <2> QED
        BY <1>5, <2>1, <2>2, EmptyFacts
<1>8. RegisterFirst'
    <2> SUFFICES ASSUME NEW c \in Conns
                 PROVE  /\ handler[c] = "draining" => c \in named
                        /\ handler[c] = "reading" /\ c \notin named =>
                            up'[c] # <<>> /\ up'[c][1].num = 0
                        /\ c \in named => \A i \in 1..Len(up'[c]) : up'[c][i].num # 0
        BY DEF RegisterFirst
    <2>1. CASE c # z
        BY <1>3, <2>1 DEF Names, RegisterFirst
    <2>2. CASE c = z
        BY <1>2, <1>4, <1>5, <1>6, <1>7, <2>2 DEF Names, RegisterFirst
    <2> QED
        BY <2>1, <2>2
<1>9. OldNamed' /\ Directory'
    BY DEF Names, OldNamed, Directory, Current
<1> QED
    BY <1>8, <1>9 DEF Names

(* What the step of one handler leaves alone, and how OldNamed and the     *)
(* second half of Directory follow when the handler's connection is named. *)
LEMMA OldFrame ==
    ASSUME TypeInv, Fresh, Names, NEW c \in Conns, handler[c] # "none",
           UNCHANGED life, handler'[c] # "none",
           \A t \in Conns : t # c => handler'[t] = handler[t],
           \A t \in Conns : t \in named => t \in named',
           handler'[c] = "reading" => c \in named'
    PROVE  OldNamed'
<1> SUFFICES ASSUME NEW t \in Conns, handler'[t] = "reading",
                    Number(t) < life[Owner(t)], handler'[Current(Owner(t))] # "none"
             PROVE  t \in named'
    BY ConnParts DEF OldNamed, Current
<1>1. Owner(t) \in Nodes /\ Current(Owner(t)) \in Conns
    <2>1. Owner(t) \in Nodes /\ Number(t) \in 1..MaxLife
        BY ConnParts
    <2>2. life[Owner(t)] # 0
        BY <2>1, FlowTypes, SwitchNodeAssumption
    <2> QED
        BY <2>1, <2>2, CurrentConn
<1>2. handler[Current(Owner(t))] # "none"
    BY <1>1
<1> QED
    BY <1>2 DEF Names, OldNamed

LEMMA RegisterNames ==
    ASSUME TypeInv, Fresh, Flow, Names, NEW c \in Conns, HandleRegister(c)
    PROVE  Names'
<1>1. /\ handler[c] = "reading" /\ up[c] # <<>> /\ Unread(c).num = 0
      /\ Consume(c) /\ Reading(c)
      /\ UNCHANGED <<handler, life>> /\ named' = named \cup {c}
      /\ nodes' = [nodes EXCEPT ![Owner(c)] = Number(c)]
    BY DEF HandleRegister, Reading, nodeVars
<1>2. up[c] \in Seq(Messages) /\ 1 \in 1..Len(up[c]) /\ up[c][1].num = 0
    <2>1. up[c] \in Seq(Messages)
        BY FlowTypes
    <2> QED
        BY <1>1, <2>1 DEF Unread
<1>3. c \notin named
    BY <1>2 DEF Names, RegisterFirst
<1>4. \A t \in Conns : \A k \in 1..Len(up'[t]) :
                \E l \in 1..Len(up[t]) : /\ up'[t][k] = up[t][l]
                                       /\ l = IF t = c THEN k + 1 ELSE k
    BY <1>1, ConsumeFacts
<1>5. \A t \in Conns : t # c => up'[t] = up[t]
    BY <1>1 DEF Consume, TypeInv, NetworkTypeOK
<1>6. Owner(c) \in Nodes /\ Number(c) \in 1..MaxLife /\ c = <<Owner(c), Number(c)>>
    BY ConnParts
<1>7. RegisterFirst'
    <2>1. ASSUME NEW i \in 1..Len(up'[c])
          PROVE  up'[c][i].num # 0
        <3>1. PICK l \in 1..Len(up[c]) : up'[c][i] = up[c][l] /\ l = i + 1
            BY <1>4
        <3>2. 1 < l
            BY <3>1
        <3>3. up[c][1].num < up[c][l].num
            BY <1>2, <3>2 DEF Flow, UpOrdered
        <3> QED
            BY <1>2, <3>1, <3>3
    <2> QED
        BY <1>1, <1>5, <2>1 DEF Names, RegisterFirst
<1>8. OldNamed'
    BY <1>1, OldFrame
<1>9. \A n \in Nodes : Current(n)' = Current(n)
    BY <1>1 DEF Current
<1>10. Directory'
    <2> SUFFICES ASSUME NEW p \in Nodes
                 PROVE  /\ nodes'[p] # 0 => /\ <<p, nodes'[p]>> \in named'
                                           /\ handler[<<p, nodes'[p]>>] # "ended"
                        /\ Current(p) \in named' /\ handler[Current(p)] # "ended" =>
                            nodes'[p] = life[p]
        BY <1>1, <1>9 DEF Directory
    <2>0. nodes \in [Nodes -> 0..MaxLife] /\ life \in [Nodes -> 0..MaxLife]
        BY SwitchNodeAssumption DEF TypeInv, NetworkTypeOK
    <2>1. CASE p # Owner(c)
        <3>1. nodes'[p] = nodes[p] /\ Current(p) # c
            BY <1>1, <1>6, <2>0, <2>1 DEF Current, Owner
        <3> QED
            BY <1>1, <3>1 DEF Names, Directory
    <2>2. CASE p = Owner(c)
        <3>1. nodes'[p] = Number(c)
            BY <1>1, <1>6, <2>0, <2>2
        <3>2. Number(c) <= life[p]
            <4>1. ~NotYet(c)
                BY <1>1 DEF Fresh
            <4> QED
                BY <1>6, <2>0, <2>2, <4>1, SwitchNodeAssumption DEF NotYet
        <3>3. ASSUME Current(p) \in named', Number(c) # life[p] PROVE FALSE
            <4>1. Number(c) < life[p]
                BY <1>6, <2>0, <3>2, <3>3, SwitchNodeAssumption
            <4>2. Current(p) \in named
                BY <1>1, <3>3 DEF Current, Number
            <4>3. handler[Current(p)] # "none"
                BY <4>2 DEF Fresh, TypeInv, NetworkTypeOK
            <4> QED
                BY <1>1, <1>3, <2>2, <4>1, <4>3 DEF Names, OldNamed
        <3> QED
            BY <1>1, <1>6, <2>2, <3>1, <3>3
    <2> QED
        BY <2>1, <2>2
<1> QED
    BY <1>7, <1>8, <1>10 DEF Names

(* The handler of a named connection reads on, or waits to.                *)
LEMMA GoOnNames ==
    ASSUME TypeInv, Fresh, Names, NEW c \in Conns, c \in named,
           UNCHANGED <<nodes, named, life>>, up' = up \/ (Reading(c) /\ Consume(c)),
           handler' = [handler EXCEPT ![c] = "reading"]
               \/ handler' = [handler EXCEPT ![c] = "draining"] \/ UNCHANGED handler,
           handler[c] \in {"reading", "draining"}
    PROVE  Names'
<1>1. /\ handler'[c] \in {"reading", "draining"}
      /\ \A t \in Conns : t # c => handler'[t] = handler[t]
    BY DEF TypeInv, NetworkTypeOK
<1>2. \A t \in Conns : t # c => up'[t] = up[t]
    BY DEF Consume, TypeInv, NetworkTypeOK
<1>3. \A k \in 1..Len(up'[c]) : up'[c][k].num # 0
    <2>1. \A k \in 1..Len(up[c]) : up[c][k].num # 0
        BY DEF Names, RegisterFirst
    <2>2. CASE up' = up
        BY <2>1, <2>2
    <2>3. CASE Reading(c) /\ Consume(c)
        <3>1. \A k \in 1..Len(up'[c]) : \E l \in 1..Len(up[c]) : up'[c][k] = up[c][l]
            BY <2>3, ConsumeFacts
        <3> QED
            BY <2>1, <3>1
    <2> QED
        BY <2>2, <2>3
<1>4. RegisterFirst'
    BY <1>1, <1>2, <1>3 DEF Names, RegisterFirst
<1>5. OldNamed'
    BY <1>1, OldFrame
<1>6. \A t \in Conns : handler'[t] = "ended" <=> handler[t] = "ended"
    BY <1>1
<1>7. Directory'
    <2> SUFFICES ASSUME NEW p \in Nodes
                 PROVE  /\ nodes[p] # 0 => /\ <<p, nodes[p]>> \in named
                                          /\ handler'[<<p, nodes[p]>>] # "ended"
                        /\ Current(p) \in named /\ handler'[Current(p)] # "ended" =>
                            nodes[p] = life[p]
        BY DEF Directory, Current
    <2>1. named \subseteq Conns
        BY DEF TypeInv, NetworkTypeOK
    <2> QED
        BY <1>6, <2>1 DEF Names, Directory
<1> QED
    BY <1>4, <1>5, <1>7 DEF Names

(* A handler ends.                                                         *)
LEMMA ReturnNames ==
    ASSUME TypeInv, Fresh, Names, NEW c \in Conns, HandlerReturns(c),
           up' = up \/ (Reading(c) /\ Consume(c)), handler[c] # "none"
    PROVE  Names'
<1>1. /\ nodes' = IF Removed(c) THEN [nodes EXCEPT ![Owner(c)] = 0] ELSE nodes
      /\ handler' = [handler EXCEPT ![c] = "ended"]
      /\ UNCHANGED <<named, life>>
    BY DEF HandlerReturns, nodeVars
<1>2. /\ handler'[c] = "ended"
      /\ \A t \in Conns : t # c => handler'[t] = handler[t]
    BY <1>1 DEF TypeInv, NetworkTypeOK
<1>3. \A t \in Conns : t # c => up'[t] = up[t]
    BY DEF Consume, TypeInv, NetworkTypeOK
<1>4. c \in named => \A k \in 1..Len(up'[c]) : up'[c][k].num # 0
    <2>1. c \in named => \A k \in 1..Len(up[c]) : up[c][k].num # 0
        BY DEF Names, RegisterFirst
    <2>2. CASE up' = up
        BY <2>1, <2>2
    <2>3. CASE Reading(c) /\ Consume(c)
        <3>1. \A k \in 1..Len(up'[c]) : \E l \in 1..Len(up[c]) : up'[c][k] = up[c][l]
            BY <2>3, ConsumeFacts
        <3> QED
            BY <2>1, <3>1
    <2> QED
        BY <2>2, <2>3
<1>5. RegisterFirst'
    BY <1>1, <1>2, <1>3, <1>4 DEF Names, RegisterFirst
<1>6. OldNamed'
    BY <1>1, <1>2, OldFrame
<1>7. Directory'
    <2> SUFFICES ASSUME NEW p \in Nodes
                 PROVE  /\ nodes'[p] # 0 => /\ <<p, nodes'[p]>> \in named
                                           /\ handler'[<<p, nodes'[p]>>] # "ended"
                        /\ Current(p) \in named /\ handler'[Current(p)] # "ended" =>
                            nodes'[p] = life[p]
        BY <1>1 DEF Directory, Current
    <2>0. nodes \in [Nodes -> 0..MaxLife] /\ life \in [Nodes -> 0..MaxLife]
          /\ named \subseteq Conns
        BY SwitchNodeAssumption DEF TypeInv, NetworkTypeOK
    <2>1. Owner(c) \in Nodes /\ c = <<Owner(c), Number(c)>>
          /\ Owner(Current(p)) = p /\ Number(Current(p)) = life[p]
          /\ Number(c) # 0
        BY ConnParts, SwitchNodeAssumption DEF Owner, Number, Current
    <2>2. nodes'[p] = nodes[p] \/ nodes'[p] = 0
        BY <1>1, <2>0, <2>1
    <2>3. ASSUME nodes'[p] # 0
          PROVE  <<p, nodes'[p]>> \in named /\ handler'[<<p, nodes'[p]>>] # "ended"
        <3>1. nodes'[p] = nodes[p] /\ <<p, nodes[p]>> \in named
              /\ handler[<<p, nodes[p]>>] # "ended"
            BY <2>2, <2>3 DEF Names, Directory
        <3>2. <<p, nodes[p]>> # c
            <4>1. SUFFICES ASSUME <<p, nodes[p]>> = c PROVE FALSE
                OBVIOUS
            <4>2. Owner(c) = p /\ Number(c) = nodes[p] /\ c \in named
                BY <3>1, <4>1 DEF Owner, Number
            <4>3. Removed(c)
                BY <4>2 DEF Removed
            <4>4. nodes'[p] = 0
                BY <1>1, <2>0, <4>2, <4>3
            <4> QED
                BY <2>3, <4>4
        <3> QED
            BY <1>2, <2>0, <3>1, <3>2
    <2>4. ASSUME Current(p) \in named, handler'[Current(p)] # "ended"
          PROVE  nodes'[p] = life[p]
        <3>1. Current(p) # c /\ handler[Current(p)] # "ended"
            BY <1>2, <2>0, <2>4
        <3>2. nodes[p] = life[p]
            BY <2>4, <3>1 DEF Names, Directory
        <3>3. CASE Removed(c) /\ Owner(c) = p
            <4>1. Number(c) = life[p]
                BY <3>2, <3>3 DEF Removed
            <4> QED
                BY <2>1, <3>1, <3>3, <4>1 DEF Current
        <3>4. CASE ~(Removed(c) /\ Owner(c) = p)
            BY <1>1, <2>0, <2>1, <3>2, <3>4
        <3> QED
            BY <3>3, <3>4
    <2> QED
        BY <2>3, <2>4
<1> QED
    BY <1>5, <1>6, <1>7 DEF Names

(* A datagram read comes from a named connection.                          *)
LEMMA DatagramNamed ==
    ASSUME TypeInv, Names, NEW c \in Conns, Reading(c), Unread(c).num # 0
    PROVE  c \in named /\ handler[c] = "reading"
<1>1. up[c] \in Seq(Messages) /\ up[c] # <<>> /\ handler[c] = "reading"
    BY FlowTypes DEF Reading
<1>2. Unread(c) = up[c][1]
    BY <1>1 DEF Unread
<1> QED
    BY <1>1, <1>2 DEF Names, RegisterFirst

LEMMA SwitchNames ==
    ASSUME TypeInv, Fresh, Flow, Names, NEW c \in Conns, SwitchStep(c)
    PROVE  Names'
<1>1. CASE HandleRegister(c)
    BY <1>1, RegisterNames
<1>2. CASE Drop(c)
    <2>1. /\ Reading(c) /\ Unread(c).num # 0 /\ Consume(c)
          /\ UNCHANGED <<nodes, named, life, handler>>
        BY <1>2 DEF Drop, switchVars, nodeVars
    <2> QED
        BY <2>1, DatagramNamed, GoOnNames
<1>3. CASE Forward(c)
    <2>1. /\ Reading(c) /\ Unread(c).num # 0 /\ Consume(c)
          /\ UNCHANGED <<nodes, named, life>>
          /\ handler' = [handler EXCEPT ![c] = "draining"] \/ UNCHANGED handler
        BY <1>3 DEF Forward, nodeVars
    <2> QED
        BY <2>1, DatagramNamed, GoOnNames
<1>4. CASE Drained(c)
    <2>1. /\ handler[c] = "draining" /\ UNCHANGED <<nodes, named, life, up>>
          /\ handler' = [handler EXCEPT ![c] = "reading"]
        BY <1>4 DEF Drained, nodeVars, wireVars
    <2>2. c \in named
        BY <2>1 DEF Names, RegisterFirst
    <2> QED
        BY <2>1, <2>2, GoOnNames
<1>5. CASE ForwardFails(c) \/ DrainFails(c) \/ LoopEnds(c)
    <2>1. /\ HandlerReturns(c) /\ handler[c] # "none"
          /\ up' = up \/ (Reading(c) /\ Consume(c))
        BY <1>5 DEF ForwardFails, DrainFails, LoopEnds, Reading
    <2> QED
        BY <2>1, ReturnNames
<1>6. CASE Closed(c)
    <2>1. UNCHANGED <<nodes, handler, named, up, life>>
        BY <1>6 DEF Closed, nodeVars, wireVars
    <2> QED
        BY <2>1, NamesFrame
<1> QED
    BY <1>1, <1>2, <1>3, <1>4, <1>5, <1>6 DEF SwitchStep

LEMMA NextNames ==
    TypeInv /\ Fresh /\ Flow /\ Names /\ [SwitchNext]_networkVars => Names'
<1> SUFFICES ASSUME TypeInv, Fresh, Flow, Names, [SwitchNext]_networkVars
             PROVE  Names'
    OBVIOUS
<1>1. ASSUME NEW n \in Nodes,
             ConnectFails(n) \/ Receive(n) \/ Replied(n) \/ Handled(n)
               \/ ReadEnds(n) \/ Dropped(n) \/ Stop(n) \/ Disconnect(n) \/ Crash(n)
      PROVE  Names'
    <2>1. UNCHANGED <<nodes, handler, named, up, life>>
        BY <1>1 DEF ConnectFails, Receive, Replied, Handled, ReadEnds, Dropped, Stop,
                    Disconnect, Crash, switchVars, wireVars
    <2> QED
        BY <2>1, NamesFrame
<1>2. CASE NetworkStep
    BY <1>1, <1>2, ConnectedNames, SwitchNames DEF NetworkStep, NodeStep
<1>3. CASE \E n \in Nodes : Program(n) \/ Handled(n) \/ Crash(n)
    BY <1>1, <1>3, RunNames DEF Program
<1>4. CASE \E n \in Nodes : \E d \in Addresses : Send(n, d) \/ Reply(n, d)
    <2>1. PICK n \in Nodes, d \in Addresses : Send(n, d) \/ Reply(n, d)
        BY <1>4
    <2>2. Sending(n, d) /\ UNCHANGED <<nodes, handler, named, life>>
        BY <2>1 DEF Send, Reply, switchVars, nodeVars
    <2> QED
        BY <2>2, SendingNames
<1>5. CASE UNCHANGED networkVars
    <2>1. UNCHANGED <<nodes, handler, named, up, life>>
        BY <1>5 DEF networkVars, switchVars, nodeVars, wireVars
    <2> QED
        BY <2>1, NamesFrame
<1> QED
    BY <1>2, <1>3, <1>4, <1>5 DEF SwitchNext

-------------------------------------------------------------------------------
(* The two ends of a connection.                                           *)

EndsAgree ==
    \A c \in Conns :
        /\ client[c] = "open" => /\ Number(c) = life[Owner(c)]
                                 /\ phase[Owner(c)] # "idle"
        /\ handler[c] = "draining" => sent[c] # <<>>
        /\ client[c] = "dropped" \/ handler[c] = "ended" => server[c] = "closed"
        /\ client[c] \in {"open", "dropped"} /\ sent[c] = <<>> => server[c] = "open"

LEMMA InitEnds == SwitchInit => EndsAgree
BY DEF SwitchInit, EndsAgree

LEMMA EndsFrame ==
    ASSUME EndsAgree, UNCHANGED <<client, life, phase, handler, sent, server>>
    PROVE  EndsAgree'
BY DEF EndsAgree

(* Steps of a node change neither the switch nor what was sent.            *)
LEMMA NodeEnds ==
    ASSUME TypeInv, Fresh, EndsAgree, NEW n \in Nodes,
           Run(n) \/ ConnectFails(n) \/ Replied(n) \/ Handled(n) \/ Receive(n)
               \/ ReadEnds(n) \/ Dropped(n) \/ Stop(n) \/ Disconnect(n) \/ Crash(n)
    PROVE  EndsAgree'
<1>t. /\ phase \in [Nodes -> {"idle", "connecting", "reading", "handling", "draining"}]
      /\ client \in [Conns -> {"none", "open", "left", "dropped"}]
      /\ life \in [Nodes -> 0..MaxLife]
    BY DEF TypeInv, NetworkTypeOK
<1>1. UNCHANGED <<handler, server, sent>>
    BY DEF Run, ConnectFails, Replied, Handled, Receive, ReadEnds, Dropped, Stop,
           Disconnect, Crash, switchVars, historyVars
<1>2. \A c \in Conns :
        \/ client'[c] = client[c]
        \/ client'[c] = "left"
        \/ client'[c] = "dropped" /\ server[c] = "closed" /\ client[c] = "open"
    <2> SUFFICES ASSUME NEW c \in Conns
                 PROVE  \/ client'[c] = client[c]
                        \/ client'[c] = "left"
                        \/ /\ client'[c] = "dropped" /\ server[c] = "closed"
                           /\ client[c] = "open"
        OBVIOUS
    <2>1. CASE Run(n) \/ ConnectFails(n) \/ Replied(n) \/ Handled(n) \/ Stop(n)
        BY <2>1 DEF Run, ConnectFails, Replied, Handled, Stop
    <2>2. CASE Dropped(n)
        BY <1>t, <2>2 DEF Dropped
    <2>3. CASE Disconnect(n)
        BY <1>t, <2>3 DEF Disconnect
    <2>4. CASE Leave(n)
        BY <1>t, <2>4 DEF Leave
    <2>5. CASE Receive(n) /\ ~Leave(n)
        BY <2>5 DEF Receive
    <2> QED
        BY <2>1, <2>2, <2>3, <2>4, <2>5 DEF ReadEnds, Crash
<1>3. ASSUME NEW c \in Conns, client'[c] = "open"
      PROVE  Number(c) = life'[Owner(c)] /\ phase'[Owner(c)] # "idle"
    <2>1. client[c] = "open" /\ Number(c) = life[Owner(c)] /\ phase[Owner(c)] # "idle"
          /\ Owner(c) \in Nodes /\ c = Current(Owner(c))
        BY <1>2, <1>3, ConnParts DEF EndsAgree, Current
    <2>2. CASE Owner(c) # n
        <3>1. \A m \in Nodes : m # n => life'[m] = life[m] /\ phase'[m] = phase[m]
            BY <1>t DEF Run, ConnectFails, Replied, Handled, Receive, ReadEnds, Dropped,
                        Stop, Disconnect, Crash, Leave
        <3> QED
            BY <2>1, <2>2, <3>1
    <2>3. CASE Owner(c) = n
        <3>1. c = Current(n) /\ phase[n] # "idle"
            BY <2>1, <2>3
        <3>2. ~Run(n)
            BY <3>1 DEF Run
        <3>3. ~ConnectFails(n)
            <4>1. SUFFICES ASSUME phase[n] = "connecting" PROVE FALSE
                BY DEF ConnectFails
            <4>2. client[c] = "none"
                BY <2>1, <2>3, <4>1 DEF Fresh, NotYet
            <4> QED
                BY <2>1, <4>2
        <3>4. ~Leave(n)
            <4>1. SUFFICES ASSUME Leave(n) PROVE FALSE
                OBVIOUS
            <4>2. client'[c] = "left"
                BY <1>t, <2>1, <3>1, <4>1 DEF Leave
            <4> QED
                BY <1>3, <4>2
        <3>5. life' = life /\ phase'[n] # "idle"
            BY <1>t, <3>1, <3>2, <3>3, <3>4
               DEF Replied, Handled, Receive, ReadEnds, Dropped, Stop, Disconnect, Crash
        <3> QED
            BY <2>1, <2>3, <3>5
    <2> QED
        BY <2>2, <2>3
<1> QED
    BY <1>1, <1>2, <1>3 DEF EndsAgree

LEMMA ConnectedEnds ==
    ASSUME TypeInv, Fresh, EndsAgree, NEW n \in Nodes, Connected(n)
    PROVE  EndsAgree'
<1> DEFINE z == Current(n)
<1>1. z \in Conns /\ Owner(z) = n /\ Number(z) = life[n]
    BY CurrentConn DEF Connected, TypeInv, HasRun
<1>2. /\ UNCHANGED <<life, sent>> /\ phase' = [phase EXCEPT ![n] = "reading"]
      /\ client' = [client EXCEPT ![z] = "open"]
      /\ server' = [server EXCEPT ![z] = "open"]
      /\ handler' = [handler EXCEPT ![z] = "reading"]
    BY DEF Connected, historyVars
<1>3. /\ phase \in [Nodes -> {"idle", "connecting", "reading", "handling", "draining"}]
      /\ client \in [Conns -> {"none", "open", "left", "dropped"}]
      /\ server \in [Conns -> {"none", "open", "closed"}]
      /\ handler \in [Conns -> {"none", "reading", "draining", "ended"}]
    BY DEF TypeInv, NetworkTypeOK
<1> HIDE DEF z
<1>4. /\ client'[z] = "open" /\ server'[z] = "open" /\ handler'[z] = "reading"
      /\ phase'[n] # "idle" /\ \A m \in Nodes : m # n => phase'[m] = phase[m]
      /\ \A c \in Conns : c # z => /\ client'[c] = client[c] /\ server'[c] = server[c]
                                   /\ handler'[c] = handler[c]
    BY <1>1, <1>2, <1>3
<1> SUFFICES ASSUME NEW c \in Conns
             PROVE  /\ client'[c] = "open" => /\ Number(c) = life[Owner(c)]
                                              /\ phase'[Owner(c)] # "idle"
                    /\ handler'[c] = "draining" => sent[c] # <<>>
                    /\ client'[c] = "dropped" \/ handler'[c] = "ended" =>
                        server'[c] = "closed"
                    /\ client'[c] \in {"open", "dropped"} /\ sent[c] = <<>> =>
                        server'[c] = "open"
    BY <1>2 DEF EndsAgree
<1>5. CASE c = z
    BY <1>1, <1>4, <1>5
<1>6. CASE c # z
    BY <1>4, <1>6, ConnParts DEF EndsAgree
<1> QED
    BY <1>5, <1>6

LEMMA SendingEnds ==
    ASSUME TypeInv, EndsAgree, NEW n \in Nodes, NEW d \in Addresses,
           Send(n, d) \/ Reply(n, d)
    PROVE  EndsAgree'
<1>1. Current(n) \in Conns /\ Sending(n, d)
    BY SendingTypes DEF Send, Reply
<1>2. \A c \in Conns : sent'[c] = <<>> => sent[c] = <<>>
    <2>1. \A q \in Seq(Addresses) : Append(q, d) # <<>>
        <3>1. ASSUME NEW q \in Seq(Addresses) PROVE Append(q, d) # <<>>
            <4>1. Len(Append(q, d)) = Len(q) + 1 /\ Len(q) \in Nat
                BY SeqFacts
            <4> QED
                BY <4>1, EmptyFacts
        <3> QED
            BY <3>1
    <2>2. /\ \A c \in Conns : sent[c] \in Seq(Addresses)
          /\ sent'[Current(n)] = Append(sent[Current(n)], d)
          /\ \A c \in Conns : c # Current(n) => sent'[c] = sent[c]
        BY <1>1 DEF Sending, TypeInv, NetworkTypeOK
    <2> QED
        BY <1>1, <2>1, <2>2
<1>3. UNCHANGED <<client, life, handler, server>>
    BY DEF Send, Reply, switchVars, nodeVars
<1>4. \A m \in Nodes : phase[m] # "idle" => phase'[m] # "idle"
    BY DEF Send, Reply, nodeVars, TypeInv, NetworkTypeOK
<1> QED
    BY <1>2, <1>3, <1>4, ConnParts DEF EndsAgree

(* What a handler does to the switch's end of its connection.              *)
LEMMA SwitchEnds ==
    ASSUME TypeInv, Fresh, Flow, EndsAgree, NEW c \in Conns, SwitchStep(c)
    PROVE  EndsAgree'
<1>t. /\ server \in [Conns -> {"none", "open", "closed"}]
      /\ handler \in [Conns -> {"none", "reading", "draining", "ended"}]
    BY DEF TypeInv, NetworkTypeOK
<1>1. UNCHANGED <<client, life, phase, sent>>
    BY DEF SwitchStep, HandleRegister, Drop, Forward, Drained, ForwardFails, DrainFails,
           LoopEnds, Closed, HandlerReturns, nodeVars, historyVars
<1>2. Reading(c) /\ Unread(c).num # 0 => sent[c] # <<>>
    <2>1. SUFFICES ASSUME Reading(c), Unread(c).num # 0, sent[c] = <<>> PROVE FALSE
        OBVIOUS
    <2>2. up[c] \in Seq(Messages) /\ up[c] # <<>> /\ Len(sent[c]) = 0
        BY <2>1, FlowTypes DEF Reading
    <2>3. 1 \in 1..Len(up[c]) /\ Unread(c) = up[c][1]
        BY <2>2 DEF Unread
    <2>4. up[c][1].num <= 0 /\ up[c][1].num \in Nat
        BY <2>2, <2>3, FlowTypes DEF Flow, UpOrdered
    <2> QED
        BY <2>1, <2>3, <2>4
<1>3. CASE HandlerReturns(c) /\ (server[c] = "closed" \/ sent[c] # <<>>)
    <2>1. /\ server'[c] = "closed" /\ handler'[c] = "ended"
          /\ \A t \in Conns : t # c => server'[t] = server[t] /\ handler'[t] = handler[t]
        BY <1>t, <1>3 DEF HandlerReturns
    <2> QED
        BY <1>1, <1>3, <2>1 DEF EndsAgree
<1>4. CASE HandleRegister(c) \/ Drop(c)
    <2>1. UNCHANGED <<handler, server>>
        BY <1>4 DEF HandleRegister, Drop, switchVars
    <2> QED
        BY <1>1, <2>1, EndsFrame
<1>5. CASE Forward(c)
    <2>1. /\ server' = server /\ sent[c] # <<>> /\ handler[c] = "reading"
          /\ handler' = [handler EXCEPT ![c] = "draining"] \/ UNCHANGED handler
        BY <1>2, <1>5 DEF Forward, Reading
    <2>2. /\ handler'[c] # "ended"
          /\ \A t \in Conns : t # c => handler'[t] = handler[t]
        BY <1>t, <2>1
    <2> QED
        BY <1>1, <2>1, <2>2 DEF EndsAgree
<1>6. CASE Drained(c)
    <2>1. /\ server' = server /\ handler'[c] = "reading"
          /\ \A t \in Conns : t # c => handler'[t] = handler[t]
        BY <1>t, <1>6 DEF Drained
    <2> QED
        BY <1>1, <2>1 DEF EndsAgree
<1>7. CASE Closed(c)
    <2>1. /\ handler' = handler /\ server'[c] = "closed" /\ client[c] = "left"
          /\ \A t \in Conns : t # c => server'[t] = server[t]
        BY <1>t, <1>7 DEF Closed
    <2> QED
        BY <1>1, <2>1 DEF EndsAgree
<1>8. CASE ForwardFails(c)
    BY <1>2, <1>3, <1>8 DEF ForwardFails
<1>9. CASE DrainFails(c) \/ LoopEnds(c)
    BY <1>3, <1>9 DEF DrainFails, LoopEnds, EndsAgree
<1> QED
    BY <1>4, <1>5, <1>6, <1>7, <1>8, <1>9 DEF SwitchStep

LEMMA NextEnds ==
    TypeInv /\ Fresh /\ Flow /\ EndsAgree /\ [SwitchNext]_networkVars => EndsAgree'
<1> SUFFICES ASSUME TypeInv, Fresh, Flow, EndsAgree, [SwitchNext]_networkVars
             PROVE  EndsAgree'
    OBVIOUS
<1>1. CASE NetworkStep
    BY <1>1, NodeEnds, ConnectedEnds, SwitchEnds DEF NetworkStep, NodeStep
<1>2. CASE \E n \in Nodes : Program(n) \/ Handled(n) \/ Crash(n)
    BY <1>2, NodeEnds DEF Program
<1>3. CASE \E n \in Nodes : \E d \in Addresses : Send(n, d) \/ Reply(n, d)
    BY <1>3, SendingEnds
<1>4. CASE UNCHANGED networkVars
    <2>1. UNCHANGED <<client, life, phase, handler, sent, server>>
        BY <1>4 DEF networkVars, switchVars, nodeVars, historyVars
    <2> QED
        BY <2>1, EndsFrame
<1> QED
    BY <1>1, <1>2, <1>3, <1>4 DEF SwitchNext

LEMMA ListenersStay == TypeInv /\ Names /\ EndsAgree => ListenerStays
<1> SUFFICES ASSUME TypeInv, Names, EndsAgree, NEW c \in Conns,
                    client[c] \in {"open", "dropped"}, sent[c] = <<>>
             PROVE  /\ server[c] = "open"
                    /\ c \in named => nodes[Owner(c)] = Number(c)
    BY DEF ListenerStays
<1>1. server[c] = "open" /\ client[c] = "open" /\ handler[c] # "ended"
    BY DEF EndsAgree
<1>2. Owner(c) \in Nodes /\ c = Current(Owner(c)) /\ Number(c) = life[Owner(c)]
    BY <1>1, ConnParts DEF EndsAgree, Current
<1> QED
    BY <1>1, <1>2 DEF Names, Directory

-------------------------------------------------------------------------------
(* The message a node handles was sent to it.                              *)

InboxSent ==
    \A n \in Nodes : phase[n] = "handling" =>
        /\ inbox[n] \in Messages
        /\ inbox[n].num \in 1..Len(sent[inbox[n].from])
        /\ sent[inbox[n].from][inbox[n].num] = n

LEMMA InitInbox == SwitchInit => InboxSent
BY DEF SwitchInit, InboxSent

LEMMA InboxFrame ==
    ASSUME InboxSent, UNCHANGED sent,
           \A m \in Nodes : phase'[m] = "handling" =>
                phase[m] = "handling" /\ inbox'[m] = inbox[m]
    PROVE  InboxSent'
BY DEF InboxSent

LEMMA NodeInbox ==
    ASSUME TypeInv, InboxSent, NEW n \in Nodes,
           Run(n) \/ Connected(n) \/ ConnectFails(n) \/ Replied(n) \/ Handled(n)
               \/ ReadEnds(n) \/ Dropped(n) \/ Stop(n) \/ Disconnect(n) \/ Crash(n)
    PROVE  InboxSent'
<1>1. UNCHANGED sent
    BY DEF Run, Connected, ConnectFails, Replied, Handled, ReadEnds, Dropped, Stop,
           Disconnect, Crash, historyVars
<1>2. /\ phase \in [Nodes -> {"idle", "connecting", "reading", "handling", "draining"}]
      /\ inbox \in [Nodes -> Messages \cup {NoMessage}]
    BY DEF TypeInv, NetworkTypeOK
<1>3. \A m \in Nodes : phase'[m] = "handling" =>
            phase[m] = "handling" /\ inbox'[m] = inbox[m]
    <2>1. CASE Leave(n)
        BY <1>2, <2>1 DEF Leave
    <2>2. CASE Handled(n)
        BY <1>2, <2>2 DEF Handled
    <2>3. CASE Run(n) \/ Connected(n) \/ ConnectFails(n) \/ Replied(n)
        BY <1>2, <2>3 DEF Run, Connected, ConnectFails, Replied
    <2>4. CASE Dropped(n) \/ Stop(n) \/ Disconnect(n)
        BY <2>4 DEF Dropped, Stop, Disconnect
    <2> QED
        BY <2>1, <2>2, <2>3, <2>4 DEF ReadEnds, Crash
<1> QED
    BY <1>1, <1>3, InboxFrame

LEMMA ReceiveInbox ==
    ASSUME TypeInv, Flow, InboxSent, NEW n \in Nodes, Receive(n)
    PROVE  InboxSent'
<1> DEFINE z == Current(n)
           m == Head(down[z])
<1>1. /\ z \in Conns /\ Owner(z) = n /\ 1 \in 1..Len(down[z]) /\ m = down[z][1]
      /\ m \in Messages /\ UNCHANGED sent
    BY ReceiveFacts
<1>2. /\ phase \in [Nodes -> {"idle", "connecting", "reading", "handling", "draining"}]
      /\ inbox \in [Nodes -> Messages \cup {NoMessage}]
    BY DEF TypeInv, NetworkTypeOK
<1>3. CASE Leave(n)
    <2>1. \A p \in Nodes : phase'[p] = "handling" =>
            phase[p] = "handling" /\ inbox'[p] = inbox[p]
        BY <1>2, <1>3 DEF Leave
    <2> QED
        BY <1>1, <2>1, InboxFrame
<1>4. CASE ~Leave(n)
    <2>1. inbox' = [inbox EXCEPT ![n] = m] /\ phase' = [phase EXCEPT ![n] = "handling"]
        BY <1>4 DEF Receive
    <2> HIDE DEF z, m
    <2>2. /\ inbox'[n] = m
          /\ \A p \in Nodes : p # n => inbox'[p] = inbox[p] /\ phase'[p] = phase[p]
        BY <1>2, <2>1
    <2>3. m.num \in 1..Len(sent[m.from]) /\ sent[m.from][m.num] = n
        BY <1>1 DEF Flow, DownSent
    <2> QED
        BY <1>1, <2>2, <2>3 DEF InboxSent
<1> QED
    BY <1>3, <1>4

LEMMA SendingInbox ==
    ASSUME TypeInv, InboxSent, NEW n \in Nodes, NEW d \in Addresses,
           Send(n, d) \/ Reply(n, d)
    PROVE  InboxSent'
<1> DEFINE z == Current(n)
<1>1. z \in Conns /\ Sending(n, d)
    BY SendingTypes DEF Send, Reply
<1>2. /\ sent[z] \in Seq(Addresses) /\ sent'[z] = Append(sent[z], d)
      /\ \A c \in Conns : c # z => sent'[c] = sent[c]
    BY <1>1 DEF Sending, TypeInv, NetworkTypeOK
<1> HIDE DEF z
<1>3. PICK l \in Nat : Len(sent[z]) = l
    BY <1>2, SeqFacts
<1>4. Len(sent'[z]) = l + 1 /\ \A i \in 1..l : sent'[z][i] = sent[z][i]
    BY <1>2, <1>3, SeqFacts
<1>5. ASSUME NEW c \in Conns, NEW i \in 1..Len(sent[c])
      PROVE  i \in 1..Len(sent'[c]) /\ sent'[c][i] = sent[c][i]
    <2>1. CASE c = z
        BY <1>3, <1>4, <1>5, <2>1
    <2>2. CASE c # z
        BY <1>2, <1>5, <2>2
    <2> QED
        BY <2>1, <2>2
<1>6. \A p \in Nodes : phase'[p] = "handling" =>
            phase[p] = "handling" /\ inbox'[p] = inbox[p]
    <2>1. /\ phase \in [Nodes -> {"idle", "connecting", "reading", "handling", "draining"}]
          /\ inbox \in [Nodes -> Messages \cup {NoMessage}]
        BY DEF TypeInv, NetworkTypeOK
    <2>2. CASE Send(n, d)
        BY <2>2 DEF Send, nodeVars
    <2>3. CASE Reply(n, d)
        BY <2>1, <2>3 DEF Reply
    <2> QED
        BY <2>2, <2>3
<1>7. \A m \in Messages : m.from \in Conns
    BY FlowTypes
<1> QED
    BY <1>5, <1>6, <1>7 DEF InboxSent

LEMMA NextInbox ==
    TypeInv /\ Flow /\ InboxSent /\ [SwitchNext]_networkVars => InboxSent'
<1> SUFFICES ASSUME TypeInv, Flow, InboxSent, [SwitchNext]_networkVars
             PROVE  InboxSent'
    OBVIOUS
<1>1. ASSUME NEW c \in Conns, SwitchStep(c) PROVE InboxSent'
    <2>1. UNCHANGED <<sent, phase, inbox>>
        BY <1>1 DEF SwitchStep, HandleRegister, Drop, Forward, Drained, ForwardFails,
                    DrainFails, LoopEnds, Closed, HandlerReturns, nodeVars, historyVars
    <2> QED
        BY <2>1, InboxFrame
<1>2. CASE NetworkStep
    BY <1>1, <1>2, NodeInbox, ReceiveInbox DEF NetworkStep, NodeStep
<1>3. CASE \E n \in Nodes : Program(n) \/ Handled(n) \/ Crash(n)
    BY <1>3, NodeInbox DEF Program
<1>4. CASE \E n \in Nodes : \E d \in Addresses : Send(n, d) \/ Reply(n, d)
    BY <1>4, SendingInbox
<1>5. CASE UNCHANGED networkVars
    <2>1. UNCHANGED <<sent, phase, inbox>>
        BY <1>5 DEF networkVars, nodeVars, historyVars
    <2> QED
        BY <2>1, InboxFrame
<1> QED
    BY <1>2, <1>3, <1>4, <1>5 DEF SwitchNext

-------------------------------------------------------------------------------
(* Open ends: a node whose connection is open has its websocket, the       *)
(* switch keeps its own end while the handler runs, and a handler that     *)
(* drains has sent a datagram of its connection.                           *)

WebsocketOpen == \A n \in Nodes : client[Current(n)] = "open" /\ life[n] # 0 => websocket[n]

HandlerOpen ==
    \A c \in Conns :
        /\ client[c] = "open" /\ handler[c] # "ended" => server[c] = "open"
        /\ client[c] = "none" => handler[c] = "none"

DrainsSent ==
    \A c \in Conns : handler[c] = "draining" =>
        \E k \in 1..Len(sent[c]) : sent[c][k] = Owner(target[c])

EndsOpen == WebsocketOpen /\ HandlerOpen /\ DrainsSent

LEMMA InitOpen == SwitchInit => EndsOpen
<1> SUFFICES ASSUME SwitchInit PROVE EndsOpen
    OBVIOUS
<1>1. /\ \A n \in Nodes : life[n] = 0
      /\ \A c \in Conns : client[c] = "none" /\ handler[c] = "none"
    BY DEF SwitchInit
<1> QED
    BY <1>1 DEF EndsOpen, WebsocketOpen, HandlerOpen, DrainsSent

(* Steps that open no end, and change nothing of the switch's.             *)
LEMMA NodeOpen ==
    ASSUME TypeInv, Fresh, EndsAgree, EndsOpen, NEW n \in Nodes,
           Run(n) \/ ConnectFails(n) \/ Replied(n) \/ Handled(n) \/ Receive(n)
               \/ ReadEnds(n) \/ Dropped(n) \/ Stop(n) \/ Disconnect(n) \/ Crash(n)
    PROVE  EndsOpen'
<1>t. /\ phase \in [Nodes -> {"idle", "connecting", "reading", "handling", "draining"}]
      /\ client \in [Conns -> {"none", "open", "left", "dropped"}]
      /\ life \in [Nodes -> 0..MaxLife] /\ websocket \in [Nodes -> BOOLEAN]
    BY DEF TypeInv, NetworkTypeOK
<1>1. UNCHANGED <<handler, server, sent, target>>
    BY DEF Run, ConnectFails, Replied, Handled, Receive, ReadEnds, Dropped, Stop,
           Disconnect, Crash, switchVars, historyVars
<1>2. \A c \in Conns : client'[c] = client[c] \/ client'[c] \in {"left", "dropped"}
    <2>1. CASE Run(n) \/ ConnectFails(n) \/ Replied(n) \/ Handled(n) \/ Stop(n)
        BY <2>1 DEF Run, ConnectFails, Replied, Handled, Stop
    <2>2. CASE Dropped(n) \/ Disconnect(n)
        BY <1>t, <2>2 DEF Dropped, Disconnect
    <2>3. CASE Leave(n)
        BY <1>t, <2>3 DEF Leave
    <2>4. CASE Receive(n) /\ ~Leave(n)
        BY <2>4 DEF Receive
    <2> QED
        BY <2>1, <2>2, <2>3, <2>4 DEF ReadEnds, Crash
<1>3. HandlerOpen'
    BY <1>1, <1>2 DEF EndsOpen, HandlerOpen
<1>4. DrainsSent'
    BY <1>1 DEF EndsOpen, DrainsSent
<1>5. WebsocketOpen'
    <2> SUFFICES ASSUME NEW m \in Nodes, client'[Current(m)'] = "open", life'[m] # 0
                 PROVE  websocket'[m]
        BY DEF WebsocketOpen
    <2> DEFINE c == <<m, life'[m]>>
    <2>1. c \in Conns /\ Owner(c) = m /\ Number(c) = life'[m] /\ Current(m)' = c
        <3>1. life'[m] \in 0..MaxLife
            BY NodeTypes, ReceiveTypes DEF TypeInv, NetworkTypeOK
        <3>2. life'[m] \in 1..MaxLife
            BY <3>1, SwitchNodeAssumption
        <3> QED
            BY <3>2, ConnParts DEF Current
    <2> HIDE DEF c
    <2>2. client[c] = "open"
        BY <1>2, <2>1
    <2>3. life'[m] = life[m] /\ c = Current(m) /\ life[m] # 0 /\ websocket[m]
        <3>1. Number(c) = life[m]
            BY <2>1, <2>2 DEF EndsAgree
        <3>2. life'[m] = life[m]
            BY <2>1, <3>1
        <3> QED
            BY <2>1, <2>2, <3>2 DEF c, Current, EndsOpen, WebsocketOpen
    <2>4. ~(m = n /\ (Leave(n) \/ Disconnect(n)))
        <3>1. m = n /\ Leave(n) => client'[c] = "left"
            BY <1>t, <2>1, <2>2, <2>3 DEF Leave
        <3>2. m = n /\ Disconnect(n) => client'[c] = "left"
            BY <1>t, <2>1, <2>2, <2>3 DEF Disconnect
        <3> QED
            BY <2>1, <3>1, <3>2
    <2>5. websocket'[m] = websocket[m]
        <3>1. CASE Run(n) \/ ConnectFails(n) \/ Replied(n) \/ Handled(n) \/ Stop(n)
                     \/ Dropped(n)
            BY <3>1 DEF Run, ConnectFails, Replied, Handled, Stop, Dropped
        <3>2. CASE Disconnect(n) \/ Leave(n)
            BY <1>t, <2>4, <3>2 DEF Disconnect, Leave
        <3>3. CASE Receive(n) /\ ~Leave(n)
            BY <3>3 DEF Receive
        <3> QED
            BY <3>1, <3>2, <3>3 DEF ReadEnds, Crash
    <2> QED
        BY <2>3, <2>5
<1> QED
    BY <1>3, <1>4, <1>5 DEF EndsOpen

LEMMA ConnectedOpen ==
    ASSUME TypeInv, Fresh, EndsAgree, EndsOpen, NEW n \in Nodes, Connected(n)
    PROVE  EndsOpen'
<1> DEFINE z == Current(n)
<1>1. z \in Conns /\ Owner(z) = n /\ Number(z) = life[n] /\ \A m \in Nodes : m # n => Current(m) # z
    BY CurrentConn DEF Connected, TypeInv, HasRun, Current
<1>2. /\ UNCHANGED <<life, sent, target>> /\ \A m \in Nodes : Current(m)' = Current(m)
      /\ websocket' = [websocket EXCEPT ![n] = TRUE]
      /\ client' = [client EXCEPT ![z] = "open"]
      /\ server' = [server EXCEPT ![z] = "open"]
      /\ handler' = [handler EXCEPT ![z] = "reading"]
    BY DEF Connected, historyVars, Current
<1>3. /\ websocket \in [Nodes -> BOOLEAN]
      /\ client \in [Conns -> {"none", "open", "left", "dropped"}]
      /\ server \in [Conns -> {"none", "open", "closed"}]
      /\ handler \in [Conns -> {"none", "reading", "draining", "ended"}]
    BY DEF TypeInv, NetworkTypeOK
<1> HIDE DEF z
<1>4. /\ client'[z] = "open" /\ server'[z] = "open" /\ handler'[z] = "reading"
      /\ websocket'[n] /\ \A m \in Nodes : m # n => websocket'[m] = websocket[m]
      /\ \A c \in Conns : c # z => /\ client'[c] = client[c] /\ server'[c] = server[c]
                                   /\ handler'[c] = handler[c]
    BY <1>1, <1>2, <1>3
<1>5. WebsocketOpen'
    <2> SUFFICES ASSUME NEW m \in Nodes, client'[Current(m)] = "open", life[m] # 0, m # n
                 PROVE  websocket[m]
        BY <1>2, <1>4 DEF WebsocketOpen
    <2>1. Current(m) \in Conns /\ Current(m) # z
        BY <1>1, CurrentConn
    <2> QED
        BY <1>4, <2>1 DEF EndsOpen, WebsocketOpen
<1>6. HandlerOpen'
    BY <1>4 DEF EndsOpen, HandlerOpen
<1>7. DrainsSent'
    BY <1>2, <1>4 DEF EndsOpen, DrainsSent
<1> QED
    BY <1>5, <1>6, <1>7 DEF EndsOpen

LEMMA SendingOpen ==
    ASSUME TypeInv, EndsOpen, NEW n \in Nodes, NEW d \in Addresses,
           Send(n, d) \/ Reply(n, d)
    PROVE  EndsOpen'
<1> DEFINE z == Current(n)
<1>1. z \in Conns /\ Sending(n, d)
    BY SendingTypes DEF Send, Reply
<1>2. /\ sent[z] \in Seq(Addresses) /\ sent'[z] = Append(sent[z], d)
      /\ \A c \in Conns : c # z => sent'[c] = sent[c]
    BY <1>1 DEF Sending, TypeInv, NetworkTypeOK
<1>3. /\ UNCHANGED <<client, life, handler, server, target, websocket>>
      /\ \A m \in Nodes : Current(m)' = Current(m)
    BY DEF Send, Reply, switchVars, nodeVars, Current
<1> HIDE DEF z
<1>4. Len(sent[z]) \in Nat /\ Len(sent'[z]) = Len(sent[z]) + 1
      /\ \A i \in 1..Len(sent[z]) : sent'[z][i] = sent[z][i]
    BY <1>2, SeqFacts
<1>5. \A c \in Conns : \A i \in 1..Len(sent[c]) :
        i \in 1..Len(sent'[c]) /\ sent'[c][i] = sent[c][i]
    <2>1. \A i \in 1..Len(sent[z]) : i \in 1..Len(sent'[z])
        BY <1>4
    <2> QED
        BY <1>2, <1>4, <2>1
<1>6. DrainsSent'
    BY <1>3, <1>5 DEF EndsOpen, DrainsSent
<1>7. WebsocketOpen' /\ HandlerOpen'
    BY <1>3 DEF EndsOpen, WebsocketOpen, HandlerOpen
<1> QED
    BY <1>6, <1>7 DEF EndsOpen

(* A datagram that a handler forwards is one of its connection.            *)
LEMMA ForwardedSent ==
    ASSUME TypeInv, Fresh, Flow, NEW c \in Conns, Reading(c), Unread(c).num # 0
    PROVE  /\ Unread(c) = up[c][1] /\ 1 \in 1..Len(up[c]) /\ Unread(c).from = c
           /\ Unread(c).num \in 1..Len(sent[c])
           /\ Destination(Unread(c)) = sent[c][Unread(c).num]
           /\ Known(c) => Route(c) \in Conns /\ Owner(Route(c)) = sent[c][Unread(c).num]
<1>1. up[c] \in Seq(Messages) /\ up[c] # <<>>
    BY FlowTypes DEF Reading
<1>2. 1 \in 1..Len(up[c]) /\ Unread(c) = up[c][1] /\ Unread(c) \in Messages
    BY <1>1 DEF Unread
<1>3. Unread(c).from = c /\ Unread(c).num <= Len(sent[c]) /\ Unread(c).num \in Nat
    BY <1>2, FlowTypes DEF Flow, UpOrdered
<1>4. Len(sent[c]) \in Nat
    BY FlowTypes
<1>5. Unread(c).num \in 1..Len(sent[c])
    BY <1>3, <1>4
<1>6. Known(c) => Route(c) \in Conns /\ Owner(Route(c)) = Destination(Unread(c))
    <2> SUFFICES ASSUME Known(c)
                 PROVE  Route(c) \in Conns /\ Owner(Route(c)) = Destination(Unread(c))
        OBVIOUS
    <2>1. nodes[Destination(Unread(c))] \in 1..MaxLife /\ Destination(Unread(c)) \in Nodes
        BY SwitchNodeAssumption DEF Known, TypeInv, NetworkTypeOK
    <2> QED
        BY <2>1, ConnParts DEF Route
<1> QED
    BY <1>2, <1>3, <1>5, <1>6 DEF Destination

LEMMA SwitchOpen ==
    ASSUME TypeInv, Fresh, Flow, EndsOpen, NEW c \in Conns, SwitchStep(c)
    PROVE  EndsOpen'
<1>t. /\ server \in [Conns -> {"none", "open", "closed"}]
      /\ handler \in [Conns -> {"none", "reading", "draining", "ended"}]
      /\ target \in [Conns -> Conns]
    BY DEF TypeInv, NetworkTypeOK
<1>1. UNCHANGED <<client, life, websocket, sent>> /\ \A m \in Nodes : Current(m)' = Current(m)
    BY DEF SwitchStep, HandleRegister, Drop, Forward, Drained, ForwardFails, DrainFails,
           LoopEnds, Closed, HandlerReturns, nodeVars, historyVars, Current
<1>2. WebsocketOpen'
    BY <1>1 DEF EndsOpen, WebsocketOpen
<1>3. CASE HandleRegister(c) \/ Drop(c)
    <2>1. UNCHANGED <<handler, server, target>>
        BY <1>3 DEF HandleRegister, Drop, switchVars
    <2> QED
        BY <1>1, <1>2, <2>1 DEF EndsOpen, HandlerOpen, DrainsSent
<1>4. CASE HandlerReturns(c) /\ handler[c] # "none"
    <2>1. /\ handler'[c] = "ended"
          /\ \A t \in Conns : t # c => /\ server'[t] = server[t] /\ handler'[t] = handler[t]
                                       /\ target'[t] = target[t]
        BY <1>t, <1>4 DEF HandlerReturns
    <2>2. HandlerOpen'
        BY <1>1, <1>4, <2>1 DEF EndsOpen, HandlerOpen
    <2>3. DrainsSent'
        BY <1>1, <2>1 DEF EndsOpen, DrainsSent
    <2> QED
        BY <1>2, <2>2, <2>3 DEF EndsOpen
<1>5. CASE Forward(c)
    <2>1. /\ server' = server /\ handler[c] = "reading"
          /\ \/ /\ handler' = [handler EXCEPT ![c] = "draining"]
                /\ target' = [target EXCEPT ![c] = Route(c)]
             \/ UNCHANGED <<handler, target>>
        BY <1>5 DEF Forward, Reading
    <2>2. /\ Unread(c).num \in 1..Len(sent[c])
          /\ Route(c) \in Conns /\ Owner(Route(c)) = sent[c][Unread(c).num]
        BY <1>5, ForwardedSent DEF Forward
    <2>3. /\ \A t \in Conns : t # c => handler'[t] = handler[t] /\ target'[t] = target[t]
          /\ handler'[c] \in {"reading", "draining"}
          /\ handler'[c] = "draining" => target'[c] = Route(c)
        BY <1>t, <2>1
    <2>4. HandlerOpen'
        BY <1>1, <2>1, <2>3 DEF EndsOpen, HandlerOpen
    <2>5. DrainsSent'
        BY <1>1, <2>2, <2>3 DEF EndsOpen, DrainsSent
    <2> QED
        BY <1>2, <2>4, <2>5 DEF EndsOpen
<1>6. CASE Drained(c)
    <2>1. /\ server' = server /\ handler'[c] = "reading" /\ handler[c] = "draining"
          /\ \A t \in Conns : t # c => handler'[t] = handler[t] /\ target'[t] = target[t]
        BY <1>t, <1>6 DEF Drained
    <2>2. HandlerOpen'
        BY <1>1, <2>1 DEF EndsOpen, HandlerOpen
    <2>3. DrainsSent'
        BY <1>1, <2>1 DEF EndsOpen, DrainsSent
    <2> QED
        BY <1>2, <2>2, <2>3 DEF EndsOpen
<1>7. CASE Closed(c)
    <2>1. /\ UNCHANGED <<handler, target>> /\ client[c] = "left"
          /\ \A t \in Conns : t # c => server'[t] = server[t]
        BY <1>t, <1>7 DEF Closed
    <2>2. HandlerOpen'
        BY <1>1, <2>1 DEF EndsOpen, HandlerOpen
    <2>3. DrainsSent'
        BY <1>1, <2>1 DEF EndsOpen, DrainsSent
    <2> QED
        BY <1>2, <2>2, <2>3 DEF EndsOpen
<1>8. ForwardFails(c) \/ DrainFails(c) \/ LoopEnds(c) =>
        HandlerReturns(c) /\ handler[c] # "none"
    BY DEF ForwardFails, DrainFails, LoopEnds, Reading
<1> QED
    BY <1>3, <1>4, <1>5, <1>6, <1>7, <1>8 DEF SwitchStep

LEMMA NextOpen ==
    TypeInv /\ Fresh /\ Flow /\ EndsAgree /\ EndsOpen /\ [SwitchNext]_networkVars => EndsOpen'
<1> SUFFICES ASSUME TypeInv, Fresh, Flow, EndsAgree, EndsOpen, [SwitchNext]_networkVars
             PROVE  EndsOpen'
    OBVIOUS
<1>1. CASE NetworkStep
    BY <1>1, NodeOpen, ConnectedOpen, SwitchOpen DEF NetworkStep, NodeStep
<1>2. CASE \E n \in Nodes : Program(n) \/ Handled(n) \/ Crash(n)
    BY <1>2, NodeOpen DEF Program
<1>3. CASE \E n \in Nodes : \E d \in Addresses : Send(n, d) \/ Reply(n, d)
    BY <1>3, SendingOpen
<1>4. CASE UNCHANGED networkVars
    <2>1. UNCHANGED <<client, life, websocket, handler, sent, server, target>>
          /\ \A m \in Nodes : Current(m)' = Current(m)
        BY <1>4 DEF networkVars, switchVars, nodeVars, historyVars, Current
    <2> QED
        BY <2>1 DEF EndsOpen, WebsocketOpen, HandlerOpen, DrainsSent
<1> QED
    BY <1>1, <1>2, <1>3, <1>4 DEF SwitchNext

-------------------------------------------------------------------------------
(* The specification.                                                      *)

(* Every variable of switch and nodes keeps its type, for any number of    *)
(* nodes, runs and datagrams.                                              *)
THEOREM NetworkTypes == SwitchSpec => []NetworkTypeOK
<1>1. TypeInv => NetworkTypeOK
    BY DEF TypeInv
<1> QED
    BY <1>1, InitTypes, NextTypes, PTL DEF SwitchSpec

NetworkInv == TypeInv /\ Fresh /\ Flow /\ Names /\ EndsAgree /\ InboxSent /\ EndsOpen

LEMMA InitNetwork == SwitchInit => NetworkInv
BY InitTypes, InitFresh, InitFlow, InitNames, InitEnds, InitInbox, InitOpen DEF NetworkInv

LEMMA NextNetwork == NetworkInv /\ [SwitchNext]_networkVars => NetworkInv'
BY NextTypes, NextFresh, NextFlow, NextNames, NextEnds, NextInbox, NextOpen DEF NetworkInv

LEMMA NetworkInvariant == SwitchSpec => []NetworkInv
BY InitNetwork, NextNetwork, PTL DEF SwitchSpec

(* The table is right however often nodes come back and however late their *)
(* old handlers end: switch.py:28 and 42-44, and node.py.                  *)
THEOREM TableRight == SwitchSpec => []Directory
<1>1. NetworkInv => Directory
    BY DEF NetworkInv, Names
<1> QED
    BY <1>1, NetworkInvariant, PTL

(* A node that only listens is not disconnected by what becomes of those   *)
(* that send to it: switch.py:34-44.                                       *)
THEOREM ListenersKeepTheirPlace == SwitchSpec => []ListenerStays
<1>1. NetworkInv => ListenerStays
    BY ListenersStay DEF NetworkInv
<1> QED
    BY <1>1, NetworkInvariant, PTL

(* Switch and nodes implement the datagram service: what a node is handed  *)
(* was sent to it, and comes once and in the order in which it was sent.   *)
THEOREM SwitchImplementsDatagrams == SwitchSpec => DatagramSpec
<1>1. SwitchInit => Service!Init
    BY DEF SwitchInit, Service!Init
<1>2. NetworkInv /\ [SwitchNext]_networkVars => [Service!Next]_(Service!datagramVars)
    BY StepService DEF NetworkInv
<1> QED
    BY <1>1, <1>2, NetworkInvariant, PTL DEF SwitchSpec, DatagramSpec, Service!Spec
===============================================================================

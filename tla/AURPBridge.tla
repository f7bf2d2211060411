------------------------------ MODULE AURPBridge ------------------------------
(***************************************************************************)
(* The AURP bridge service (retro_net/services/aurp.py): bridges replace   *)
(* the send_datagram of their node by a hook, hand what passes it to their *)
(* peers over UDP, and inject what comes from there into their node.       *)
(*                                                                         *)
(* A call of send_datagram runs through all hooks to the node's own method *)
(* without suspending, so it is one step.  Bridges start and stop in any   *)
(* order, may be started again while they are started (on port 0; on a     *)
(* port of their own the second start fails and changes nothing), and be   *)
(* each other's peers.                                                     *)
(***************************************************************************)
EXTENDS Naturals, Sequences, FiniteSets

CONSTANTS
    Nodes,
    Bridges,
    At,         \* the node of a bridge
    Peers,      \* the bridges added to a bridge with add_peer
    Own,        \* send_datagram as class Node defines it
    Nothing,    \* None
    Depth,      \* how often a call that runs in a loop of hooks passes each of
                \* them before Python's recursion limit ends it
    MaxStarts,  \* bound: starts of each bridge
    MaxSends,   \* bound: datagrams the program of each node sends
    MaxCalls,   \* bound: at a node with so many calls nothing more is injected
    MaxLost,    \* bound: with so many packets lost, no other is that finds a socket
    MaxCopies   \* bound: copies UDP makes of packets

ASSUME AURPAssumption ==
    /\ At \in [Bridges -> Nodes] /\ Peers \in [Bridges -> SUBSET Bridges]
    /\ Own \notin Bridges /\ Nothing \notin Bridges /\ Own # Nothing
    /\ Depth \in Nat
    /\ MaxStarts \in [Bridges -> Nat] /\ MaxSends \in [Nodes -> Nat]
    /\ MaxCalls \in [Nodes -> Nat] /\ MaxLost \in Nat /\ MaxCopies \in Nat

VARIABLES
    hook,       \* node.send_datagram: Own, or b for b._outbound_hook
    saved,      \* _original_send_datagram of a bridge
    transport,  \* has a bridge a transport?
    opening,    \* calls of start that await their endpoint, with the socket bound
    leaked,     \* is a socket of a bridge open that no transport of it names?
    tunnel,     \* UDP packets under way
    tasks,      \* injections that datagram_received has created at a node
    starts,     \* starts so far
    sends,      \* datagrams sent by programs so far
    orderly,    \* history: were the bridges of a node started only while stopped,
                \* and each stopped before those it was started after?
    dropped,    \* history: packets that were lost
    copies,     \* history: packets that are copies of another
    called,     \* history: calls of send_datagram at a node
    out,        \* history: those that reached the node's own method
    due,        \* history: number of AppleTalk calls while a bridge was started
    carried     \* history: number of datagrams it has sent to its peers

hookVars == <<hook, saved, transport, opening, leaked, starts, orderly>>
callVars == <<sends, called, out, due, carried>>
vars == <<hookVars, callVars, tunnel, tasks, dropped, copies>>

Protocols == {"appletalk", "osi"}

(* The k-th datagram that bridge b sends to p, and a call of send_datagram *)
(* by the program or, via a packet, by an injection.                       *)
Packet(b, k, p) == [from |-> b, num |-> k, to |-> p, copy |-> 0]
Call(protocol, via) == [protocol |-> protocol, via |-> via]

Init ==
    /\ hook = [n \in Nodes |-> Own]
    /\ saved = [b \in Bridges |-> Nothing]
    /\ transport = [b \in Bridges |-> FALSE] /\ opening = [b \in Bridges |-> 0]
    /\ leaked = [b \in Bridges |-> FALSE]
    /\ tunnel = {} /\ dropped = {} /\ copies = {}
    /\ tasks = [n \in Nodes |-> <<>>]
    /\ starts = [b \in Bridges |-> 0] /\ sends = [n \in Nodes |-> 0]
    /\ orderly = [n \in Nodes |-> TRUE]
    /\ called = [n \in Nodes |-> <<>>] /\ out = [n \in Nodes |-> <<>>]
    /\ due = [b \in Bridges |-> 0] /\ carried = [b \in Bridges |-> 0]

-------------------------------------------------------------------------------
(* The hooks that a call of method h passes: h, and what each bridge that  *)
(* is passed has saved.  The call ends with Own or, lost, with Nothing; in *)
(* a loop it ends nowhere and raises.                                      *)
HooksOf(h, passed) == {h} \cup {saved[b] : b \in passed}
Chain(h) ==
    LET closed == {passed \in SUBSET Bridges : HooksOf(h, passed) \cap Bridges \subseteq passed}
    IN  HooksOf(h, {b \in Bridges : \A passed \in closed : b \in passed})

Running(b) == transport[b]

(* How often a call at the node of b passes the hook of b.                 *)
Loops(b) == b \in Chain(saved[b])
Passes(b) ==
    IF b \notin Chain(hook[At[b]]) THEN 0 ELSE IF Loops(b) THEN Depth ELSE 1

(* _outbound_hook and send_aurp_packet, which does nothing without         *)
(* transport, at each pass.                                                *)
SendDatagram(n, call) ==
    LET bridges == {b \in Bridges :
                      At[b] = n /\ Running(b) /\ call.protocol = "appletalk"}
    IN  /\ called' = [called EXCEPT ![n] = Append(@, call)]
        /\ out' = IF Own \in Chain(hook[n]) THEN [out EXCEPT ![n] = Append(@, call)] ELSE out
        /\ due' = [b \in Bridges |-> IF b \in bridges THEN due[b] + 1 ELSE due[b]]
        /\ carried' = [b \in Bridges |->
                        IF b \in bridges THEN carried[b] + Passes(b) ELSE carried[b]]

Sent == UNION {{Packet(b, k, p) : k \in (carried[b] + 1)..carried'[b], p \in Peers[b]} :
                  b \in Bridges}

(* The program of a node sends.                                            *)
Send(n) ==
    /\ sends[n] < MaxSends[n]
    /\ \E protocol \in Protocols : SendDatagram(n, Call(protocol, {}))
    /\ tunnel' = tunnel \cup Sent
    /\ sends' = [sends EXCEPT ![n] = @ + 1]
    /\ UNCHANGED <<hookVars, tasks, dropped, copies>>

-------------------------------------------------------------------------------
(* start, up to the await of the endpoint, and from there.                 *)
Start(b) ==
    /\ starts[b] < MaxStarts[b]
    /\ opening' = [opening EXCEPT ![b] = @ + 1]
    /\ starts' = [starts EXCEPT ![b] = @ + 1]
    /\ UNCHANGED <<hook, saved, transport, leaked, orderly>>
    /\ UNCHANGED <<callVars, tunnel, tasks, dropped, copies>>

Started(b) ==
    /\ opening[b] > 0
    /\ opening' = [opening EXCEPT ![b] = @ - 1]
    /\ transport' = [transport EXCEPT ![b] = TRUE]
    /\ leaked' = [leaked EXCEPT ![b] = @ \/ Running(b)]
    /\ saved' = [saved EXCEPT ![b] = hook[At[b]]]
    /\ hook' = [hook EXCEPT ![At[b]] = b]
    /\ orderly' = [orderly EXCEPT ![At[b]] = @ /\ ~Running(b)]
    /\ UNCHANGED <<starts, callVars, tunnel, tasks, dropped, copies>>

LeftHooked(b) == hook                                     \* mutant of Unhooked
OwnHooked(b) == [hook EXCEPT ![At[b]] = Own]              \* mutant of Unhooked
Unhooked(b) == [hook EXCEPT ![At[b]] = saved[b]]

Kept(b) == saved                                          \* mutant of Cleared
Cleared(b) == [saved EXCEPT ![b] = Nothing]

(* stop, which does nothing before the first start has ended.              *)
Stop(b) ==
    /\ Running(b)
    /\ transport' = [transport EXCEPT ![b] = FALSE]
    /\ hook' = Unhooked(b)
    /\ saved' = Cleared(b)
    /\ orderly' = [orderly EXCEPT ![At[b]] = @ /\ hook[At[b]] = b]
    /\ UNCHANGED <<opening, leaked, starts, callVars, tunnel, tasks, dropped, copies>>

-------------------------------------------------------------------------------
(* datagram_received, which needs no more than a bound socket.             *)
Listens(b) == transport[b] \/ opening[b] > 0 \/ leaked[b]

TaskIfStarted(packet) ==                                  \* mutant of Task
    IF Running(packet.to) THEN [tasks EXCEPT ![At[packet.to]] = Append(@, packet)]
    ELSE tasks
Task(packet) == [tasks EXCEPT ![At[packet.to]] = Append(@, packet)]

Receive(packet) ==
    /\ Listens(packet.to)
    /\ tunnel' = tunnel \ {packet}
    /\ tasks' = Task(packet)
    /\ UNCHANGED <<hookVars, callVars, dropped, copies>>

(* No socket at the peer, or UDP loses the packet.                         *)
Lose(packet) ==
    /\ ~Listens(packet.to) \/ Cardinality(dropped) < MaxLost
    /\ tunnel' = tunnel \ {packet}
    /\ dropped' = dropped \cup {packet}
    /\ UNCHANGED <<hookVars, callVars, tasks, copies>>

(* UDP makes a copy of the packet.                                         *)
Duplicate(packet) ==
    /\ Cardinality(copies) < MaxCopies
    /\ \E c \in 1..MaxCopies :
        LET copy == [packet EXCEPT !.copy = c]
        IN  /\ copy \notin copies
            /\ tunnel' = tunnel \cup {copy} /\ copies' = copies \cup {copy}
    /\ UNCHANGED <<hookVars, callVars, tasks, dropped>>

(* The injection runs whatever has become of the bridge by then.           *)
Inject(n) ==
    /\ tasks[n] # <<>> /\ Len(called[n]) < MaxCalls[n]
    /\ SendDatagram(n, Call("appletalk", {Head(tasks[n])}))
    /\ tunnel' = tunnel \cup Sent
    /\ tasks' = [tasks EXCEPT ![n] = Tail(@)]
    /\ UNCHANGED <<hookVars, sends, dropped, copies>>

-------------------------------------------------------------------------------
Next ==
    \/ \E b \in Bridges : Start(b) \/ Started(b) \/ Stop(b)
    \/ \E n \in Nodes : Send(n) \/ Inject(n)
    \/ \E packet \in tunnel : Receive(packet) \/ Lose(packet) \/ Duplicate(packet)

Spec == Init /\ [][Next]_vars

-------------------------------------------------------------------------------
(* Properties.                                                             *)

Packets == [from : Bridges, num : Nat, to : Bridges, copy : Nat]
Calls == [protocol : Protocols, via : SUBSET Packets]

(* Every variable keeps its type, and a bridge has a saved method exactly  *)
(* while it is started, in whatever order bridges start and stop.          *)
TypeOK ==
    /\ hook \in [Nodes -> Bridges \cup {Own}]
    /\ saved \in [Bridges -> Bridges \cup {Own, Nothing}]
    /\ transport \in [Bridges -> BOOLEAN] /\ opening \in [Bridges -> Nat]
    /\ leaked \in [Bridges -> BOOLEAN] /\ orderly \in [Nodes -> BOOLEAN]
    /\ \A b \in Bridges : saved[b] # Nothing <=> Running(b)
    /\ tunnel \subseteq Packets /\ dropped \subseteq Packets /\ copies \subseteq Packets
    /\ tasks \in [Nodes -> Seq(Packets)]
    /\ starts \in [Bridges -> Nat] /\ sends \in [Nodes -> Nat]
    /\ called \in [Nodes -> Seq(Calls)] /\ out \in [Nodes -> Seq(Calls)]
    /\ due \in [Bridges -> Nat] /\ carried \in [Bridges -> Nat]

(* stop restores the original send_datagram (aurp.py:97): a node whose     *)
(* bridges are all stopped has its own method.                             *)
Restored ==
    \A n \in Nodes : (\A b \in Bridges : At[b] = n => ~Running(b)) => hook[n] = Own

(* At a node where each bridge was started only while stopped and stopped  *)
(* before those it was started after, stop restores: with all bridges      *)
(* stopped the node has its own send_datagram again, and with any started  *)
(* the hook of a started one.                                              *)
RestoredInOrder ==
    \A n \in Nodes : orderly[n] =>
        IF \E b \in Bridges : At[b] = n /\ Running(b)
        THEN hook[n] \in Bridges /\ At[hook[n]] = n /\ Running(hook[n])
        ELSE hook[n] = Own

(* There bridges come and go without the node noticing: every call of      *)
(* send_datagram reaches the node's own method, once and in order, and     *)
(* every AppleTalk call each bridge that is started, once.                 *)
TransparentInOrder ==
    \A n \in Nodes : orderly[n] =>
        /\ out[n] = called[n]
        /\ \A b \in Bridges : At[b] = n => carried[b] = due[b]

(* Every packet a bridge has sent, and every copy UDP has made of one, is  *)
(* in one place: under way, lost, in a task or injected, in whatever order *)
(* bridges start and stop and however packets go round.                    *)
Places(packet) ==
    LET n == At[packet.to]
    IN  {<<"task", k>> : k \in {k \in DOMAIN tasks[n] : tasks[n][k] = packet}}
        \cup {<<"call", k>> : k \in {k \in DOMAIN called[n] : packet \in called[n][k].via}}
        \cup {<<"dropped", 0>> : d \in dropped \cap {packet}}
        \cup {<<"tunnel", 0>> : d \in tunnel \cap {packet}}
OnePlace ==
    /\ \A b \in Bridges : \A k \in 1..carried[b] : \A p \in Peers[b] :
        Cardinality(Places(Packet(b, k, p))) = 1
    /\ \A packet \in copies : Cardinality(Places(packet)) = 1
===============================================================================

--------------------------- MODULE ADSPSessionProofs ---------------------------
(***************************************************************************)
(* Who is connected to whom: for any number of connections opened at both  *)
(* nodes, with any packets late, repeated or lost and with sends that      *)
(* suspend and raise, an opener is bound to a connection accepted for it.  *)
(* Only that one is handed to the accepting program, unless a send raised  *)
(* in the one place that leaves an opener half bound; and open_connection  *)
(* tells the truth, as long as no send raises.  And the life of each       *)
(* connection, whether sends raise or not, as long as none suspends.       *)
(***************************************************************************)
EXTENDS ADSPSession, SequenceTheorems, TLAPS

Packets == [code : Codes, src : Nat, dst : Nat]

ConnTypes == conn \in [Nodes -> Seq(Connections)]
ChanTypes == chan \in [Nodes -> Seq(Packets)] /\ lost \in Nat /\ failed \in Nat

Travels(n, p) == \E k \in 1..Len(chan[n]) : p = chan[n][k]

Flows == ChanTypes' /\ failed' >= failed

-------------------------------------------------------------------------------
(* Sequences, connections, channels.                                       *)

LEMMA SeqFacts ==
    ASSUME NEW T, NEW s \in Seq(T)
    PROVE  /\ Len(s) \in Nat /\ DOMAIN s = 1..Len(s)
           /\ \A i \in 1..Len(s) : s[i] \in T
           /\ s # <<>> => /\ Head(s) = s[1] /\ Head(s) \in T /\ Len(s) >= 1
                          /\ Tail(s) \in Seq(T) /\ Len(Tail(s)) = Len(s) - 1
                          /\ \A i \in 1..Len(Tail(s)) : Tail(s)[i] = s[i + 1]
           /\ \A x \in T : /\ Append(s, x) \in Seq(T) /\ Len(Append(s, x)) = Len(s) + 1
                           /\ Append(s, x)[Len(s) + 1] = x
                           /\ \A i \in 1..Len(s) : Append(s, x)[i] = s[i]
OBVIOUS

LEMMA Peers ==
    /\ \A n \in Nodes : Peer(n) \in Nodes /\ Peer(n) # n /\ Peer(Peer(n)) = n
    /\ \A n, m \in Nodes : m = n \/ m = Peer(n)
BY DEF Nodes, Peer

LEMMA IdsFacts ==
    ASSUME ConnTypes, NEW n \in Nodes
    PROVE  /\ Ids(n) = 1..Len(conn[n]) /\ Len(conn[n]) \in Nat
           /\ \A i \in Ids(n) : conn[n][i] \in Connections /\ i \in Nat /\ i # 0
           /\ Id(n) \in Nat /\ Id(n) # 0 /\ Id(n) \notin Ids(n)
<1>1. conn[n] \in Seq(Connections)
    BY DEF ConnTypes
<1> QED
    BY <1>1, SeqFacts DEF Ids, Id

LEMMA ReplaceFacts ==
    ASSUME ConnTypes, NEW n \in Nodes, NEW i \in Ids(n), NEW c \in Connections,
           Replace(n, i, c)
    PROVE  /\ ConnTypes'
           /\ \A m \in Nodes : Ids(m)' = Ids(m)
           /\ conn'[n][i] = c
           /\ \A m \in Nodes : \A j \in Ids(m) :
                m # n \/ j # i => conn'[m][j] = conn[m][j]
<1>1. conn[n] \in Seq(Connections) /\ Ids(n) = 1..Len(conn[n])
    BY IdsFacts DEF ConnTypes
<1>2. conn' = [conn EXCEPT ![n] = [conn[n] EXCEPT ![i] = c]]
    BY DEF Replace
<1> DEFINE s == [conn[n] EXCEPT ![i] = c]
<1>3. /\ s \in Seq(Connections) /\ DOMAIN s = DOMAIN conn[n]
      /\ s[i] = c /\ \A j \in Ids(n) : j # i => s[j] = conn[n][j]
    BY <1>1 DEF Ids
<1>4. conn'[n] = s /\ \A m \in Nodes : m # n => conn'[m] = conn[m]
    BY <1>2 DEF ConnTypes
<1> HIDE DEF s
<1>5. ConnTypes'
    BY <1>2, <1>3 DEF ConnTypes, s
<1>6. \A m \in Nodes : Ids(m)' = Ids(m)
    BY <1>3, <1>4 DEF Ids
<1> QED
    BY <1>3, <1>4, <1>5, <1>6

Adds(n, c) == conn' = [conn EXCEPT ![n] = Append(@, c)]

LEMMA AppendFacts ==
    ASSUME ConnTypes, NEW n \in Nodes, NEW c \in Connections, Adds(n, c)
    PROVE  /\ ConnTypes'
           /\ Ids(n)' = Ids(n) \cup {Id(n)} /\ Ids(Peer(n))' = Ids(Peer(n))
           /\ conn'[n][Id(n)] = c
           /\ \A m \in Nodes : \A j \in Ids(m) : conn'[m][j] = conn[m][j]
<1>1. conn[n] \in Seq(Connections) /\ Ids(n) = 1..Len(conn[n])
    BY IdsFacts DEF ConnTypes
<1> DEFINE s == Append(conn[n], c)
<1>2. /\ s \in Seq(Connections) /\ Len(s) = Len(conn[n]) + 1
      /\ s[Id(n)] = c /\ \A j \in Ids(n) : s[j] = conn[n][j]
    BY <1>1, SeqFacts DEF Id
<1>3. conn'[n] = s /\ \A m \in Nodes : m # n => conn'[m] = conn[m]
    BY DEF ConnTypes, Adds
<1>4. DOMAIN s = 1..(Len(conn[n]) + 1)
    BY <1>2
<1> HIDE DEF s
<1>5. ConnTypes'
    BY <1>2 DEF ConnTypes, Adds, s
<1>6. Ids(n)' = Ids(n) \cup {Id(n)}
    BY <1>1, <1>3, <1>4, IdsFacts DEF Ids, Id
<1>7. Ids(Peer(n))' = Ids(Peer(n))
    BY <1>3, Peers DEF Ids
<1> QED
    BY <1>2, <1>3, <1>5, <1>6, <1>7

(* A channel after a send, a receipt, or both: what travels did so before, *)
(* or is the packet sent.                                                  *)
LEMMA WaitingFacts ==
    ASSUME ChanTypes, NEW n \in Nodes, Receiving(n)
    PROVE  /\ Waiting(n) \in Packets /\ Travels(Peer(n), Waiting(n))
           /\ Rest(n) \in [Nodes -> Seq(Packets)]
           /\ \A m \in Nodes : \A k \in 1..Len(Rest(n)[m]) : Travels(m, Rest(n)[m][k])
<1>1. Peer(n) \in Nodes /\ chan[Peer(n)] \in Seq(Packets) /\ chan[Peer(n)] # <<>>
    BY Peers DEF ChanTypes, Receiving
<1>2. Waiting(n) \in Packets /\ Travels(Peer(n), Waiting(n))
    BY <1>1, SeqFacts DEF Waiting, Travels
<1>3. Tail(chan[Peer(n)]) \in Seq(Packets)
    BY <1>1, SeqFacts
<1>4. Rest(n) \in [Nodes -> Seq(Packets)]
    BY <1>1, <1>3 DEF Rest, ChanTypes
<1>5. \A m \in Nodes : m # Peer(n) => Rest(n)[m] = chan[m]
    BY DEF Rest, ChanTypes
<1>6. Rest(n)[Peer(n)] = Tail(chan[Peer(n)])
    BY <1>1 DEF Rest, ChanTypes
<1>7. \A k \in 1..Len(Tail(chan[Peer(n)])) : Travels(Peer(n), Tail(chan[Peer(n)])[k])
    BY <1>1, SeqFacts DEF Travels
<1>8. ASSUME NEW m \in Nodes, NEW k \in 1..Len(Rest(n)[m])
      PROVE  Travels(m, Rest(n)[m][k])
    <2>1. CASE m = Peer(n)
        BY <1>6, <1>7, <2>1
    <2>2. CASE m # Peer(n)
        BY <1>5, <2>2 DEF Travels
    <2> QED
        BY <2>1, <2>2
<1> QED
    BY <1>2, <1>4, <1>8

LEMMA SentFacts ==
    ASSUME ChanTypes, NEW n \in Nodes, NEW p \in Packets,
           NEW c \in [Nodes -> Seq(Packets)], Sent(c, n, p), UNCHANGED lost,
           \A m \in Nodes : \A k \in 1..Len(c[m]) : Travels(m, c[m][k])
    PROVE  /\ Flows
           /\ \A m \in Nodes : \A q : Travels(m, q)' => Travels(m, q) \/ (m = n /\ q = p)
<1>1. chan' = c \/ chan' = [c EXCEPT ![n] = Append(@, p)]
    BY DEF Sent, Put
<1>2. Append(c[n], p) \in Seq(Packets)
    BY SeqFacts
<1>3. Flows
    <2>1. chan' \in [Nodes -> Seq(Packets)]
        BY <1>1, <1>2
    <2>2. failed' = failed /\ failed \in Nat
        BY DEF Sent, ChanTypes
    <2> QED
        BY <2>1, <2>2 DEF Flows, ChanTypes
<1>4. CASE chan' = c
    BY <1>3, <1>4 DEF Travels
<1>5. CASE chan' = [c EXCEPT ![n] = Append(@, p)]
    <2>1. chan'[n] = Append(c[n], p) /\ \A m \in Nodes : m # n => chan'[m] = c[m]
        BY <1>5
    <2>2. ASSUME NEW m \in Nodes, NEW q, Travels(m, q)'
          PROVE  Travels(m, q) \/ (m = n /\ q = p)
        <3>1. PICK k \in 1..Len(chan'[m]) : q = chan'[m][k]
            BY <2>2 DEF Travels
        <3>2. CASE m # n
            BY <2>1, <3>1, <3>2
        <3>3. CASE m = n
            <4>1. c[n] \in Seq(Packets) /\ Len(c[n]) \in Nat
                BY SeqFacts
            <4>2. Len(chan'[n]) = Len(c[n]) + 1 /\ chan'[n][Len(c[n]) + 1] = p
                  /\ \A j \in 1..Len(c[n]) : chan'[n][j] = c[n][j]
                BY <2>1, <4>1, SeqFacts
            <4>3. k \in 1..Len(c[n]) \/ k = Len(c[n]) + 1
                BY <3>1, <3>3, <4>1, <4>2
            <4> QED
                BY <3>1, <3>3, <4>2, <4>3
        <3> QED
            BY <3>2, <3>3
    <2> QED
        BY <1>3, <2>2
<1> QED
    BY <1>1, <1>4, <1>5

(* A send that raises sends nothing.                                       *)
LEMMA RaisedFacts ==
    ASSUME ChanTypes, NEW c \in [Nodes -> Seq(Packets)], Raised(c), UNCHANGED lost,
           \A m \in Nodes : \A k \in 1..Len(c[m]) : Travels(m, c[m][k])
    PROVE  /\ Flows /\ failed' # failed /\ failed' # 0
           /\ \A m \in Nodes : \A q : Travels(m, q)' => Travels(m, q)
<1>1. Flows /\ failed' # failed /\ failed' # 0
    BY DEF Flows, ChanTypes, Raised
<1>2. chan' = c
    BY DEF Raised
<1> QED
    BY <1>1, <1>2 DEF Travels

LEMMA RestFacts ==
    ASSUME ChanTypes, NEW n \in Nodes, Receiving(n), chan' = Rest(n),
           UNCHANGED <<lost, failed>>
    PROVE  Flows /\ \A m \in Nodes : \A q : Travels(m, q)' => Travels(m, q)
<1>1. Flows
    BY WaitingFacts DEF Flows, ChanTypes
<1>2. \A m \in Nodes : \A k \in 1..Len(Rest(n)[m]) : Travels(m, Rest(n)[m][k])
    BY WaitingFacts
<1>3. \A m \in Nodes : \A q : Travels(m, q)' => Travels(m, q)
    <2> SUFFICES ASSUME NEW m \in Nodes, NEW q, NEW k \in 1..Len(chan'[m]), q = chan'[m][k]
                 PROVE  Travels(m, q)
        BY DEF Travels
    <2> QED
        BY <1>2
<1> QED
    BY <1>1, <1>3

LEMMA LoseFacts ==
    ASSUME ChanTypes, NEW n \in Nodes, Lose(n)
    PROVE  Flows /\ \A m \in Nodes : \A q : Travels(m, q)' => Travels(m, q)
<1> DEFINE s == chan[n]
<1>1. s \in Seq(Packets)
    BY DEF ChanTypes
<1>2. PICK i \in 1..Len(s) :
        chan' = [chan EXCEPT ![n] = SubSeq(@, 1, i - 1) \o SubSeq(@, i + 1, Len(@))]
    BY DEF Lose
<1> DEFINE a == SubSeq(s, 1, i - 1)
           b == SubSeq(s, i + 1, Len(s))
<1>3. /\ a \in Seq(Packets) /\ Len(a) = i - 1
      /\ \A k \in 1..Len(a) : a[k] = s[k] /\ k \in 1..Len(s)
    BY <1>1
<1>4. /\ b \in Seq(Packets) /\ Len(b) = Len(s) - i
      /\ \A k \in 1..Len(b) : b[k] = s[k + i] /\ k + i \in 1..Len(s)
    BY <1>1
<1>5. chan'[n] = a \o b /\ \A m \in Nodes : m # n => chan'[m] = chan[m]
    BY <1>2 DEF ChanTypes
<1> HIDE DEF a, b
<1>6. /\ a \o b \in Seq(Packets) /\ Len(a \o b) = Len(a) + Len(b)
      /\ \A k \in 1..Len(a \o b) :
            (a \o b)[k] = IF k <= Len(a) THEN a[k] ELSE b[k - Len(a)]
    <2>1. a \in Seq(Packets) /\ b \in Seq(Packets)
        BY <1>3, <1>4
    <2>2. /\ a \o b \in Seq(Packets) /\ Len(a \o b) = Len(a) + Len(b)
          /\ \A k \in 1..(Len(a) + Len(b)) :
                (a \o b)[k] = IF k <= Len(a) THEN a[k] ELSE b[k - Len(a)]
        BY <2>1, ConcatProperties, Zenon
    <2> QED
        BY <2>2
<1>7. Flows
    BY <1>2, <1>6 DEF Flows, ChanTypes, Lose, a, b
<1>8. \A q : Travels(n, q)' => Travels(n, q)
    <2> SUFFICES ASSUME NEW q, NEW k \in 1..Len(chan'[n]), q = chan'[n][k]
                 PROVE  Travels(n, q)
        BY DEF Travels
    <2>1. Len(a) \in Nat /\ Len(b) \in Nat /\ k \in 1..(Len(a) + Len(b))
        BY <1>3, <1>4, <1>5, <1>6
    <2>2. CASE k <= Len(a)
        <3>1. k \in 1..Len(a)
            BY <2>1, <2>2
        <3> QED
            BY <1>3, <1>5, <1>6, <2>1, <2>2, <3>1 DEF Travels
    <2>3. CASE k > Len(a)
        <3>1. k - Len(a) \in 1..Len(b)
            BY <2>1, <2>3
        <3>2. q = b[k - Len(a)]
            BY <1>5, <1>6, <2>1, <2>3
        <3> QED
            BY <1>4, <3>1, <3>2 DEF Travels
    <2> QED
        BY <2>1, <2>2, <2>3
<1> QED
    BY <1>5, <1>7, <1>8 DEF Travels

-------------------------------------------------------------------------------
(* The invariant.                                                          *)

(* An accepted connection that has been made, or whose handler is about to *)
(* make it, is the one its opener is bound to.                             *)
MadeIsBound ==
    \A n \in Nodes : \A i \in Ids(n) :
        ~conn[n][i].opener /\ (conn[n][i].made > 0 \/ conn[n][i].handler = "opening") =>
            Acceptor(n, i).remote = i

(* An opener is bound by the handler that goes on to make it OPEN, and     *)
(* while that one is suspended the node handles nothing else.              *)
BoundIsOpened ==
    \A n \in Nodes : \A i \in Ids(n) : conn[n][i].opener =>
        /\ conn[n][i].handler = "opening" => conn[n][i].remote # 0
        /\ conn[n][i].remote # 0 /\ conn[n][i].state = "OPENING" =>
            conn[n][i].handler = "opening"

FutureOfOpener ==
    \A n \in Nodes : \A i \in Ids(n) : ~conn[n][i].opener => conn[n][i].future = "none"

(* While open_connection waits its connection is not OPEN; if it raises    *)
(* none stays in the manager, unless it was its own send that raised.      *)
WaitsTruly ==
    \A n \in Nodes : \A i \in Ids(n) : conn[n][i].state = "OPEN" => conn[n][i].future # "pending"

RaisedIsGone ==
    failed = 0 =>
        \A n \in Nodes : \A i \in Ids(n) : conn[n][i].future = "raised" => ~conn[n][i].listed

(* What a packet under way says is so, however late it comes.              *)
PacketSound(n, p) ==
    /\ p.code = "req" => p.src \in Ids(n) /\ conn[n][p.src].opener
    /\ p.code \in {"req_ack", "open_ack"} =>
        p.src \in Ids(n) /\ p.dst # 0 /\ conn[n][p.src].remote = p.dst
    /\ p.code = "open_ack" /\ ~conn[n][p.src].opener => Acceptor(n, p.src).remote = p.src

PacketsSound == \A n \in Nodes : \A p : Travels(n, p) => PacketSound(n, p)

PairInv ==
    /\ ConnTypes /\ ChanTypes
    /\ AcceptedForOpener /\ OpenerBound
    /\ MadeIsBound /\ BoundIsOpened /\ FutureOfOpener /\ WaitsTruly /\ RaisedIsGone
    /\ PacketsSound

(* An opener that is bound and not OPEN, without a handler that will make  *)
(* it so: what the handler has left whose OPEN_CONN_ACK raised, adsp.py:452*)
(* No step but that leads to one from PairInv (HalfBoundByReqAck).         *)
NoneHalfBound ==
    \A n \in Nodes : \A i \in Ids(n) :
        conn[n][i].opener /\ conn[n][i].remote # 0 /\ conn[n][i].state = "OPENING" =>
            conn[n][i].handler # "none"

Clean == NoneHalfBound' \/ UNCHANGED failed \/ \A n \in Nodes : ~RecvReqAck(n)

(* What a connection may become, and what it may send then.                *)
Becomes(n, i, c) ==
    /\ c \in Connections
    /\ c.opener = conn[n][i].opener
    /\ \/ c.remote = conn[n][i].remote
       \/ /\ c.opener /\ conn[n][i].remote = 0 /\ c.remote \in Ids(Peer(n))
          /\ ~conn[Peer(n)][c.remote].opener /\ conn[Peer(n)][c.remote].remote = i
    /\ ~c.opener /\ (c.made > 0 \/ c.handler = "opening") =>
        conn[Peer(n)][c.remote].remote = i
    /\ c.opener => /\ c.handler = "opening" => c.remote # 0
                   /\ c.remote # 0 /\ c.state = "OPENING" => c.handler = "opening"
    /\ ~c.opener => c.future = "none"
    /\ c.state = "OPEN" => c.future # "pending"
    /\ failed = 0 => (c.future = "raised" => ~c.listed)

Sends(n, i, c, p) ==
    /\ p.code = "req" => p.src = i /\ c.opener
    /\ p.code \in {"req_ack", "open_ack"} => p.src = i /\ p.dst = c.remote /\ c.remote # 0
    /\ p.code = "open_ack" /\ ~c.opener => conn[Peer(n)][c.remote].remote = i

LEMMA Remains ==
    ASSUME PairInv, NEW n \in Nodes, NEW i \in Ids(n)
    PROVE  Becomes(n, i, conn[n][i])
<1>1. conn[n][i] \in Connections
    BY IdsFacts DEF PairInv
<1> QED
    BY <1>1 DEF PairInv, Becomes, MadeIsBound, BoundIsOpened, FutureOfOpener, WaitsTruly,
        RaisedIsGone, Acceptor

LEMMA ReplacePairs ==
    ASSUME PairInv, Flows, NEW n \in Nodes, NEW i \in Ids(n), NEW c,
           Becomes(n, i, c), Replace(n, i, c),
           \A m \in Nodes : \A q : Travels(m, q)' =>
                Travels(m, q) \/ (m = n /\ Sends(n, i, c, q))
    PROVE  PairInv'
<1>1. c \in Connections
    BY DEF Becomes
<1>2. /\ ConnTypes' /\ \A m \in Nodes : Ids(m)' = Ids(m)
      /\ conn'[n][i] = c
      /\ \A m \in Nodes : \A j \in Ids(m) : m # n \/ j # i => conn'[m][j] = conn[m][j]
    BY <1>1, ReplaceFacts DEF PairInv
<1> DEFINE o == Peer(n)
<1>3. o \in Nodes /\ o # n /\ Peer(o) = n /\ \A m \in Nodes : m = n \/ m = o
    BY Peers
<1>4. \A j \in Ids(o) : conn'[o][j] = conn[o][j]
    BY <1>2, <1>3
<1>5. /\ i \in Nat /\ i # 0 /\ 0 \notin Ids(o) /\ 0 \notin Ids(n)
      /\ \A m \in Nodes : \A j \in Ids(m) : conn[m][j] \in Connections
    BY <1>3, IdsFacts DEF PairInv
<1> HIDE DEF o
<1>6. \A m \in Nodes : \A j \in Ids(m) : conn'[m][j].opener = conn[m][j].opener
    BY <1>2 DEF Becomes
(* What is bound stays so. *)
<1>7. \A m \in Nodes : \A j \in Ids(m) :
        conn[m][j].remote # 0 \/ ~conn[m][j].opener => conn'[m][j].remote = conn[m][j].remote
    BY <1>2 DEF Becomes
<1>8. AcceptedForOpener'
    <2> SUFFICES ASSUME NEW m \in Nodes, NEW j \in Ids(m), ~conn'[m][j].opener
                 PROVE  conn'[m][j].remote \in Ids(Peer(m)) /\ Acceptor(m, j)'.opener
        BY <1>2, Peers DEF AcceptedForOpener
    <2>1. ~conn[m][j].opener
        BY <1>6
    <2>2. conn[m][j].remote \in Ids(Peer(m)) /\ conn[Peer(m)][conn[m][j].remote].opener
        BY <2>1 DEF PairInv, AcceptedForOpener, Acceptor
    <2>3. conn'[m][j].remote = conn[m][j].remote
        BY <1>7, <2>1
    <2> QED
        BY <1>6, <2>2, <2>3, Peers DEF Acceptor
<1>9. OpenerBound'
    <2> SUFFICES ASSUME NEW m \in Nodes, NEW j \in Ids(m),
                        conn'[m][j].opener, conn'[m][j].remote # 0
                 PROVE  /\ conn'[m][j].remote \in Ids(Peer(m))
                        /\ ~Acceptor(m, j)'.opener /\ Acceptor(m, j)'.remote = j
        BY <1>2, Peers DEF OpenerBound
    <2>1. CASE conn[m][j].remote # 0
        <3>1. /\ conn[m][j].remote \in Ids(Peer(m))
              /\ ~conn[Peer(m)][conn[m][j].remote].opener
              /\ conn[Peer(m)][conn[m][j].remote].remote = j
            BY <1>6, <2>1 DEF PairInv, OpenerBound, Acceptor
        <3> QED
            BY <1>6, <1>7, <2>1, <3>1, Peers DEF Acceptor
    <2>2. CASE conn[m][j].remote = 0
        <3>1. m = n /\ j = i
            BY <1>2, <2>2
        <3> QED
            BY <1>2, <1>3, <1>4, <2>2, <3>1 DEF Becomes, Acceptor, o
    <2> QED
        BY <2>1, <2>2
(* An acceptor's opener that is bound to it remains so. *)
<1>10. \A m \in Nodes : \A j \in Ids(m) :
        ~conn[m][j].opener /\ conn[Peer(m)][conn[m][j].remote].remote = j =>
            Acceptor(m, j)'.remote = j
    <2> SUFFICES ASSUME NEW m \in Nodes, NEW j \in Ids(m), ~conn[m][j].opener,
                        conn[Peer(m)][conn[m][j].remote].remote = j
                 PROVE  conn'[Peer(m)][conn'[m][j].remote].remote = j
        BY DEF Acceptor
    <2>1. conn[m][j].remote \in Ids(Peer(m)) /\ j # 0 /\ Peer(m) \in Nodes
        BY IdsFacts, Peers DEF PairInv, AcceptedForOpener
    <2> QED
        BY <1>7, <2>1
<1>11. MadeIsBound'
    <2> SUFFICES ASSUME NEW m \in Nodes, NEW j \in Ids(m), ~conn'[m][j].opener,
                        conn'[m][j].made > 0 \/ conn'[m][j].handler = "opening"
                 PROVE  Acceptor(m, j)'.remote = j
        BY <1>2 DEF MadeIsBound
    <2>1. conn[Peer(m)][conn[m][j].remote].remote = j
        <3>1. CASE m # n \/ j # i
            BY <1>2, <3>1 DEF PairInv, MadeIsBound, Acceptor
        <3>2. CASE m = n /\ j = i
            BY <1>2, <1>6, <3>2 DEF Becomes
        <3> QED
            BY <3>1, <3>2
    <2> QED
        BY <1>6, <1>10, <2>1
<1>12. BoundIsOpened' /\ FutureOfOpener' /\ WaitsTruly'
    BY <1>2 DEF PairInv, BoundIsOpened, FutureOfOpener, WaitsTruly, Becomes
<1>14. RaisedIsGone'
    <2>1. failed' = 0 => failed = 0
        BY DEF Flows, PairInv, ChanTypes
    <2> QED
        BY <1>2, <2>1 DEF PairInv, RaisedIsGone, Becomes
<1>13. PacketsSound'
    <2> SUFFICES ASSUME NEW m \in Nodes, NEW p, Travels(m, p)' PROVE PacketSound(m, p)'
        BY DEF PacketsSound
    <2>1. CASE Travels(m, p)
        <3>1. PacketSound(m, p)
            BY <2>1 DEF PairInv, PacketsSound
        <3>2. p.code = "req" => p.src \in Ids(m)' /\ conn'[m][p.src].opener
            BY <1>2, <1>6, <3>1 DEF PacketSound
        <3>3. p.code \in {"req_ack", "open_ack"} =>
                p.src \in Ids(m)' /\ p.dst # 0 /\ conn'[m][p.src].remote = p.dst
            BY <1>2, <1>7, <3>1 DEF PacketSound
        <3>4. p.code = "open_ack" /\ ~conn'[m][p.src].opener =>
                Acceptor(m, p.src)'.remote = p.src
            BY <1>6, <1>10, <3>1 DEF PacketSound, Acceptor
        <3> QED
            BY <3>2, <3>3, <3>4 DEF PacketSound
    <2>2. CASE m = n /\ Sends(n, i, c, p)
        <3>1. p.code = "req" => p.src \in Ids(m)' /\ conn'[m][p.src].opener
            BY <1>2, <2>2 DEF Sends
        <3>2. p.code \in {"req_ack", "open_ack"} =>
                p.src \in Ids(m)' /\ p.dst # 0 /\ conn'[m][p.src].remote = p.dst
            BY <1>2, <2>2 DEF Sends
        <3>3. p.code = "open_ack" /\ ~conn'[m][p.src].opener =>
                Acceptor(m, p.src)'.remote = p.src
            <4> SUFFICES ASSUME p.code = "open_ack", ~conn'[m][p.src].opener
                         PROVE  Acceptor(n, i)'.remote = i
                BY <2>2 DEF Sends
            <4>1. ~c.opener /\ ~conn[n][i].opener /\ c.remote = conn[n][i].remote
                  /\ conn[Peer(n)][c.remote].remote = i
                BY <1>2, <2>2 DEF Sends, Becomes
            <4> QED
                BY <1>10, <4>1
        <3> QED
            BY <3>1, <3>2, <3>3 DEF PacketSound
    <2> QED
        BY <2>1, <2>2
<1> QED
    BY <1>2, <1>8, <1>9, <1>11, <1>12, <1>13, <1>14 DEF PairInv, Flows

(* A new connection.                                                       *)
Starts(n, c) ==
    /\ c \in Connections /\ c.state = "OPENING" /\ c.made = 0 /\ c.handler = "none"
    /\ \/ c.opener /\ c.remote = 0 /\ c.future \in {"pending", "raised"}
       \/ /\ ~c.opener /\ c.future = "none" /\ c.remote \in Ids(Peer(n))
          /\ conn[Peer(n)][c.remote].opener

LEMMA AppendPairs ==
    ASSUME PairInv, Flows, NEW n \in Nodes, NEW c, Starts(n, c), Adds(n, c),
           c.future = "raised" => failed' # 0,
           \A m \in Nodes : \A q : Travels(m, q)' =>
                Travels(m, q) \/ (m = n /\ Sends(n, Id(n), c, q) /\ q.code # "open_ack")
    PROVE  PairInv'
<1> DEFINE o == Peer(n)
           i == Id(n)
<1>1. /\ ConnTypes'
      /\ Ids(n)' = Ids(n) \cup {i} /\ Ids(o)' = Ids(o)
      /\ conn'[n][i] = c
      /\ \A m \in Nodes : \A j \in Ids(m) : conn'[m][j] = conn[m][j]
    BY AppendFacts DEF PairInv, Starts
<1>2. o \in Nodes /\ o # n /\ Peer(o) = n /\ \A m \in Nodes : m = n \/ m = o
    BY Peers
<1>3. i \in Nat /\ i # 0 /\ i \notin Ids(n) /\ 0 \notin Ids(o)
    BY <1>2, IdsFacts DEF PairInv
<1> HIDE DEF o, i
<1>4. \A m \in Nodes : Ids(m) \subseteq Ids(m)'
    BY <1>1, <1>2
<1>5. \A m \in Nodes : \A j \in Ids(m)' : j \in Ids(m) \/ (m = n /\ j = i)
    BY <1>1, <1>2
<1>6. AcceptedForOpener'
    <2> SUFFICES ASSUME NEW m \in Nodes, NEW j \in Ids(m)', ~conn'[m][j].opener
                 PROVE  conn'[m][j].remote \in Ids(Peer(m))' /\ Acceptor(m, j)'.opener
        BY DEF AcceptedForOpener
    <2>1. CASE j \in Ids(m)
        <3>1. conn[m][j].remote \in Ids(Peer(m)) /\ conn[Peer(m)][conn[m][j].remote].opener
            BY <1>1, <2>1 DEF PairInv, AcceptedForOpener, Acceptor
        <3> QED
            BY <1>1, <1>4, <2>1, <3>1, Peers DEF Acceptor
    <2>2. CASE m = n /\ j = i
        BY <1>1, <1>2, <2>2 DEF Starts, Acceptor, o
    <2> QED
        BY <1>5, <2>1, <2>2
<1>7. OpenerBound'
    <2> SUFFICES ASSUME NEW m \in Nodes, NEW j \in Ids(m)',
                        conn'[m][j].opener, conn'[m][j].remote # 0
                 PROVE  /\ conn'[m][j].remote \in Ids(Peer(m))'
                        /\ ~Acceptor(m, j)'.opener /\ Acceptor(m, j)'.remote = j
        BY DEF OpenerBound
    <2>1. j \in Ids(m)
        BY <1>1, <1>5 DEF Starts
    <2>2. /\ conn[m][j].remote \in Ids(Peer(m))
          /\ ~conn[Peer(m)][conn[m][j].remote].opener
          /\ conn[Peer(m)][conn[m][j].remote].remote = j
        BY <1>1, <2>1 DEF PairInv, OpenerBound, Acceptor
    <2> QED
        BY <1>1, <1>4, <2>1, <2>2, Peers DEF Acceptor
<1>8. \A m \in Nodes : \A j \in Ids(m) : ~conn[m][j].opener =>
        Acceptor(m, j)'.remote = Acceptor(m, j).remote
    BY <1>1, Peers DEF PairInv, AcceptedForOpener, Acceptor
<1>9. MadeIsBound'
    <2> SUFFICES ASSUME NEW m \in Nodes, NEW j \in Ids(m)', ~conn'[m][j].opener,
                        conn'[m][j].made > 0 \/ conn'[m][j].handler = "opening"
                 PROVE  Acceptor(m, j)'.remote = j
        BY DEF MadeIsBound
    <2>1. j \in Ids(m)
        BY <1>1, <1>5 DEF Starts
    <2> QED
        BY <1>1, <1>8, <2>1 DEF PairInv, MadeIsBound
<1>10. BoundIsOpened' /\ FutureOfOpener' /\ WaitsTruly'
    <2> SUFFICES ASSUME NEW m \in Nodes, NEW j \in Ids(m)'
                 PROVE  LET x == conn'[m][j] IN
                        /\ x.opener =>
                            /\ x.handler = "opening" => x.remote # 0
                            /\ x.remote # 0 /\ x.state = "OPENING" => x.handler = "opening"
                        /\ ~x.opener => x.future = "none"
                        /\ x.state = "OPEN" => x.future # "pending"
        BY DEF BoundIsOpened, FutureOfOpener, WaitsTruly
    <2>1. CASE j \in Ids(m)
        BY <1>1, <2>1 DEF PairInv, BoundIsOpened, FutureOfOpener, WaitsTruly
    <2>2. CASE m = n /\ j = i
        BY <1>1, <2>2 DEF Starts
    <2> QED
        BY <1>5, <2>1, <2>2
<1>12. RaisedIsGone'
    <2> SUFFICES ASSUME failed' = 0, NEW m \in Nodes, NEW j \in Ids(m)',
                        conn'[m][j].future = "raised"
                 PROVE  ~conn'[m][j].listed
        BY DEF RaisedIsGone
    <2>1. failed = 0
        BY DEF Flows, PairInv, ChanTypes
    <2>2. j \in Ids(m)
        BY <1>1, <1>5
    <2> QED
        BY <1>1, <2>1, <2>2 DEF PairInv, RaisedIsGone
<1>11. PacketsSound'
    <2> SUFFICES ASSUME NEW m \in Nodes, NEW p, Travels(m, p)' PROVE PacketSound(m, p)'
        BY DEF PacketsSound
    <2>1. CASE Travels(m, p)
        <3>1. PacketSound(m, p)
            BY <2>1 DEF PairInv, PacketsSound
        <3> QED
            BY <1>1, <1>4, <1>8, <3>1 DEF PacketSound
    <2>2. CASE m = n /\ Sends(n, i, c, p) /\ p.code # "open_ack"
        BY <1>1, <2>2 DEF PacketSound, Sends
    <2> QED
        BY <2>1, <2>2 DEF i
<1> QED
    BY <1>1, <1>6, <1>7, <1>9, <1>10, <1>11, <1>12 DEF PairInv, Flows

-------------------------------------------------------------------------------
(* The steps.                                                              *)

Futures == {"none", "pending", "done", "raised"}

(* What the steps make of a connection is one.                             *)
LEMMA Updates ==
    ASSUME NEW c \in Connections
    PROVE  /\ Heard(c) \in Connections /\ Opened(c) \in Connections
           /\ PeerClosed(c) \in Connections /\ ForceClosed(c) \in Connections
           /\ Closed(c) \in Connections
           /\ \A h \in {"opening", "answering"} : [c EXCEPT !.handler = h] \in Connections
           /\ \A r \in Nat : [c EXCEPT !.remote = r] \in Connections
           /\ [c EXCEPT !.close = "created", !.gone = @ + 1] \in Connections
           /\ [c EXCEPT !.state = "OPEN", !.made = @ + 1] \in Connections
<1>1. c.made + 1 \in Nat /\ c.gone + 1 \in Nat
    BY DEF Connections
<1>2. Heard(c) \in Connections
    BY SessionAssumption DEF Connections, Heard
<1>12. Closed(c) \in Connections
    BY DEF Connections, Closed
<1>3. \A k \in Nat, f \in Futures :
        [c EXCEPT !.state = "OPEN", !.made = k, !.handler = "none", !.future = f]
            \in Connections
    BY DEF Connections, Futures
<1>4. \A k \in Nat :
        [c EXCEPT !.state = "CLOSED", !.gone = k, !.listed = FALSE, !.timer = "stopped",
                  !.handler = "none"] \in Connections
    BY DEF Connections
<1>5. \A k \in Nat, f \in Futures :
        [c EXCEPT !.state = "CLOSED", !.gone = k, !.listed = FALSE, !.timer = "stopped",
                  !.future = f] \in Connections
    BY DEF Connections, Futures
<1>6. \A h \in {"opening", "answering"} : [c EXCEPT !.handler = h] \in Connections
    BY DEF Connections
<1>7. \A r \in Nat : [c EXCEPT !.remote = r] \in Connections
    BY DEF Connections
<1>8. \A k \in Nat : /\ [c EXCEPT !.close = "created", !.gone = k] \in Connections
                     /\ [c EXCEPT !.state = "OPEN", !.made = k] \in Connections
    BY DEF Connections
<1>9. Opened(c) \in Connections
    <2>1. (IF c.future = "pending" THEN "done" ELSE c.future) \in Futures
        BY DEF Connections, Futures
    <2> QED
        BY <1>1, <1>3, <2>1 DEF Opened
<1>10. PeerClosed(c) \in Connections
    BY <1>1, <1>4 DEF PeerClosed
<1>11. ForceClosed(c) \in Connections
    <2>1. (IF c.future = "pending" THEN "raised" ELSE c.future) \in Futures
        BY DEF Connections, Futures
    <2> QED
        BY <1>1, <1>5, <2>1 DEF ForceClosed
<1> QED
    BY <1>1, <1>2, <1>6, <1>7, <1>8, <1>9, <1>10, <1>11, <1>12

LEMMA NewConns ==
    \A opener \in BOOLEAN, r \in Nat, f \in {"none", "pending", "done", "raised"} :
        NewConn(opener, r, f) \in Connections
BY SessionAssumption DEF Connections, NewConn

LEMMA OpenConnectionPairs ==
    ASSUME PairInv, NEW n \in Nodes, OpenConnection(n) PROVE PairInv'
<1>0. UNCHANGED lost
    BY DEF OpenConnection
<1>1. CASE Adds(n, NewConn(TRUE, 0, "pending")) /\ Sent(chan, n, Packet("req", Id(n), 0))
    <2> DEFINE c == NewConn(TRUE, 0, "pending")
               p == Packet("req", Id(n), 0)
    <2>1. p \in Packets
        BY IdsFacts DEF PairInv, Packet, Packets, Codes
    <2>2. Flows /\ \A m \in Nodes : \A q : Travels(m, q)' => Travels(m, q) \/ (m = n /\ q = p)
        BY <1>0, <1>1, <2>1, SentFacts DEF PairInv, ChanTypes, Travels
    <2>3. Starts(n, c) /\ c.opener /\ c.future # "raised"
        BY NewConns DEF Starts, NewConn
    <2>4. Sends(n, Id(n), c, p) /\ p.code # "open_ack"
        BY <2>3 DEF Sends, Packet
    <2>5. Adds(n, c)
        BY <1>1
    <2> HIDE DEF c, p
    <2> QED
        BY <2>2, <2>3, <2>4, <2>5, AppendPairs
<1>2. CASE Adds(n, NewConn(TRUE, 0, "raised")) /\ Raised(chan)
    <2> DEFINE c == NewConn(TRUE, 0, "raised")
    <2>1. /\ Flows /\ failed' # 0
          /\ \A m \in Nodes : \A q : Travels(m, q)' => Travels(m, q)
        BY <1>0, <1>2, RaisedFacts DEF PairInv, ChanTypes, Travels
    <2>2. Starts(n, c)
        BY NewConns DEF Starts, NewConn
    <2>3. Adds(n, c)
        BY <1>2
    <2> HIDE DEF c
    <2> QED
        BY <2>1, <2>2, <2>3, AppendPairs
<1> QED
    BY <1>1, <1>2 DEF OpenConnection, Adds

LEMMA RecvRequestPairs ==
    ASSUME PairInv, NEW n \in Nodes, RecvRequest(n) PROVE PairInv'
<1> DEFINE w == Waiting(n)
           c == NewConn(FALSE, w.src, "none")
           p == Packet("req_ack", Id(n), w.src)
<1>1. /\ Receiving(n) /\ w.code = "req"
      /\ Adds(n, c) /\ UNCHANGED lost
      /\ Sent(Rest(n), n, p) \/ Raised(Rest(n))
    BY DEF RecvRequest, Adds
<1>2. w \in Packets /\ Travels(Peer(n), w)
    BY <1>1, WaitingFacts DEF PairInv
<1>3. w.src \in Nat /\ w.src \in Ids(Peer(n)) /\ conn[Peer(n)][w.src].opener /\ w.src # 0
    BY <1>1, <1>2, Peers, IdsFacts DEF PairInv, PacketsSound, PacketSound
<1>4. p \in Packets
    BY <1>3, IdsFacts DEF PairInv, Packet, Packets, Codes
<1>5. Flows /\ \A m \in Nodes : \A q : Travels(m, q)' => Travels(m, q) \/ (m = n /\ q = p)
    BY <1>1, <1>4, SentFacts, RaisedFacts, WaitingFacts DEF PairInv
<1>6. Starts(n, c) /\ ~c.opener /\ c.remote = w.src /\ c.future # "raised"
    BY <1>3, NewConns DEF Starts, NewConn
<1>7. Sends(n, Id(n), c, p) /\ p.code # "open_ack"
    BY <1>3, <1>6 DEF Sends, Packet
<1> HIDE DEF c, p
<1> QED
    BY <1>1, <1>5, <1>6, <1>7, AppendPairs

(* Most steps leave the pairing of a connection alone.                     *)
Mild(n, i, c) ==
    LET old == conn[n][i]
    IN  /\ c \in Connections
        /\ c.opener = old.opener /\ c.remote = old.remote /\ c.made = old.made
        /\ c.state = old.state \/ c.state \in {"CLOSING", "CLOSED"}
        /\ \/ c.handler = old.handler
           \/ c.state = "CLOSED" /\ c.handler = "none"
           \/ old.handler = "none" /\ c.handler = "answering"
        /\ c.listed = old.listed \/ ~c.listed
        /\ c.future = old.future \/ (old.future = "pending" /\ ~c.listed)

LEMMA MildUpdates ==
    ASSUME NEW n, NEW i, conn[n][i] \in Connections
    PROVE  LET old == conn[n][i]
           IN  /\ Mild(n, i, Heard(old)) /\ Mild(n, i, PeerClosed(old))
               /\ Mild(n, i, Closed(old)) /\ Mild(n, i, ForceClosed(old))
               /\ Mild(n, i, [old EXCEPT !.close = "created", !.gone = @ + 1])
<1> DEFINE old == conn[n][i]
<1>1. Mild(n, i, Heard(old))
    <2> DEFINE c == Heard(old)
    <2>1. c \in Connections
        BY Updates
    <2>2. /\ c.opener = old.opener /\ c.remote = old.remote /\ c.made = old.made
          /\ c.state = old.state /\ c.handler = old.handler
          /\ c.listed = old.listed /\ c.future = old.future
        BY DEF Heard, Connections
    <2> QED
        BY <2>1, <2>2 DEF Mild
<1>2. Mild(n, i, PeerClosed(old))
    <2> DEFINE c == PeerClosed(old)
    <2>1. c \in Connections
        BY Updates
    <2>2. /\ c.opener = old.opener /\ c.remote = old.remote /\ c.made = old.made
          /\ c.state = "CLOSED" /\ c.handler = "none" /\ c.listed = FALSE
          /\ c.future = old.future
        BY DEF PeerClosed, Connections
    <2> QED
        BY <2>1, <2>2 DEF Mild
<1>3. Mild(n, i, Closed(old))
    <2> DEFINE c == Closed(old)
    <2>1. c \in Connections
        BY Updates
    <2>2. /\ c.opener = old.opener /\ c.remote = old.remote /\ c.made = old.made
          /\ c.state = "CLOSED" /\ c.handler = old.handler /\ c.listed = FALSE
          /\ c.future = old.future
        BY DEF Closed, Connections
    <2> QED
        BY <2>1, <2>2 DEF Mild
<1>4. Mild(n, i, ForceClosed(old))
    <2> DEFINE c == ForceClosed(old)
    <2>1. c \in Connections
        BY Updates
    <2>2. /\ c.opener = old.opener /\ c.remote = old.remote /\ c.made = old.made
          /\ c.state = "CLOSED" /\ c.handler = old.handler /\ c.listed = FALSE
          /\ c.future = IF old.future = "pending" THEN "raised" ELSE old.future
        BY DEF ForceClosed, Connections
    <2> QED
        BY <2>1, <2>2 DEF Mild
<1>5. Mild(n, i, [old EXCEPT !.close = "created", !.gone = @ + 1])
    <2> DEFINE c == [old EXCEPT !.close = "created", !.gone = @ + 1]
    <2>1. c \in Connections
        BY Updates
    <2>2. /\ c.opener = old.opener /\ c.remote = old.remote /\ c.made = old.made
          /\ c.state = old.state /\ c.handler = old.handler
          /\ c.listed = old.listed /\ c.future = old.future
        BY DEF Connections
    <2> QED
        BY <2>1, <2>2 DEF Mild
<1> QED
    BY <1>1, <1>2, <1>3, <1>4, <1>5

(* The steps that leave the pairing alone send CLOSE_CONN, if anything.    *)
MildStep(n) ==
    \E i \in Ids(n), c \in Connections :
        /\ Mild(n, i, c) /\ Replace(n, i, c) /\ Flows
        /\ \A m \in Nodes : \A q : Travels(m, q)' =>
                Travels(m, q) \/ (m = n /\ q.code = "close")

LEMMA RecvNotedMild ==
    ASSUME ConnTypes, ChanTypes, NEW n \in Nodes, RecvNoted(n) PROVE MildStep(n)
<1>1. PICK i \in Ids(n) :
        /\ Replace(n, i, Heard(conn[n][i])) /\ Receiving(n) /\ chan' = Rest(n)
        /\ UNCHANGED <<lost, failed>>
    BY DEF RecvNoted
<1>2. Flows /\ \A m \in Nodes : \A q : Travels(m, q)' => Travels(m, q)
    BY <1>1, RestFacts
<1>3. Mild(n, i, Heard(conn[n][i]))
    BY IdsFacts, MildUpdates
<1> QED
    BY <1>1, <1>2, <1>3 DEF MildStep, Mild

LEMMA RecvCloseMild ==
    ASSUME ConnTypes, ChanTypes, NEW n \in Nodes, RecvClose(n) PROVE MildStep(n)
<1>1. PICK i \in Ids(n) :
        LET c == Heard(conn[n][i])
        IN  /\ Receiving(n)
            /\ \/ /\ chan' = Rest(n) /\ UNCHANGED failed
                  /\ Replace(n, i, PeerClosed(c))
               \/ /\ Sent(Rest(n), n, Packet("close", i, c.remote))
                  /\ \/ Replace(n, i, PeerClosed(c))
                     \/ Backpressure /\ Replace(n, i, [c EXCEPT !.handler = "answering"])
               \/ Raised(Rest(n)) /\ Replace(n, i, c)
            /\ UNCHANGED <<listening, lost>>
    BY DEF RecvClose
<1> DEFINE old == conn[n][i]
           c == Heard(old)
           p == Packet("close", i, c.remote)
<1>2. old \in Connections /\ i \in Nat /\ old.handler = "none"
    BY <1>1, IdsFacts DEF Receiving
<1>3. /\ Mild(n, i, PeerClosed(c)) /\ Mild(n, i, [c EXCEPT !.handler = "answering"])
      /\ Mild(n, i, c)
    <2>1. c \in Connections
        BY <1>2, Updates
    <2>2. PeerClosed(c) \in Connections /\ [c EXCEPT !.handler = "answering"] \in Connections
        BY <2>1, Updates
    <2>3. /\ c.opener = old.opener /\ c.remote = old.remote /\ c.made = old.made
          /\ c.state = old.state /\ c.handler = old.handler
          /\ c.listed = old.listed /\ c.future = old.future
        BY <1>2 DEF Heard, Connections
    <2>4. LET d == PeerClosed(c)
          IN  /\ d.opener = c.opener /\ d.remote = c.remote /\ d.made = c.made
              /\ d.state = "CLOSED" /\ d.handler = "none" /\ d.listed = FALSE
              /\ d.future = c.future
        BY <2>1 DEF PeerClosed, Connections
    <2>5. LET d == [c EXCEPT !.handler = "answering"]
          IN  /\ d.opener = c.opener /\ d.remote = c.remote /\ d.made = c.made
              /\ d.state = c.state /\ d.handler = "answering"
              /\ d.listed = c.listed /\ d.future = c.future
        BY <2>1 DEF Connections
    <2> HIDE DEF c
    <2>8. Mild(n, i, c)
        BY <2>1, <2>3 DEF Mild
    <2>6. Mild(n, i, PeerClosed(c))
        BY <2>2, <2>3, <2>4 DEF Mild
    <2>7. Mild(n, i, [c EXCEPT !.handler = "answering"])
        BY <1>2, <2>2, <2>3, <2>5 DEF Mild
    <2> QED
        BY <2>6, <2>7, <2>8
<1>4. p \in Packets /\ p.code = "close"
    BY <1>2 DEF Packet, Packets, Codes, Heard, Connections
<1> HIDE DEF old, c, p
<1>6. CASE Raised(Rest(n)) /\ Replace(n, i, c)
    <2>1. Flows /\ \A m \in Nodes : \A q : Travels(m, q)' => Travels(m, q)
        BY <1>1, <1>6, RaisedFacts, WaitingFacts
    <2> QED
        BY <1>3, <1>6, <2>1 DEF MildStep, Mild
<1>7. CASE chan' = Rest(n) /\ UNCHANGED failed /\ Replace(n, i, PeerClosed(c))
    <2>1. Flows /\ \A m \in Nodes : \A q : Travels(m, q)' => Travels(m, q)
        BY <1>1, <1>7, RestFacts
    <2> QED
        BY <1>3, <1>7, <2>1 DEF MildStep, Mild
<1>8. CASE /\ Sent(Rest(n), n, p)
           /\ \E d \in {PeerClosed(c), [c EXCEPT !.handler = "answering"]} : Replace(n, i, d)
    <2>1. Flows /\ \A m \in Nodes : \A q : Travels(m, q)' => Travels(m, q) \/ (m = n /\ q = p)
        BY <1>1, <1>4, <1>8, SentFacts, WaitingFacts
    <2> QED
        BY <1>3, <1>4, <1>8, <2>1 DEF MildStep, Mild
<1> QED
    BY <1>1, <1>6, <1>7, <1>8 DEF c, old, p

LEMMA CloseMild ==
    ASSUME ConnTypes, ChanTypes, NEW n \in Nodes,
           Close(n) \/ CloseResumes(n) \/ TickTimeout(n)
    PROVE  MildStep(n)
<1>1. PICK i \in Ids(n) :
        /\ \/ Replace(n, i, [conn[n][i] EXCEPT !.close = "created", !.gone = @ + 1])
           \/ Replace(n, i, Closed(conn[n][i]))
           \/ Replace(n, i, ForceClosed(conn[n][i]))
        /\ UNCHANGED netVars
    BY DEF Close, CloseResumes, TickTimeout
<1> DEFINE old == conn[n][i]
<1>2. old \in Connections
    BY IdsFacts
<1>3. /\ Mild(n, i, [old EXCEPT !.close = "created", !.gone = @ + 1])
      /\ Mild(n, i, Closed(old)) /\ Mild(n, i, ForceClosed(old))
    BY <1>2, MildUpdates
<1>4. Flows /\ \A m \in Nodes : \A q : Travels(m, q)' => Travels(m, q)
    BY <1>1 DEF Flows, ChanTypes, netVars, Travels
<1> QED
    BY <1>1, <1>3, <1>4 DEF MildStep, Mild

LEMMA CloseConnectionMild ==
    ASSUME ConnTypes, ChanTypes, NEW n \in Nodes, CloseConnection(n) PROVE MildStep(n)
<1>1. PICK i \in Ids(n) :
        LET c == conn[n][i]
            closing == [c EXCEPT !.state = "CLOSING", !.timer = "stopped"]
        IN  /\ \/ Replace(n, i, [c EXCEPT !.close = "done"]) /\ UNCHANGED <<chan, failed>>
               \/ /\ Sent(chan, n, Packet("close", i, c.remote))
                  /\ \/ Replace(n, i, Closed(closing))
                     \/ Backpressure /\ Replace(n, i, [closing EXCEPT !.close = "sending"])
               \/ Raised(chan) /\ Replace(n, i, [closing EXCEPT !.close = "done"])
            /\ UNCHANGED <<listening, lost>>
    BY DEF CloseConnection
<1> DEFINE old == conn[n][i]
           closing == [old EXCEPT !.state = "CLOSING", !.timer = "stopped"]
           p == Packet("close", i, old.remote)
<1>2. old \in Connections /\ i \in Nat
    BY IdsFacts
<1>3. Mild(n, i, [old EXCEPT !.close = "done"])
    BY <1>2 DEF Mild, Connections
<1>4. closing \in Connections
    BY <1>2 DEF Connections
<1>5. Mild(n, i, Closed(closing)) /\ Mild(n, i, [closing EXCEPT !.close = "sending"])
    <2>1. Closed(closing) \in Connections /\ [closing EXCEPT !.close = "sending"] \in Connections
        <3>1. Closed(closing) \in Connections
            BY <1>4, Updates
        <3>2. [closing EXCEPT !.close = "sending"] \in Connections
            BY <1>4 DEF Connections
        <3> QED
            BY <3>1, <3>2
    <2>2. LET d == Closed(closing)
          IN  /\ d.opener = old.opener /\ d.remote = old.remote /\ d.made = old.made
              /\ d.state = "CLOSED" /\ d.handler = old.handler /\ d.listed = FALSE
              /\ d.future = old.future
        BY <1>2 DEF Closed, Connections
    <2>3. LET d == [closing EXCEPT !.close = "sending"]
          IN  /\ d.opener = old.opener /\ d.remote = old.remote /\ d.made = old.made
              /\ d.state = "CLOSING" /\ d.handler = old.handler
              /\ d.listed = old.listed /\ d.future = old.future
        BY <1>2 DEF Connections
    <2> HIDE DEF closing
    <2>4. Mild(n, i, Closed(closing))
        BY <2>1, <2>2 DEF Mild
    <2>5. Mild(n, i, [closing EXCEPT !.close = "sending"])
        BY <2>1, <2>3 DEF Mild
    <2> QED
        BY <2>4, <2>5
<1>6. p \in Packets /\ p.code = "close"
    BY <1>2 DEF Packet, Packets, Codes, Connections
<1>7. CASE Raised(chan) /\ Replace(n, i, [closing EXCEPT !.close = "done"])
    <2>1. Flows /\ \A m \in Nodes : \A q : Travels(m, q)' => Travels(m, q)
        BY <1>1, <1>7, RaisedFacts DEF ChanTypes, Travels
    <2>2. Mild(n, i, [closing EXCEPT !.close = "done"])
        BY <1>2 DEF Mild, Connections
    <2> HIDE DEF closing
    <2> QED
        BY <1>7, <2>1, <2>2 DEF MildStep, Mild
<1>8. CASE Replace(n, i, [old EXCEPT !.close = "done"]) /\ UNCHANGED <<chan, failed>>
    <2>1. Flows /\ \A m \in Nodes : \A q : Travels(m, q)' => Travels(m, q)
        BY <1>1, <1>8 DEF Flows, ChanTypes, Travels
    <2> QED
        BY <1>3, <1>8, <2>1 DEF MildStep, Mild
<1>9. CASE /\ Sent(chan, n, p)
           /\ \E d \in {Closed(closing), [closing EXCEPT !.close = "sending"]} :
                Replace(n, i, d)
    <2> HIDE DEF closing, p
    <2>1. Sent(chan, n, p) /\ UNCHANGED lost /\ p \in Packets
        BY <1>1, <1>6, <1>9
    <2>2. Flows /\ \A m \in Nodes : \A q : Travels(m, q)' => Travels(m, q) \/ (m = n /\ q = p)
        BY <2>1, SentFacts DEF ChanTypes, Travels
    <2> QED
        BY <1>5, <1>6, <1>9, <2>2 DEF MildStep, Mild
<1> QED
    BY <1>1, <1>7, <1>8, <1>9

LEMMA MildSteps ==
    ASSUME ConnTypes, ChanTypes, NEW n \in Nodes,
           \/ RecvNoted(n) \/ RecvClose(n) \/ Close(n)
           \/ CloseConnection(n) \/ CloseResumes(n) \/ TickTimeout(n)
    PROVE  MildStep(n)
BY RecvNotedMild, RecvCloseMild, CloseMild, CloseConnectionMild

(* And the timer sends what the connection is waiting for.                 *)
LEMMA TickSendMild ==
    ASSUME ConnTypes, ChanTypes, NEW n \in Nodes, TickSend(n)
    PROVE  \E i \in Ids(n), c \in Connections :
              /\ Mild(n, i, c) /\ Replace(n, i, c) /\ Flows
              /\ \A m \in Nodes : \A q : Travels(m, q)' =>
                    Travels(m, q) \/ (m = n /\ q = TimerPacket(n, i))
<1>1. PICK i \in Ids(n) :
        LET c == [conn[n][i] EXCEPT !.idle = @ + 1, !.ticked = TRUE]
        IN  /\ ~TimedOut(conn[n][i]) /\ c.state \in {"OPENING", "OPEN"}
            /\ \/ Sent(chan, n, TimerPacket(n, i)) /\ Replace(n, i, c)
               \/ Raised(chan) /\ Replace(n, i, [c EXCEPT !.timer = "dead"])
            /\ UNCHANGED <<listening, lost>>
    BY DEF TickSend
<1> DEFINE old == conn[n][i]
           c == [old EXCEPT !.idle = @ + 1, !.ticked = TRUE]
           p == TimerPacket(n, i)
<1>2. old \in Connections /\ i \in Nat /\ i # 0
    BY IdsFacts
<1>3. old.idle \in 0..TimeoutTicks /\ old.idle # TimeoutTicks /\ TimeoutTicks \in Nat
    BY <1>1, <1>2, SessionAssumption DEF TimedOut, Connections
<1>4. old.idle + 1 \in 0..TimeoutTicks
    BY <1>3
<1>5. Mild(n, i, c)
    BY <1>2, <1>4 DEF Mild, Connections
<1>7. p \in Packets
    BY <1>2 DEF TimerPacket, ReqAck, Packet, Packets, Codes, Connections
<1>9. Mild(n, i, [c EXCEPT !.timer = "dead"])
    BY <1>2, <1>4 DEF Mild, Connections
<1>10. UNCHANGED lost
    BY <1>1
<1>11. \/ Sent(chan, n, p) /\ Replace(n, i, c)
       \/ Raised(chan) /\ Replace(n, i, [c EXCEPT !.timer = "dead"])
    BY <1>1
<1> HIDE DEF c, p
<1>12. CASE Sent(chan, n, p) /\ Replace(n, i, c)
    <2>1. Flows /\ \A m \in Nodes : \A q : Travels(m, q)' => Travels(m, q) \/ (m = n /\ q = p)
        BY <1>7, <1>10, <1>12, SentFacts DEF ChanTypes, Travels
    <2> QED
        BY <1>5, <1>12, <2>1 DEF Mild, p
<1>13. CASE Raised(chan) /\ Replace(n, i, [c EXCEPT !.timer = "dead"])
    <2>1. Flows /\ \A m \in Nodes : \A q : Travels(m, q)' => Travels(m, q)
        BY <1>10, <1>13, RaisedFacts DEF ChanTypes, Travels
    <2> QED
        BY <1>9, <1>13, <2>1 DEF Mild
<1> QED
    BY <1>11, <1>12, <1>13

LEMMA MildBecomes ==
    ASSUME PairInv, NEW n \in Nodes, NEW i \in Ids(n), NEW c, Mild(n, i, c)
    PROVE  Becomes(n, i, c)
<1>1. Becomes(n, i, conn[n][i])
    BY Remains
<1> QED
    BY <1>1 DEF Becomes, Mild

LEMMA MildPairs ==
    ASSUME PairInv, Flows, NEW n \in Nodes, NEW i \in Ids(n), NEW c, Mild(n, i, c),
           Replace(n, i, c),
           \A m \in Nodes : \A q : Travels(m, q)' =>
                Travels(m, q) \/ (m = n /\ Sends(n, i, c, q))
    PROVE  PairInv'
BY MildBecomes, ReplacePairs

LEMMA MildStepPairs == ASSUME PairInv, NEW n \in Nodes, MildStep(n) PROVE PairInv'
<1>1. PICK i \in Ids(n), c \in Connections :
        /\ Mild(n, i, c) /\ Replace(n, i, c) /\ Flows
        /\ \A m \in Nodes : \A q : Travels(m, q)' =>
                Travels(m, q) \/ (m = n /\ q.code = "close")
    BY DEF MildStep
<1>2. \A q : q.code = "close" => Sends(n, i, c, q)
    BY DEF Sends
<1> QED
    BY <1>1, <1>2, MildPairs

LEMMA RecvReqAckPairs ==
    ASSUME PairInv, Clean, NEW n \in Nodes, RecvReqAck(n) PROVE PairInv'
<1> DEFINE w == Waiting(n)
           o == Peer(n)
           j == w.src
<1>1. PICK i \in Ids(n) :
        LET c == Heard(conn[n][i])
            bound == [c EXCEPT !.remote = Remote(w)]
        IN  /\ Receiving(n) /\ For(n, i) /\ w.code = "req_ack" /\ Opening(c)
            /\ \/ /\ Sent(Rest(n), n, Packet("open_ack", i, bound.remote))
                  /\ \/ Replace(n, i, Opened(bound))
                     \/ Backpressure /\ Replace(n, i, [bound EXCEPT !.handler = "opening"])
               \/ Raised(Rest(n)) /\ Replace(n, i, bound)
            /\ UNCHANGED <<listening, lost>>
    BY DEF RecvReqAck
<1> DEFINE old == conn[n][i]
           bound == [Heard(old) EXCEPT !.remote = j]
           p == Packet("open_ack", i, bound.remote)
<1>2. old \in Connections /\ i \in Nat /\ i # 0 /\ o \in Nodes /\ Peer(o) = n
    BY IdsFacts, Peers DEF PairInv
<1>3. w \in Packets /\ Travels(o, w) /\ w.dst = i /\ w.code = "req_ack" /\ j \in Nat
    BY <1>1, WaitingFacts DEF PairInv, For, Packets
<1>4. j \in Ids(o) /\ j # 0 /\ conn[o][j].remote = i
    BY <1>2, <1>3, IdsFacts DEF PairInv, PacketsSound, PacketSound
<1>5. old.state = "OPENING" /\ old.handler = "none" /\ Receiving(n)
    <2>1. Heard(old).state = "OPENING" /\ Receiving(n)
        BY <1>1 DEF Opening
    <2>2. Heard(old).state = old.state
        BY <1>2 DEF Heard, Connections
    <2> QED
        BY <2>1, <2>2 DEF Receiving
<1>6. /\ bound \in Connections /\ bound.remote = j /\ bound.opener = old.opener
      /\ bound.state = "OPENING" /\ bound.handler = "none"
      /\ bound.future = old.future /\ bound.listed = old.listed /\ bound.made = old.made
    <2>1. bound \in Connections
        BY <1>2, <1>3, Updates
    <2>2. /\ bound.remote = j /\ bound.opener = old.opener /\ bound.state = old.state
          /\ bound.handler = old.handler /\ bound.future = old.future
          /\ bound.listed = old.listed /\ bound.made = old.made
        BY <1>2 DEF Connections, Heard
    <2> QED
        BY <1>5, <2>1, <2>2
<1>7. Becomes(n, i, old)
    BY Remains
(* Who answers an opener was accepted for it.                              *)
<1>8. old.opener => old.remote = 0 /\ ~conn[o][j].opener
    BY <1>2, <1>4, <1>5, <1>7 DEF PairInv, OpenerBound, Acceptor, Becomes
<1>9. ~old.opener => old.remote = j
    <2> SUFFICES ASSUME ~old.opener PROVE old.remote = j
        OBVIOUS
    <2>1. conn[o][j].opener
        BY <1>2, <1>4 DEF PairInv, AcceptedForOpener, Acceptor
    <2> QED
        BY <1>2, <1>4, <2>1 DEF PairInv, OpenerBound, Acceptor
<1>10. \/ j = old.remote
       \/ /\ old.opener /\ old.remote = 0 /\ j \in Ids(o)
          /\ ~conn[o][j].opener /\ conn[o][j].remote = i
    BY <1>4, <1>8, <1>9
<1>11. ASSUME NEW c \in {Opened(bound), [bound EXCEPT !.handler = "opening"]}
       PROVE  Becomes(n, i, c) /\ Sends(n, i, c, p)
    <2>1. /\ c \in Connections /\ c.remote = j /\ c.opener = old.opener
          /\ c.listed = old.listed
          /\ \/ c.state = "OPEN" /\ c.handler = "none"
                /\ c.future = IF old.future = "pending" THEN "done" ELSE old.future
             \/ c.state = "OPENING" /\ c.handler = "opening" /\ c.future = old.future
        <3>1. CASE c = Opened(bound)
            <4>1. c \in Connections
                BY <1>6, <3>1, Updates
            <4>2. /\ c.remote = bound.remote /\ c.opener = bound.opener
                  /\ c.listed = bound.listed /\ c.state = "OPEN" /\ c.handler = "none"
                  /\ c.future = IF bound.future = "pending" THEN "done" ELSE bound.future
                BY <1>6, <3>1 DEF Opened, Connections
            <4> QED
                BY <1>6, <4>1, <4>2
        <3>2. CASE c = [bound EXCEPT !.handler = "opening"]
            <4>1. c \in Connections
                BY <1>6, <3>2, Updates
            <4>2. /\ c.remote = bound.remote /\ c.opener = bound.opener
                  /\ c.listed = bound.listed /\ c.state = bound.state
                  /\ c.handler = "opening" /\ c.future = bound.future
                BY <1>6, <3>2 DEF Connections
            <4> QED
                BY <1>6, <4>1, <4>2
        <3> QED
            BY <1>11, <3>1, <3>2
    <2>2. Becomes(n, i, c)
        BY <1>4, <1>7, <1>10, <2>1 DEF Becomes
    <2>3. Sends(n, i, c, p)
        BY <1>4, <1>6, <2>1 DEF Sends, Packet
    <2> QED
        BY <2>2, <2>3
<1>12. p \in Packets
    BY <1>2, <1>3, <1>6 DEF Packet, Packets, Codes
<1>13. UNCHANGED lost
    BY <1>1
<1>14. CASE /\ Sent(Rest(n), n, p)
            /\ \E c \in {Opened(bound), [bound EXCEPT !.handler = "opening"]} :
                    Replace(n, i, c)
    <2>1. Flows /\ \A m \in Nodes : \A q : Travels(m, q)' => Travels(m, q) \/ (m = n /\ q = p)
        BY <1>5, <1>12, <1>13, <1>14, SentFacts, WaitingFacts DEF PairInv
    <2> HIDE DEF bound, old, p
    <2> QED
        BY <1>11, <1>14, <2>1, ReplacePairs
<1>15. CASE Raised(Rest(n)) /\ Replace(n, i, bound)
    <2>1. /\ Flows /\ failed' # failed
          /\ \A m \in Nodes : \A q : Travels(m, q)' => Travels(m, q)
        BY <1>5, <1>13, <1>15, RaisedFacts, WaitingFacts DEF PairInv
    <2>2. conn'[n][i] = bound /\ Ids(n)' = Ids(n)
        BY <1>6, <1>15, ReplaceFacts DEF PairInv
    <2>3. NoneHalfBound'
        BY <2>1 DEF Clean
    <2>4. i \in Ids(n)'
        BY <1>4, <2>2
    <2>5. ~(bound.opener /\ bound.remote # 0 /\ bound.state = "OPENING") \/ bound.handler # "none"
        BY <2>2, <2>3, <2>4 DEF NoneHalfBound
    <2>6. ~old.opener
        BY <1>4, <1>6, <2>5
    <2>7. Mild(n, i, bound)
        BY <1>5, <1>6, <1>9, <2>6 DEF Mild
    <2> HIDE DEF bound, old, p
    <2> QED
        BY <1>15, <2>1, <2>7, MildPairs
<1> QED
    BY <1>1, <1>14, <1>15 DEF Remote

LEMMA Untouched ==
    ASSUME PairInv, Flows, UNCHANGED conn,
           \A m \in Nodes : \A q : Travels(m, q)' => Travels(m, q)
    PROVE  PairInv'
<1>1. \A m \in Nodes : Ids(m)' = Ids(m)
    BY DEF Ids
<1>2. ConnTypes'
    BY DEF PairInv, ConnTypes
<1>3. AcceptedForOpener' /\ OpenerBound' /\ MadeIsBound'
    <2>1. AcceptedForOpener /\ OpenerBound /\ MadeIsBound
        BY DEF PairInv
    <2>2. AcceptedForOpener'
        BY <2>1 DEF AcceptedForOpener, Acceptor, Ids
    <2>3. OpenerBound'
        BY <2>1 DEF OpenerBound, Acceptor, Ids
    <2>4. MadeIsBound'
        BY <2>1 DEF MadeIsBound, Acceptor, Ids
    <2> QED
        BY <2>2, <2>3, <2>4
<1>4. BoundIsOpened' /\ FutureOfOpener' /\ WaitsTruly' /\ RaisedIsGone'
    BY <1>1 DEF PairInv, BoundIsOpened, FutureOfOpener, WaitsTruly, RaisedIsGone, Flows, ChanTypes
<1>5. \A n \in Nodes : \A p : PacketSound(n, p) => PacketSound(n, p)'
    BY <1>1 DEF PacketSound, Acceptor
<1>6. PacketsSound'
    BY <1>5 DEF PairInv, PacketsSound
<1> QED
    BY <1>2, <1>3, <1>4, <1>6 DEF PairInv, Flows

LEMMA RecvOpenAckPairs ==
    ASSUME PairInv, NEW n \in Nodes, RecvOpenAck(n) PROVE PairInv'
<1> DEFINE w == Waiting(n)
           o == Peer(n)
           j == w.src
<1>1. PICK i \in Ids(n) :
        LET c == Heard(conn[n][i])
        IN  /\ Receiving(n) /\ For(n, i) /\ w.code = "open_ack" /\ Opening(c)
            /\ Replace(n, i, [c EXCEPT !.state = "OPEN", !.made = @ + 1])
            /\ chan' = Rest(n) /\ UNCHANGED <<listening, lost, failed>>
    BY DEF RecvOpenAck
<1> DEFINE old == conn[n][i]
           c == [Heard(old) EXCEPT !.state = "OPEN", !.made = @ + 1]
<1>2. old \in Connections /\ i \in Nat /\ i # 0 /\ o \in Nodes /\ Peer(o) = n
    BY IdsFacts, Peers DEF PairInv
<1>3. w \in Packets /\ Travels(o, w) /\ w.dst = i /\ w.code = "open_ack"
    BY <1>1, WaitingFacts DEF PairInv, For
<1>4. PacketSound(o, w)
    BY <1>2, <1>3 DEF PairInv, PacketsSound
<1>5. j \in Ids(o) /\ j # 0 /\ conn[o][j].remote = i
    BY <1>2, <1>3, <1>4, IdsFacts DEF PairInv, PacketSound
<1>6. old.state = "OPENING" /\ old.handler = "none" /\ Receiving(n)
    BY <1>1, <1>2 DEF Opening, Heard, Receiving, Connections
<1>7. Becomes(n, i, old)
    BY Remains
<1>8. ~old.opener /\ conn[o][j].opener
    <2>1. CASE conn[o][j].opener
        BY <1>2, <1>5, <2>1 DEF PairInv, OpenerBound, Acceptor
    <2>2. CASE ~conn[o][j].opener
        <3>1. old.remote = j
            BY <1>2, <1>3, <1>4, <1>5, <2>2 DEF PacketSound, Acceptor
        <3>2. old.opener
            BY <1>2, <1>5, <2>2 DEF PairInv, AcceptedForOpener, Acceptor
        <3> QED
            BY <1>5, <1>6, <1>7, <3>1, <3>2 DEF Becomes
    <2> QED
        BY <2>1, <2>2
<1>9. old.remote = j
    BY <1>2, <1>5, <1>8 DEF PairInv, OpenerBound, Acceptor
<1>10. /\ c \in Connections /\ c.opener = old.opener /\ c.remote = old.remote
       /\ c.state = "OPEN" /\ c.handler = "none"
       /\ c.future = old.future /\ c.listed = old.listed
    <2>1. Heard(old) \in Connections /\ c \in Connections
        BY <1>2, Updates
    <2>2. /\ c.opener = old.opener /\ c.remote = old.remote /\ c.state = "OPEN"
          /\ c.handler = old.handler /\ c.future = old.future /\ c.listed = old.listed
        BY <1>2 DEF Heard, Connections
    <2> QED
        BY <1>6, <2>1, <2>2
<1>11. Becomes(n, i, c)
    BY <1>5, <1>7, <1>8, <1>9, <1>10 DEF Becomes
<1>12. Flows /\ \A m \in Nodes : \A q : Travels(m, q)' => Travels(m, q)
    BY <1>1, RestFacts DEF PairInv
<1>13. Replace(n, i, c)
    BY <1>1
<1> HIDE DEF c, old
<1> QED
    BY <1>11, <1>12, <1>13, ReplacePairs

LEMMA SilentPairs ==
    ASSUME PairInv, UNCHANGED netVars, NEW n \in Nodes, NEW i \in Ids(n), NEW c,
           Becomes(n, i, c), Replace(n, i, c)
    PROVE  PairInv'
<1>1. Flows /\ \A m \in Nodes : \A q : Travels(m, q)' => Travels(m, q)
    BY DEF Flows, PairInv, ChanTypes, netVars, Travels
<1> QED
    BY <1>1, ReplacePairs

LEMMA HandlerResumesPairs ==
    ASSUME PairInv, NEW n \in Nodes, HandlerResumes(n) PROVE PairInv'
<1>1. PICK i \in Ids(n) :
        /\ \/ conn[n][i].handler = "opening" /\ Replace(n, i, Opened(conn[n][i]))
           \/ conn[n][i].handler = "answering" /\ Replace(n, i, PeerClosed(conn[n][i]))
        /\ UNCHANGED <<listening, netVars>>
    BY DEF HandlerResumes
<1> DEFINE old == conn[n][i]
<1>2. old \in Connections /\ Becomes(n, i, old)
    BY Remains, IdsFacts DEF PairInv
<1>3. CASE old.handler = "opening"
    <2>1. Opened(old) \in Connections
        BY <1>2, Updates
    <2>4. LET c == Opened(old) IN
          /\ c.remote = old.remote /\ c.opener = old.opener
          /\ c.listed = old.listed /\ c.state = "OPEN" /\ c.handler = "none"
          /\ c.future = IF old.future = "pending" THEN "done" ELSE old.future
        BY <1>2 DEF Opened, Connections
    <2>2. Becomes(n, i, Opened(old))
        BY <1>2, <1>3, <2>1, <2>4 DEF Becomes
    <2>3. Replace(n, i, Opened(old)) /\ UNCHANGED netVars
        BY <1>1, <1>3
    <2> QED
        BY <2>2, <2>3, SilentPairs
<1>4. CASE old.handler = "answering"
    <2>1. Mild(n, i, PeerClosed(old))
        BY <1>2, MildUpdates
    <2>2. Replace(n, i, PeerClosed(old)) /\ UNCHANGED netVars
        BY <1>1, <1>4
    <2> QED
        BY <2>1, <2>2, MildBecomes, SilentPairs
<1> QED
    BY <1>1, <1>3, <1>4

LEMMA TickSendPairs ==
    ASSUME PairInv, NEW n \in Nodes, TickSend(n) PROVE PairInv'
<1>1. PICK i \in Ids(n), c \in Connections :
        /\ Mild(n, i, c) /\ Replace(n, i, c) /\ Flows
        /\ \A m \in Nodes : \A q : Travels(m, q)' =>
                Travels(m, q) \/ (m = n /\ q = TimerPacket(n, i))
    BY TickSendMild DEF PairInv
<1> DEFINE old == conn[n][i]
<1>2. old \in Connections /\ i \in Nat /\ i # 0
    BY IdsFacts DEF PairInv
<1>3. old.remote = 0 => old.opener
    <2> SUFFICES ASSUME old.remote = 0, ~old.opener PROVE FALSE
        BY <1>2 DEF Connections
    <2>1. old.remote \in Ids(Peer(n))
        BY DEF PairInv, AcceptedForOpener
    <2> QED
        BY <2>1, IdsFacts, Peers DEF PairInv
<1>4. Sends(n, i, c, TimerPacket(n, i))
    BY <1>1, <1>2, <1>3 DEF Sends, TimerPacket, ReqAck, Packet, Mild
<1> QED
    BY <1>1, <1>4, MildPairs

LEMMA NextIntervalPairs == PairInv /\ NextInterval => PairInv'
<1> SUFFICES ASSUME PairInv, NextInterval PROVE PairInv'
    OBVIOUS
<1> DEFINE fresh(n) == [i \in Ids(n) |-> [conn[n][i] EXCEPT !.ticked = FALSE]]
<1>1. conn' = [n \in Nodes |-> fresh(n)] /\ UNCHANGED netVars
    BY DEF NextInterval
<1>2. \A n \in Nodes : \A i \in Ids(n) : [conn[n][i] EXCEPT !.ticked = FALSE] \in Connections
    <2> SUFFICES ASSUME NEW n \in Nodes, NEW i \in Ids(n)
                 PROVE  [conn[n][i] EXCEPT !.ticked = FALSE] \in Connections
        OBVIOUS
    <2>1. conn[n][i] \in Connections
        BY IdsFacts DEF PairInv
    <2> QED
        BY <2>1 DEF Connections
<1>3. ASSUME NEW n \in Nodes PROVE fresh(n) \in Seq(Connections) /\ DOMAIN fresh(n) = Ids(n)
    <2>1. Ids(n) = 1..Len(conn[n]) /\ Len(conn[n]) \in Nat
        BY IdsFacts DEF PairInv
    <2> QED
        BY <1>2, <2>1
<1>4. ConnTypes' /\ \A n \in Nodes : Ids(n)' = Ids(n)
    BY <1>1, <1>3 DEF ConnTypes, Ids
<1>5. \A n \in Nodes : \A i \in Ids(n) :
        conn'[n][i] = [conn[n][i] EXCEPT !.ticked = FALSE]
    BY <1>1
<1>6. ASSUME NEW n \in Nodes, NEW i \in Ids(n)
      PROVE  LET c == conn'[n][i]
                 old == conn[n][i]
             IN /\ c.state = old.state /\ c.opener = old.opener /\ c.remote = old.remote
                /\ c.made = old.made /\ c.handler = old.handler
                /\ c.future = old.future /\ c.listed = old.listed
    <2>1. conn[n][i] \in Connections
        BY IdsFacts DEF PairInv
    <2> DEFINE old == conn[n][i]
               c == [old EXCEPT !.ticked = FALSE]
    <2>2. /\ c.state = old.state /\ c.opener = old.opener /\ c.remote = old.remote
          /\ c.made = old.made /\ c.handler = old.handler
          /\ c.future = old.future /\ c.listed = old.listed
        BY <2>1 DEF Connections
    <2>3. conn'[n][i] = c
        BY <1>5
    <2> HIDE DEF c
    <2> QED
        BY <2>2, <2>3
<1>7. Flows /\ \A m \in Nodes : \A q : Travels(m, q)' => Travels(m, q)
    BY <1>1 DEF Flows, PairInv, ChanTypes, netVars, Travels
<1>8. AcceptedForOpener'
    BY <1>4, <1>6, Peers DEF PairInv, AcceptedForOpener, Acceptor
<1>9. OpenerBound'
    <2> SUFFICES ASSUME NEW n \in Nodes, NEW i \in Ids(n),
                        conn[n][i].opener, conn[n][i].remote # 0
                 PROVE  /\ conn[n][i].remote \in Ids(Peer(n))
                        /\ ~Acceptor(n, i)'.opener /\ Acceptor(n, i)'.remote = i
        BY <1>4, <1>6, Peers DEF OpenerBound
    <2>1. /\ conn[n][i].remote \in Ids(Peer(n))
          /\ ~Acceptor(n, i).opener /\ Acceptor(n, i).remote = i
        BY DEF PairInv, OpenerBound
    <2>2. Acceptor(n, i)' = conn'[Peer(n)][conn[n][i].remote]
        BY <1>6 DEF Acceptor
    <2> QED
        BY <1>6, <2>1, <2>2, Peers DEF Acceptor
<1>10. \A n \in Nodes : \A i \in Ids(n) : ~conn[n][i].opener =>
        Acceptor(n, i)'.remote = Acceptor(n, i).remote
    BY <1>6, Peers DEF PairInv, AcceptedForOpener, Acceptor
<1>11. MadeIsBound'
    BY <1>4, <1>6, <1>10 DEF PairInv, MadeIsBound
<1>12. BoundIsOpened' /\ FutureOfOpener' /\ WaitsTruly' /\ RaisedIsGone'
    <2>1. failed' = failed
        BY <1>1 DEF netVars
    <2> QED
        BY <1>4, <1>6, <2>1 DEF PairInv, BoundIsOpened, FutureOfOpener, WaitsTruly, RaisedIsGone
<1>13. \A n \in Nodes : \A p : PacketSound(n, p) => PacketSound(n, p)'
    BY <1>4, <1>6, <1>10 DEF PacketSound
<1>14. PacketsSound'
    BY <1>7, <1>13 DEF PairInv, PacketsSound
<1> QED
    BY <1>4, <1>7, <1>8, <1>9, <1>11, <1>12, <1>14 DEF PairInv, Flows

-------------------------------------------------------------------------------
LEMMA InitPairs == Init => PairInv
<1> SUFFICES ASSUME Init PROVE PairInv
    OBVIOUS
<1>1. \A n \in Nodes : conn[n] = <<>> /\ chan[n] = <<>> /\ Ids(n) = {}
    BY DEF Init, Ids
<1>2. ConnTypes /\ ChanTypes /\ \A n \in Nodes : \A p : ~Travels(n, p)
    BY <1>1 DEF Init, ConnTypes, ChanTypes, Travels
<1> QED
    BY <1>1, <1>2 DEF PairInv, AcceptedForOpener, OpenerBound, MadeIsBound, BoundIsOpened,
        FutureOfOpener, WaitsTruly, RaisedIsGone, PacketsSound

LEMMA NeverRaises == ASSUME MaxFail = 0, ChanTypes, [Next]_vars PROVE UNCHANGED failed
<1>1. \A c : ~Raised(c)
    BY DEF ChanTypes, Raised
<1>2. ASSUME NEW n \in Nodes, Program(n) PROVE UNCHANGED failed
    BY <1>1, <1>2 DEF Program, OpenConnection, StopListening, Close, Sent, netVars
<1>3. ASSUME NEW n \in Nodes, Receive(n) PROVE UNCHANGED failed
    <2>1. CASE RecvRequest(n) \/ RecvDropped(n) \/ RecvNoted(n)
        BY <1>1, <2>1 DEF RecvRequest, RecvDropped, RecvNoted, Sent
    <2>2. CASE RecvReqAck(n)
        BY <1>1, <2>2 DEF RecvReqAck, Sent
    <2>3. CASE RecvOpenAck(n)
        BY <1>1, <2>3 DEF RecvOpenAck, Sent
    <2>4. CASE RecvClose(n)
        BY <1>1, <2>4 DEF RecvClose, Sent
    <2> QED
        BY <1>3, <2>1, <2>2, <2>3, <2>4 DEF Receive
<1>4. ASSUME NEW n \in Nodes, Step(n) PROVE UNCHANGED failed
    BY <1>1, <1>3, <1>4 DEF Step, HandlerResumes, CloseConnection, CloseResumes, TickTimeout,
        TickSend, Sent, netVars
<1> QED
    BY <1>2, <1>4 DEF Next, NextInterval, Lose, netVars, vars

LEMMA NextPairs == PairInv /\ Clean /\ [Next]_vars => PairInv'
<1> SUFFICES ASSUME PairInv, Clean, [Next]_vars PROVE PairInv'
    OBVIOUS
<1>1. ASSUME NEW n \in Nodes, Program(n) PROVE PairInv'
    <2>1. CASE StopListening(n)
        <3>1. Flows /\ \A m \in Nodes : \A q : Travels(m, q)' => Travels(m, q)
            BY <2>1 DEF StopListening, netVars, PairInv, ChanTypes, Travels, Flows
        <3> QED
            BY <2>1, <3>1, Untouched DEF StopListening
    <2> QED
        BY <1>1, <2>1, OpenConnectionPairs, MildSteps, MildStepPairs DEF Program, PairInv
<1>2. ASSUME NEW n \in Nodes, Step(n) PROVE PairInv'
    <2>1. CASE RecvDropped(n)
        <3>1. Flows /\ \A m \in Nodes : \A q : Travels(m, q)' => Travels(m, q)
            BY <2>1, RestFacts DEF PairInv, RecvDropped
        <3> QED
            BY <2>1, <3>1, Untouched DEF RecvDropped
    <2>2. CASE \/ RecvNoted(n) \/ RecvClose(n)
               \/ CloseConnection(n) \/ CloseResumes(n) \/ TickTimeout(n)
        BY <2>2, MildSteps, MildStepPairs DEF PairInv
    <2>3. CASE RecvRequest(n) \/ RecvReqAck(n) \/ RecvOpenAck(n)
        BY <2>3, RecvRequestPairs, RecvReqAckPairs, RecvOpenAckPairs
    <2> QED
        BY <1>2, <2>1, <2>2, <2>3, HandlerResumesPairs, TickSendPairs DEF Step, Receive
<1>3. ASSUME NEW n \in Nodes, Lose(n) PROVE PairInv'
    BY <1>3, LoseFacts, Untouched DEF PairInv, Lose
<1>4. CASE UNCHANGED vars
    <2>1. Flows /\ \A m \in Nodes : \A q : Travels(m, q)' => Travels(m, q)
        BY <1>4 DEF vars, netVars, PairInv, ChanTypes, Travels, Flows
    <2> QED
        BY <1>4, <2>1, Untouched DEF vars
<1> QED
    BY <1>1, <1>2, <1>3, <1>4, NextIntervalPairs DEF Next

LEMMA HalfBoundByReqAck ==
    ASSUME PairInv, [Next]_vars, ~NoneHalfBound'
    PROVE  failed' # failed /\ \E n \in Nodes : RecvReqAck(n)
<1>1. PairInv' => NoneHalfBound'
    BY DEF PairInv, BoundIsOpened, NoneHalfBound
<1> QED
    BY <1>1, NextPairs DEF Clean

LEMMA PairsInvariant == ASSUME MaxFail = 0 PROVE Spec => []PairInv
<1>1. ChanTypes /\ [Next]_vars => UNCHANGED failed
    BY NeverRaises
<1>2. PairInv /\ [Next]_vars => PairInv'
    BY <1>1, NextPairs DEF Clean, PairInv
<1> QED
    BY <1>2, InitPairs, PTL DEF Spec

(* Sends may raise, anywhere but where an opener has just been bound.      *)
LEMMA PairsUnlessHalfBound == Spec /\ []NoneHalfBound => []PairInv
<1>1. PairInv /\ NoneHalfBound' /\ [Next]_vars => PairInv'
    BY NextPairs DEF Clean
<1> QED
    BY <1>1, InitPairs, PTL DEF Spec

(* Whatever sends raise and suspend, however many connections both nodes   *)
(* open to each other: an opener and the accepted connection it is bound to*)
(* name each other, and only that one is handed to the accepting program,  *)
(* unless an opener was left bound and not OPEN by a send that raised in   *)
(* the one place where that does harm, adsp.py:452.                        *)
THEOREM PairedDespiteRaises == Spec /\ []NoneHalfBound => []Paired
<1>1. PairInv => Paired
    BY DEF PairInv, Paired, MadeIsBound, OnlyBoundIsMade
<1> QED
    BY <1>1, PairsUnlessHalfBound, PTL

(* However many connections both nodes open to each other at a time, from  *)
(* one id space, with requests repeated and packets late or lost: an       *)
(* opener and the accepted connection it is bound to name each other, and  *)
(* only that one is handed to the accepting program.                       *)
THEOREM PairedAlways == ASSUME MaxFail = 0 PROVE Spec => []Paired
<1>1. PairInv => Paired
    BY DEF PairInv, Paired, MadeIsBound, OnlyBoundIsMade
<1> QED
    BY <1>1, PairsInvariant, PTL

(* open_connection tells its caller the truth, likewise.                   *)
THEOREM OpenTellsTheTruth == ASSUME MaxFail = 0 PROVE Spec => []OpenFaithful
<1>1. PairInv /\ failed = 0 => OpenFaithful
    BY DEF PairInv, WaitsTruly, RaisedIsGone, OpenFaithful
<1>2. Init => failed = 0
    BY DEF Init
<1>3. ChanTypes /\ failed = 0 /\ [Next]_vars => (failed = 0)'
    BY NeverRaises
<1>4. PairInv => ChanTypes
    BY DEF PairInv
<1> QED
    BY <1>1, <1>2, <1>3, <1>4, PairsInvariant, PTL DEF Spec
-------------------------------------------------------------------------------
(* Who is bound to whom, whatever raises, and wherever it does.            *)

(* One opened the connection and the other was accepted for it.            *)
Mates(n, i, j) ==
    /\ i \in Ids(n) /\ j \in Ids(Peer(n))
    /\ \/ conn[n][i].opener /\ ~conn[Peer(n)][j].opener /\ conn[Peer(n)][j].remote = i
       \/ ~conn[n][i].opener /\ conn[Peer(n)][j].opener /\ conn[n][i].remote = j

(* A packet names mates.                                                   *)
NamesMates(n, p) ==
    /\ p.code = "req" => p.src \in Ids(n) /\ conn[n][p.src].opener
    /\ p.code \in {"req_ack", "open_ack"} => Mates(n, p.src, p.dst)

BindInv ==
    /\ ConnTypes /\ ChanTypes
    /\ \A n \in Nodes : \A i \in Ids(n) :
        ~conn[n][i].opener \/ conn[n][i].remote # 0 => Mates(n, i, conn[n][i].remote)
    /\ \A n \in Nodes : \A p : Travels(n, p) => NamesMates(n, p)

(* An opener may be bound to another mate; an accepted connection never.   *)
Binds(n, i, c) ==
    LET old == conn[n][i]
    IN  /\ c.opener = old.opener
        /\ c.remote = old.remote \/ (old.opener /\ Mates(n, i, c.remote))

LEMMA StepBinds ==
    ASSUME BindInv, ConnTypes', ChanTypes',
           \A n \in Nodes : \A i \in Ids(n) : i \in Ids(n)' /\ Binds(n, i, conn'[n][i]),
           \A n \in Nodes : \A i \in Ids(n)' : i \notin Ids(n) =>
                \/ conn'[n][i].opener /\ conn'[n][i].remote = 0
                \/ Mates(n, i, conn[n][i].remote)',
           \A n \in Nodes : \A p : Travels(n, p)' => NamesMates(n, p) \/ NamesMates(n, p)'
    PROVE  BindInv'
<1>1. ASSUME NEW n \in Nodes, NEW i, NEW j, Mates(n, i, j) PROVE Mates(n, i, j)'
    <2>1. /\ i \in Ids(n) /\ i \in Ids(n)' /\ Binds(n, i, conn'[n][i])
          /\ j \in Ids(Peer(n)) /\ j \in Ids(Peer(n))' /\ Binds(Peer(n), j, conn'[Peer(n)][j])
        BY <1>1, Peers DEF Mates
    <2> QED
        BY <1>1, <2>1 DEF Mates, Binds
<1>2. ASSUME NEW n \in Nodes, NEW i \in Ids(n)', ~conn'[n][i].opener \/ conn'[n][i].remote # 0
      PROVE  Mates(n, i, conn[n][i].remote)'
    <2> PICK r : r = conn'[n][i].remote
        OBVIOUS
    <2>1. CASE i \in Ids(n)
        <3>1. Binds(n, i, conn'[n][i])
            BY <2>1
        <3>2. Mates(n, i, r)
            BY <1>2, <2>1, <3>1 DEF BindInv, Binds
        <3>3. Mates(n, i, r)'
            BY <1>1, <3>2
        <3> QED
            BY <3>3 DEF Mates
    <2>2. CASE i \notin Ids(n)
        BY <1>2, <2>2
    <2> QED
        BY <2>1, <2>2
<1>3. ASSUME NEW n \in Nodes, NEW p, NamesMates(n, p) PROVE NamesMates(n, p)'
    <2>1. p.code = "req" => p.src \in Ids(n)' /\ conn'[n][p.src].opener
        BY <1>3 DEF NamesMates, Binds
    <2>2. p.code \in {"req_ack", "open_ack"} => Mates(n, p.src, p.dst)'
        BY <1>1, <1>3 DEF NamesMates
    <2> QED
        BY <2>1, <2>2 DEF NamesMates
<1> QED
    BY <1>2, <1>3 DEF BindInv

LEMMA ReplaceBinds ==
    ASSUME BindInv, ChanTypes', NEW n \in Nodes, NEW i \in Ids(n), NEW c \in Connections,
           Binds(n, i, c), Replace(n, i, c),
           \A m \in Nodes : \A p : Travels(m, p)' => Travels(m, p) \/ NamesMates(m, p)
    PROVE  BindInv'
<1>1. /\ ConnTypes' /\ \A m \in Nodes : Ids(m)' = Ids(m)
      /\ conn'[n][i] = c
      /\ \A m \in Nodes : \A j \in Ids(m) : m # n \/ j # i => conn'[m][j] = conn[m][j]
    BY ReplaceFacts DEF BindInv
<1>2. \A m \in Nodes : \A j \in Ids(m) : Binds(m, j, conn'[m][j])
    BY <1>1 DEF Binds
<1>3. \A m \in Nodes : \A p : Travels(m, p)' => NamesMates(m, p)
    BY DEF BindInv
<1> QED
    BY <1>1, <1>2, <1>3, StepBinds

LEMMA AppendBinds ==
    ASSUME BindInv, ChanTypes', NEW n \in Nodes, NEW c \in Connections, Adds(n, c),
           \/ c.opener /\ c.remote = 0
           \/ /\ ~c.opener /\ c.remote \in Ids(Peer(n))
              /\ conn[Peer(n)][c.remote].opener,
           \A m \in Nodes : \A p : Travels(m, p)' =>
                \/ Travels(m, p)
                \/ /\ m = n /\ p.src = Id(n)
                   /\ \/ p.code = "req" /\ c.opener
                      \/ p.code = "req_ack" /\ ~c.opener /\ p.dst = c.remote
    PROVE  BindInv'
<1> PICK i : i = Id(n)
    OBVIOUS
<1>1. /\ ConnTypes'
      /\ Ids(n)' = Ids(n) \cup {i} /\ Ids(Peer(n))' = Ids(Peer(n))
      /\ conn'[n][i] = c
      /\ \A m \in Nodes : \A j \in Ids(m) : conn'[m][j] = conn[m][j]
    BY AppendFacts DEF BindInv
<1>2. \A m \in Nodes : \A j \in Ids(m) : j \in Ids(m)' /\ Binds(m, j, conn'[m][j])
    BY <1>1, Peers DEF Binds
<1>3. \A m \in Nodes : \A j \in Ids(m)' : j \notin Ids(m) => m = n /\ j = i
    BY <1>1, Peers
<1>4. ~c.opener => Mates(n, i, c.remote)'
    BY <1>1, Peers DEF Mates
<1>5. \A m \in Nodes : \A p : Travels(m, p)' => NamesMates(m, p) \/ NamesMates(m, p)'
    <2> SUFFICES ASSUME NEW m \in Nodes, NEW p, Travels(m, p)', ~Travels(m, p)
                 PROVE  NamesMates(m, p)'
        BY DEF BindInv
    <2>1. /\ m = n /\ p.src = i
          /\ \/ p.code = "req" /\ c.opener
             \/ p.code = "req_ack" /\ ~c.opener /\ p.dst = c.remote
        OBVIOUS
    <2> QED
        BY <1>1, <1>4, <2>1 DEF NamesMates
<1>6. (c.opener /\ c.remote = 0) \/ Mates(n, i, conn[n][i].remote)'
    BY <1>1, <1>4 DEF Mates
<1> QED
    BY <1>1, <1>2, <1>3, <1>5, <1>6, StepBinds

LEMMA SameBinds ==
    ASSUME BindInv, ConnTypes', ChanTypes',
           \A m \in Nodes : Ids(m)' = Ids(m) /\ \A j \in Ids(m) :
                /\ conn'[m][j].opener = conn[m][j].opener
                /\ conn'[m][j].remote = conn[m][j].remote,
           \A m \in Nodes : \A p : Travels(m, p)' => Travels(m, p)
    PROVE  BindInv'
<1>1. \A m \in Nodes : \A j \in Ids(m) : Binds(m, j, conn'[m][j])
    BY DEF Binds
<1>2. \A m \in Nodes : \A p : Travels(m, p)' => NamesMates(m, p)
    BY DEF BindInv
<1> QED
    BY <1>1, <1>2, StepBinds

LEMMA OpenConnectionBinds ==
    ASSUME BindInv, NEW n \in Nodes, OpenConnection(n) PROVE BindInv'
<1>1. PICK f \in {"pending", "raised"} :
        /\ Adds(n, NewConn(TRUE, 0, f)) /\ UNCHANGED lost
        /\ Sent(chan, n, Packet("req", Id(n), 0)) \/ Raised(chan)
    BY DEF OpenConnection, Adds
<1> DEFINE c == NewConn(TRUE, 0, f)
           p == Packet("req", Id(n), 0)
<1>2. c \in Connections /\ c.opener /\ c.remote = 0
    BY NewConns DEF NewConn
<1>3. p \in Packets /\ p.code = "req" /\ p.src = Id(n)
    BY IdsFacts DEF BindInv, Packet, Packets, Codes
<1>4. Adds(n, c) /\ (Sent(chan, n, p) \/ Raised(chan)) /\ UNCHANGED lost
    BY <1>1
<1> HIDE DEF c, p
<1>5. Flows /\ \A m \in Nodes : \A q : Travels(m, q)' => Travels(m, q) \/ (m = n /\ q = p)
    <2>1. ChanTypes /\ UNCHANGED lost
        BY <1>4 DEF BindInv
    <2>2. /\ chan \in [Nodes -> Seq(Packets)]
          /\ \A m \in Nodes : \A k \in 1..Len(chan[m]) : Travels(m, chan[m][k])
        BY <2>1 DEF ChanTypes, Travels
    <2>3. CASE Sent(chan, n, p)
        BY <1>3, <2>3, <2>1, <2>2, SentFacts
    <2>4. CASE Raised(chan)
        BY <2>4, <2>1, <2>2, RaisedFacts
    <2> QED
        BY <1>4, <2>3, <2>4
<1> QED
    BY <1>2, <1>3, <1>4, <1>5, AppendBinds DEF Flows

LEMMA RecvRequestBinds ==
    ASSUME BindInv, NEW n \in Nodes, RecvRequest(n) PROVE BindInv'
<1> DEFINE w == Waiting(n)
           c == NewConn(FALSE, w.src, "none")
           p == Packet("req_ack", Id(n), w.src)
<1>1. /\ Receiving(n) /\ w.code = "req"
      /\ Adds(n, c) /\ UNCHANGED lost
      /\ Sent(Rest(n), n, p) \/ Raised(Rest(n))
    BY DEF RecvRequest, Adds
<1>2. w \in Packets /\ Travels(Peer(n), w)
    BY <1>1, WaitingFacts DEF BindInv
<1>3. w.src \in Nat /\ w.src \in Ids(Peer(n)) /\ conn[Peer(n)][w.src].opener
    BY <1>1, <1>2, Peers DEF BindInv, NamesMates, Packets
<1>4. p \in Packets /\ p.code = "req_ack" /\ p.src = Id(n) /\ p.dst = w.src
    BY <1>3, IdsFacts DEF BindInv, Packet, Packets, Codes
<1>5. c \in Connections /\ ~c.opener /\ c.remote = w.src
    BY <1>3, NewConns DEF NewConn
<1> HIDE DEF c, p, w
<1>6. Flows /\ \A m \in Nodes : \A q : Travels(m, q)' => Travels(m, q) \/ (m = n /\ q = p)
    BY <1>1, <1>4, SentFacts, RaisedFacts, WaitingFacts DEF BindInv
<1> QED
    BY <1>1, <1>3, <1>4, <1>5, <1>6, AppendBinds DEF Flows

LEMMA RecvReqAckBinds ==
    ASSUME BindInv, NEW n \in Nodes, RecvReqAck(n) PROVE BindInv'
<1> DEFINE w == Waiting(n)
           j == w.src
<1>1. PICK i \in Ids(n) :
        LET c == Heard(conn[n][i])
            bound == [c EXCEPT !.remote = Remote(w)]
        IN  /\ Receiving(n) /\ For(n, i) /\ w.code = "req_ack"
            /\ Sent(Rest(n), n, Packet("open_ack", i, bound.remote)) \/ Raised(Rest(n))
            /\ \/ Replace(n, i, Opened(bound))
               \/ Replace(n, i, [bound EXCEPT !.handler = "opening"])
               \/ Replace(n, i, bound)
            /\ UNCHANGED lost
    BY DEF RecvReqAck
<1> DEFINE old == conn[n][i]
           bound == [Heard(old) EXCEPT !.remote = j]
           p == Packet("open_ack", i, j)
<1>2. old \in Connections /\ i \in Nat /\ i # 0
    BY IdsFacts DEF BindInv
<1>3. w \in Packets /\ Travels(Peer(n), w) /\ w.dst = i /\ w.code = "req_ack" /\ j \in Nat
    BY <1>1, WaitingFacts DEF BindInv, For, Packets
<1>4. Mates(Peer(n), j, i)
    BY <1>3, Peers DEF BindInv, NamesMates
<1>5. Mates(n, i, j)
    BY <1>4, Peers DEF Mates
<1>6. ~old.opener => old.remote = j
    BY <1>5 DEF Mates
<1>7. bound \in Connections /\ bound.remote = j /\ bound.opener = old.opener
    <2>1. Heard(old) \in Connections
        BY <1>2, Updates
    <2>2. bound \in Connections
        BY <1>3, <2>1, Updates
    <2>3. bound.remote = j /\ bound.opener = old.opener
        BY <1>2 DEF Connections, Heard
    <2> QED
        BY <2>2, <2>3
<1>8. p \in Packets /\ p.code = "open_ack" /\ p.src = i /\ p.dst = j
    BY <1>2, <1>3 DEF Packet, Packets, Codes
<1>9. /\ Receiving(n) /\ UNCHANGED lost
      /\ Sent(Rest(n), n, p) \/ Raised(Rest(n))
    BY <1>1, <1>7 DEF Remote
<1>10. \/ Replace(n, i, Opened(bound))
       \/ Replace(n, i, [bound EXCEPT !.handler = "opening"])
       \/ Replace(n, i, bound)
    BY <1>1 DEF Remote
<1> HIDE DEF bound
<1>11. PICK c \in Connections :
        Replace(n, i, c) /\ c.remote = bound.remote /\ c.opener = bound.opener
    <2>1. Opened(bound) \in Connections /\ [bound EXCEPT !.handler = "opening"] \in Connections
        BY <1>7, Updates
    <2>2. Opened(bound).remote = bound.remote /\ Opened(bound).opener = bound.opener
        BY <1>7 DEF Opened, Connections
    <2>3. LET d == [bound EXCEPT !.handler = "opening"]
          IN  d.remote = bound.remote /\ d.opener = bound.opener
        BY <1>7 DEF Connections
    <2> QED
        BY <1>7, <1>10, <2>1, <2>2, <2>3
<1>12. Binds(n, i, c)
    BY <1>2, <1>5, <1>6, <1>7, <1>11 DEF Binds, Connections
<1> HIDE DEF p, old, w
<1>13. Flows /\ \A m \in Nodes : \A q : Travels(m, q)' => Travels(m, q) \/ (m = n /\ q = p)
    BY <1>8, <1>9, SentFacts, RaisedFacts, WaitingFacts DEF BindInv
<1>14. NamesMates(n, p)
    BY <1>5, <1>8 DEF NamesMates
<1> QED
    BY <1>11, <1>12, <1>13, <1>14, ReplaceBinds DEF Flows

LEMMA RecvOpenAckBinds ==
    ASSUME BindInv, NEW n \in Nodes, RecvOpenAck(n) PROVE BindInv'
<1>1. PICK i \in Ids(n) :
        /\ Receiving(n) /\ chan' = Rest(n) /\ UNCHANGED <<lost, failed>>
        /\ Replace(n, i, [Heard(conn[n][i]) EXCEPT !.state = "OPEN", !.made = @ + 1])
    BY DEF RecvOpenAck
<1> DEFINE old == conn[n][i]
           c == [Heard(old) EXCEPT !.state = "OPEN", !.made = @ + 1]
<1>2. old \in Connections
    BY IdsFacts DEF BindInv
<1>3. c \in Connections
    <2>1. Heard(old) \in Connections
        BY <1>2, Updates
    <2> QED
        BY <2>1, Updates
<1>4. Binds(n, i, c)
    BY <1>2 DEF Binds, Heard, Connections
<1>5. Replace(n, i, c)
    BY <1>1
<1>6. Flows /\ \A m \in Nodes : \A q : Travels(m, q)' => Travels(m, q)
    BY <1>1, RestFacts DEF BindInv
<1> HIDE DEF c
<1> QED
    BY <1>3, <1>4, <1>5, <1>6, ReplaceBinds DEF Flows

LEMMA HandlerResumesBinds ==
    ASSUME BindInv, NEW n \in Nodes, HandlerResumes(n) PROVE BindInv'
<1>1. PICK i \in Ids(n) :
        /\ Replace(n, i, Opened(conn[n][i])) \/ Replace(n, i, PeerClosed(conn[n][i]))
        /\ UNCHANGED netVars
    BY DEF HandlerResumes
<1>2. conn[n][i] \in Connections
    BY IdsFacts DEF BindInv
<1>3. Opened(conn[n][i]) \in Connections /\ PeerClosed(conn[n][i]) \in Connections
    BY <1>2, Updates
<1>4. Binds(n, i, Opened(conn[n][i])) /\ Binds(n, i, PeerClosed(conn[n][i]))
    BY <1>2 DEF Binds, Opened, PeerClosed, Connections
<1>5. ChanTypes' /\ \A m \in Nodes : \A q : Travels(m, q)' => Travels(m, q)
    BY <1>1 DEF BindInv, ChanTypes, netVars, Travels
<1> QED
    BY <1>1, <1>3, <1>4, <1>5, ReplaceBinds

LEMMA MildStepBinds == ASSUME BindInv, NEW n \in Nodes, MildStep(n) PROVE BindInv'
<1>1. PICK i \in Ids(n), c \in Connections :
        /\ Mild(n, i, c) /\ Replace(n, i, c) /\ Flows
        /\ \A m \in Nodes : \A q : Travels(m, q)' =>
                Travels(m, q) \/ (m = n /\ q.code = "close")
    BY DEF MildStep
<1>2. \A q : q.code = "close" => NamesMates(n, q)
    BY DEF NamesMates
<1>3. Binds(n, i, c)
    BY <1>1 DEF Mild, Binds
<1> QED
    BY <1>1, <1>2, <1>3, ReplaceBinds DEF Flows

LEMMA TickSendBinds ==
    ASSUME BindInv, NEW n \in Nodes, TickSend(n) PROVE BindInv'
<1>1. PICK i \in Ids(n), c \in Connections :
        /\ Mild(n, i, c) /\ Replace(n, i, c) /\ Flows
        /\ \A m \in Nodes : \A q : Travels(m, q)' =>
                Travels(m, q) \/ (m = n /\ q = TimerPacket(n, i))
    BY TickSendMild DEF BindInv
<1> DEFINE old == conn[n][i]
<1>2. ~old.opener \/ old.remote # 0 => Mates(n, i, old.remote)
    BY DEF BindInv
<1>3. old.remote = 0 => old.opener
    BY <1>2, IdsFacts, Peers DEF BindInv, Mates
<1>4. NamesMates(n, TimerPacket(n, i))
    BY <1>2, <1>3 DEF NamesMates, TimerPacket, ReqAck, Packet
<1>5. Binds(n, i, c)
    BY <1>1 DEF Mild, Binds
<1> QED
    BY <1>1, <1>4, <1>5, ReplaceBinds DEF Flows

LEMMA NextIntervalBinds == ASSUME BindInv, NextInterval PROVE BindInv'
<1> DEFINE fresh(n) == [i \in Ids(n) |-> [conn[n][i] EXCEPT !.ticked = FALSE]]
<1>1. conn' = [n \in Nodes |-> fresh(n)] /\ UNCHANGED netVars
    BY DEF NextInterval
<1>2. ASSUME NEW n \in Nodes, NEW i \in Ids(n)
      PROVE  /\ [conn[n][i] EXCEPT !.ticked = FALSE] \in Connections
             /\ [conn[n][i] EXCEPT !.ticked = FALSE].opener = conn[n][i].opener
             /\ [conn[n][i] EXCEPT !.ticked = FALSE].remote = conn[n][i].remote
    <2>1. conn[n][i] \in Connections
        BY IdsFacts DEF BindInv
    <2> QED
        BY <2>1 DEF Connections
<1>3. \A n \in Nodes : fresh(n) \in Seq(Connections)
    <2> SUFFICES ASSUME NEW n \in Nodes PROVE fresh(n) \in Seq(Connections)
        OBVIOUS
    <2>1. Ids(n) = 1..Len(conn[n]) /\ Len(conn[n]) \in Nat
        BY IdsFacts DEF BindInv
    <2> QED
        BY <1>2, <2>1
<1>4. ConnTypes' /\ \A n \in Nodes : Ids(n)' = Ids(n)
    BY <1>1, <1>3 DEF ConnTypes, Ids
<1>5. \A n \in Nodes : \A i \in Ids(n) : conn'[n][i] = [conn[n][i] EXCEPT !.ticked = FALSE]
    BY <1>1
<1>6. ChanTypes' /\ \A m \in Nodes : \A q : Travels(m, q)' => Travels(m, q)
    BY <1>1 DEF BindInv, ChanTypes, netVars, Travels
<1> HIDE DEF fresh
<1>7. ASSUME NEW m \in Nodes, NEW j \in Ids(m)
      PROVE  /\ conn'[m][j].opener = conn[m][j].opener
             /\ conn'[m][j].remote = conn[m][j].remote
    <2>1. conn'[m][j] = [conn[m][j] EXCEPT !.ticked = FALSE]
        BY <1>5
    <2> QED
        BY <1>2, <2>1
<1> QED
    BY <1>4, <1>6, <1>7, SameBinds

LEMMA UntouchedBinds ==
    ASSUME BindInv, Flows, UNCHANGED conn,
           \A m \in Nodes : \A q : Travels(m, q)' => Travels(m, q)
    PROVE  BindInv'
BY SameBinds DEF BindInv, ConnTypes, Ids, Flows

LEMMA NextBinds == BindInv /\ [Next]_vars => BindInv'
<1> SUFFICES ASSUME BindInv, [Next]_vars PROVE BindInv'
    OBVIOUS
<1>1. ASSUME NEW n \in Nodes, Program(n) PROVE BindInv'
    <2>1. CASE StopListening(n)
        <3>1. Flows /\ \A m \in Nodes : \A q : Travels(m, q)' => Travels(m, q)
            BY <2>1 DEF StopListening, netVars, BindInv, ChanTypes, Travels, Flows
        <3> QED
            BY <2>1, <3>1, UntouchedBinds DEF StopListening
    <2> QED
        BY <1>1, <2>1, OpenConnectionBinds, MildSteps, MildStepBinds DEF Program, BindInv
<1>2. ASSUME NEW n \in Nodes, Step(n) PROVE BindInv'
    <2>1. CASE RecvDropped(n)
        <3>1. Flows /\ \A m \in Nodes : \A q : Travels(m, q)' => Travels(m, q)
            BY <2>1, RestFacts DEF BindInv, RecvDropped
        <3> QED
            BY <2>1, <3>1, UntouchedBinds DEF RecvDropped
    <2>2. CASE \/ RecvNoted(n) \/ RecvClose(n)
               \/ CloseConnection(n) \/ CloseResumes(n) \/ TickTimeout(n)
        BY <2>2, MildSteps, MildStepBinds DEF BindInv
    <2>3. CASE RecvRequest(n) \/ RecvReqAck(n) \/ RecvOpenAck(n)
        BY <2>3, RecvRequestBinds, RecvReqAckBinds, RecvOpenAckBinds
    <2> QED
        BY <1>2, <2>1, <2>2, <2>3, HandlerResumesBinds, TickSendBinds DEF Step, Receive
<1>3. ASSUME NEW n \in Nodes, Lose(n) PROVE BindInv'
    BY <1>3, LoseFacts, UntouchedBinds DEF BindInv, Lose
<1>4. CASE UNCHANGED vars
    <2>1. Flows /\ \A m \in Nodes : \A q : Travels(m, q)' => Travels(m, q)
        BY <1>4 DEF vars, netVars, BindInv, ChanTypes, Travels, Flows
    <2> QED
        BY <1>4, <2>1, UntouchedBinds DEF vars
<1> QED
    BY <1>1, <1>2, <1>3, <1>4, NextIntervalBinds DEF Next

LEMMA InitBinds == Init => BindInv
<1> SUFFICES ASSUME Init PROVE BindInv
    OBVIOUS
<1>1. \A n \in Nodes : conn[n] = <<>> /\ chan[n] = <<>> /\ Ids(n) = {}
    BY DEF Init, Ids
<1>2. ConnTypes /\ ChanTypes /\ \A n \in Nodes : \A p : ~Travels(n, p)
    BY <1>1 DEF Init, ConnTypes, ChanTypes, Travels
<1> QED
    BY <1>1, <1>2 DEF BindInv

(* Whatever sends raise, suspend or are lost, and even where an opener is  *)
(* left half bound and bound anew: an accepted connection belongs to an    *)
(* opener of the peer, and an opener is bound to one accepted for it.      *)
THEOREM BindingsHold == Spec => [](AcceptedForOpener /\ OpenerBound)
<1>1. BindInv => AcceptedForOpener /\ OpenerBound
    BY Peers DEF BindInv, Mates, AcceptedForOpener, OpenerBound, Acceptor
<1>2. BindInv /\ [Next]_vars => BindInv'
    BY NextBinds
<1> QED
    BY <1>1, <1>2, InitBinds, PTL DEF Spec

-------------------------------------------------------------------------------
(* The life of a connection: its types, and what its steps may do to it    *)
(* when no send suspends.  Sends may raise here.                           *)

Sound(c) ==
    /\ c.listed <=> c.state # "CLOSED"
    /\ ~c.listed => c.timer # "running"
    /\ c.handler = "none" /\ c.close # "sending"
    /\ c.state = "OPENING" => c.made = 0 /\ c.gone = 0 /\ c.future # "done"

Lives(c, d) ==
    Sound(c) =>
        /\ Sound(d)
        /\ d.made # c.made => c.state = "OPENING"
        /\ c.state = "CLOSED" => d.state = "CLOSED"

Alters(c, d) == d \in Connections /\ (~Backpressure => Lives(c, d))

LEMMA HeardAlters ==
    ASSUME NEW c \in Connections, NEW h, h = Heard(c)
    PROVE  /\ Alters(c, h) /\ h.state = c.state
           /\ \A d : Alters(h, d) => Alters(c, d)
<1>1. h \in Connections
    BY Updates
<1>2. /\ h.state = c.state /\ h.listed = c.listed /\ h.timer = c.timer
      /\ h.handler = c.handler /\ h.close = c.close /\ h.made = c.made
      /\ h.gone = c.gone /\ h.future = c.future
    BY DEF Heard, Connections
<1> QED
    BY <1>1, <1>2 DEF Alters, Lives, Sound

BoundTo(c, r) == [c EXCEPT !.remote = r]

(* OPEN_CONN_REQ_ACK.                                                      *)
LEMMA BoundAlters ==
    ASSUME NEW c \in Connections, NEW r \in Nat, NEW b, b = BoundTo(c, r)
    PROVE  /\ b \in Connections /\ Alters(c, b)
           /\ c.state = "OPENING" => Alters(c, Opened(b))
<1>1. b \in Connections
    BY DEF Connections, BoundTo
<1>2. /\ b.state = c.state /\ b.listed = c.listed /\ b.timer = c.timer
      /\ b.handler = c.handler /\ b.close = c.close /\ b.made = c.made
      /\ b.gone = c.gone /\ b.future = c.future
    BY DEF Connections, BoundTo
<1>3. PICK d : d = Opened(b)
    OBVIOUS
<1>4. d \in Connections
    BY <1>1, <1>3, Updates
<1>5. /\ d.state = "OPEN" /\ d.listed = b.listed /\ d.timer = b.timer
      /\ d.handler = "none" /\ d.close = b.close
    BY <1>1, <1>3 DEF Opened, Connections
<1>6. Alters(c, b)
    BY <1>1, <1>2 DEF Alters, Lives, Sound
<1>7. c.state = "OPENING" => Alters(c, d)
    BY <1>2, <1>4, <1>5 DEF Alters, Lives, Sound
<1> QED
    BY <1>1, <1>3, <1>6, <1>7

(* OPEN_CONN_ACK.                                                          *)
MadeOpen(c) == [c EXCEPT !.state = "OPEN", !.made = @ + 1]

LEMMA MadeAlters ==
    ASSUME NEW c \in Connections, c.state = "OPENING", NEW d, d = MadeOpen(c)
    PROVE  Alters(c, d)
<1>1. d \in Connections
    BY Updates DEF MadeOpen
<1>2. /\ d.state = "OPEN" /\ d.listed = c.listed /\ d.timer = c.timer
      /\ d.handler = c.handler /\ d.close = c.close
    BY DEF MadeOpen, Connections
<1> QED
    BY <1>1, <1>2 DEF Alters, Lives, Sound

(* A suspended handler or close: not without backpressure.                 *)
LEMMA SuspendedAlters ==
    ASSUME NEW c \in Connections, NEW d \in Connections,
           Backpressure \/ c.handler # "none" \/ c.close = "sending"
    PROVE  Alters(c, d)
BY DEF Alters, Lives, Sound

LEMMA EndedAlters ==
    ASSUME NEW c \in Connections,
           NEW d, d = PeerClosed(c) \/ (Ticks(c) /\ d = ForceClosed(c))
    PROVE  Alters(c, d)
<1>1. d \in Connections
    BY Updates
<1>2. /\ d.state = "CLOSED" /\ d.listed = FALSE /\ d.timer = "stopped"
      /\ d.handler \in {c.handler, "none"} /\ d.close = c.close /\ d.made = c.made
    BY DEF PeerClosed, ForceClosed, Connections
<1> QED
    BY <1>1, <1>2 DEF Alters, Lives, Sound

(* The transport's close.                                                  *)
CloseCreated(c) == [c EXCEPT !.close = "created", !.gone = @ + 1]

LEMMA CreatedAlters ==
    ASSUME NEW c \in Connections, HasTransport(c), NEW d, d = CloseCreated(c)
    PROVE  Alters(c, d)
<1>1. d \in Connections
    BY Updates DEF CloseCreated
<1>2. /\ d.state = c.state /\ d.listed = c.listed /\ d.timer = c.timer
      /\ d.handler = c.handler /\ d.close = "created" /\ d.made = c.made
      /\ d.future = c.future
    BY DEF CloseCreated, Connections
<1>3. Sound(c) => c.state # "OPENING"
    BY DEF Sound, HasTransport
<1> QED
    BY <1>1, <1>2, <1>3 DEF Alters, Lives, Sound

(* close_connection.                                                       *)
CloseDone(c) == [c EXCEPT !.close = "done"]
ClosingNow(c) == [c EXCEPT !.state = "CLOSING", !.timer = "stopped"]
ClosingSent(c) == [c EXCEPT !.close = "sending"]

LEMMA CloseAlters ==
    ASSUME NEW c \in Connections, NEW b, b = ClosingNow(c)
    PROVE  /\ Alters(c, CloseDone(c))
           /\ NeedsClose(c) => Alters(c, Closed(b)) /\ Alters(c, CloseDone(b))
           /\ Closed(b) \in Connections /\ ClosingSent(b) \in Connections
<1>1. PICK d : d = CloseDone(c)
    OBVIOUS
<1>2. /\ d \in Connections
      /\ d.state = c.state /\ d.listed = c.listed /\ d.timer = c.timer
      /\ d.handler = c.handler /\ d.close = "done" /\ d.made = c.made
      /\ d.future = c.future /\ d.gone = c.gone
    BY <1>1 DEF Connections, CloseDone
<1>3. Alters(c, d)
    BY <1>2 DEF Alters, Lives, Sound
<1>4. b \in Connections
    BY DEF Connections, ClosingNow
<1>5. /\ b.state = "CLOSING" /\ b.listed = c.listed /\ b.timer = "stopped"
      /\ b.handler = c.handler /\ b.close = c.close /\ b.made = c.made
    BY DEF Connections, ClosingNow
<1>6. PICK e : e = CloseDone(b)
    OBVIOUS
<1>7. /\ e \in Connections
      /\ e.state = "CLOSING" /\ e.listed = c.listed /\ e.timer = "stopped"
      /\ e.handler = c.handler /\ e.close = "done" /\ e.made = c.made
    <2>1. e \in Connections
        BY <1>4, <1>6 DEF Connections, CloseDone
    <2>2. /\ e.state = b.state /\ e.listed = b.listed /\ e.timer = b.timer
          /\ e.handler = b.handler /\ e.close = "done" /\ e.made = b.made
        BY <1>4, <1>6 DEF Connections, CloseDone
    <2> QED
        BY <1>5, <2>1, <2>2
<1>8. NeedsClose(c) => Alters(c, e)
    BY <1>7 DEF Alters, Lives, Sound, NeedsClose
<1>9. PICK g : g = Closed(b)
    OBVIOUS
<1>10. g \in Connections
    BY <1>4, <1>9, Updates
<1>11. /\ g.state = "CLOSED" /\ g.listed = FALSE /\ g.timer = b.timer
       /\ g.handler = b.handler /\ g.close = "done" /\ g.made = b.made
    BY <1>4, <1>9 DEF Connections, Closed
<1>12. Alters(c, g)
    BY <1>5, <1>10, <1>11 DEF Alters, Lives, Sound
<1>13. ClosingSent(b) \in Connections
    BY <1>4 DEF Connections, ClosingSent
<1> QED
    BY <1>1, <1>3, <1>6, <1>8, <1>9, <1>10, <1>12, <1>13

(* The timer sends.                                                        *)
Ticked(c) == [c EXCEPT !.idle = @ + 1, !.ticked = TRUE]
TimerDead(c) == [c EXCEPT !.timer = "dead"]
Unticked(c) == [c EXCEPT !.ticked = FALSE]

LEMMA TickedAlters ==
    ASSUME NEW c \in Connections, ~TimedOut(c), NEW d, d = Ticked(c)
    PROVE  Alters(c, d) /\ Alters(c, TimerDead(d)) /\ d.state = c.state
<1>1. c.idle \in 0..TimeoutTicks /\ c.idle # TimeoutTicks /\ TimeoutTicks \in Nat
    BY SessionAssumption DEF TimedOut, Connections
<1>2. c.idle + 1 \in 0..TimeoutTicks
    BY <1>1
<1>3. d \in Connections
    BY <1>2 DEF Connections, Ticked
<1>4. /\ d.state = c.state /\ d.listed = c.listed /\ d.timer = c.timer
      /\ d.handler = c.handler /\ d.close = c.close /\ d.made = c.made
      /\ d.gone = c.gone /\ d.future = c.future
    BY DEF Connections, Ticked
<1>5. PICK e : e = TimerDead(d)
    OBVIOUS
<1>6. e \in Connections
    BY <1>3, <1>5 DEF Connections, TimerDead
<1>7. /\ e.state = d.state /\ e.listed = d.listed /\ e.timer = "dead"
      /\ e.handler = d.handler /\ e.close = d.close /\ e.made = d.made
      /\ e.gone = d.gone /\ e.future = d.future
    BY <1>3, <1>5 DEF Connections, TimerDead
<1>8. Alters(c, d)
    BY <1>3, <1>4 DEF Alters, Lives, Sound
<1>9. Alters(c, e)
    BY <1>4, <1>6, <1>7 DEF Alters, Lives, Sound
<1> QED
    BY <1>4, <1>5, <1>8, <1>9

LEMMA UntickedAlters ==
    ASSUME NEW c \in Connections, NEW d, d = Unticked(c)
    PROVE  Alters(c, d)
<1>1. d \in Connections
    BY DEF Connections, Unticked
<1>2. /\ d.state = c.state /\ d.listed = c.listed /\ d.timer = c.timer
      /\ d.handler = c.handler /\ d.close = c.close /\ d.made = c.made
      /\ d.gone = c.gone /\ d.future = c.future
    BY DEF Connections, Unticked
<1> QED
    BY <1>1, <1>2 DEF Alters, Lives, Sound

LEMMA StartsSound ==
    ASSUME NEW opener \in BOOLEAN, NEW r \in Nat, NEW f \in {"none", "pending", "raised"},
           NEW c, c = NewConn(opener, r, f)
    PROVE  c \in Connections /\ Sound(c)
<1>1. c \in Connections
    BY NewConns
<1>2. /\ c.state = "OPENING" /\ c.listed = TRUE /\ c.timer = "running"
      /\ c.handler = "none" /\ c.close = "none" /\ c.made = 0 /\ c.gone = 0
      /\ c.future = f
    BY DEF NewConn
<1> QED
    BY <1>1, <1>2 DEF Sound


Ranges == listening \subseteq Listeners /\ lost \in 0..MaxLost /\ failed \in 0..MaxFail
AllSound == \A n \in Nodes : \A i \in Ids(n) : Sound(conn[n][i])

LifeInv ==
    /\ ConnTypes
    /\ ChanTypes
    /\ Ranges
    /\ ~Backpressure => AllSound

NetStep == ChanTypes' /\ Ranges'
ConnStep ==
    /\ ConnTypes'
    /\ ~Backpressure =>
        /\ AllSound'
        /\ \A n \in Nodes : \A i \in Ids(n) : Lives(conn[n][i], conn'[n][i])

LEMMA UnsentNet ==
    ASSUME LifeInv, UNCHANGED netVars, listening' = listening \/ listening' \subseteq listening
    PROVE  NetStep
BY DEF LifeInv, NetStep, ChanTypes, Ranges, netVars

LEMMA SentNet ==
    ASSUME LifeInv, NEW n \in Nodes, NEW p \in Packets, NEW c \in [Nodes -> Seq(Packets)],
           Sent(c, n, p) \/ Raised(c), UNCHANGED <<listening, lost>>,
           \A m \in Nodes : \A k \in 1..Len(c[m]) : Travels(m, c[m][k])
    PROVE  NetStep
<1>1. CASE Sent(c, n, p)
    <2>1. ChanTypes'
        BY <1>1, SentFacts DEF LifeInv, Flows
    <2>2. failed' = failed
        BY <1>1 DEF Sent
    <2> QED
        BY <2>1, <2>2 DEF LifeInv, NetStep, Ranges
<1>2. CASE Raised(c)
    <2>1. failed < MaxFail /\ failed' = failed + 1 /\ chan' = c
        BY <1>2 DEF Raised
    <2> QED
        BY <2>1, SessionAssumption DEF LifeInv, NetStep, Ranges, ChanTypes
<1> QED
    BY <1>1, <1>2

LEMMA SentOnNet ==
    ASSUME LifeInv, NEW n \in Nodes, NEW p \in Packets,
           Sent(chan, n, p) \/ Raised(chan), UNCHANGED <<listening, lost>>
    PROVE  NetStep
<1>1. chan \in [Nodes -> Seq(Packets)]
    BY DEF LifeInv, ChanTypes
<1>2. \A m \in Nodes : \A k \in 1..Len(chan[m]) : Travels(m, chan[m][k])
    BY DEF Travels
<1> QED
    BY <1>1, <1>2, SentNet

LEMMA AnsweredNet ==
    ASSUME LifeInv, NEW n \in Nodes, Receiving(n), NEW p \in Packets,
           Sent(Rest(n), n, p) \/ Raised(Rest(n)), UNCHANGED <<listening, lost>>
    PROVE  NetStep
<1>1. /\ Rest(n) \in [Nodes -> Seq(Packets)]
      /\ \A m \in Nodes : \A k \in 1..Len(Rest(n)[m]) : Travels(m, Rest(n)[m][k])
    BY WaitingFacts DEF LifeInv
<1> QED
    BY <1>1, SentNet

LEMMA ReceivedNet ==
    ASSUME LifeInv, NEW n \in Nodes, Receiving(n), chan' = Rest(n),
           UNCHANGED <<listening, lost, failed>>
    PROVE  NetStep
<1>1. ChanTypes'
    BY RestFacts DEF LifeInv, Flows
<1> QED
    BY <1>1 DEF LifeInv, NetStep, Ranges

LEMMA ReplacedConn ==
    ASSUME LifeInv, NEW n \in Nodes, NEW i \in Ids(n), NEW d,
           Alters(conn[n][i], d), Replace(n, i, d)
    PROVE  ConnStep
<1>1. d \in Connections
    BY DEF Alters
<1>2. /\ ConnTypes'
      /\ \A m \in Nodes : Ids(m)' = Ids(m)
      /\ conn'[n][i] = d
      /\ \A m \in Nodes : \A j \in Ids(m) :
            m # n \/ j # i => conn'[m][j] = conn[m][j]
    BY <1>1, ReplaceFacts DEF LifeInv
<1>3. ASSUME ~Backpressure, NEW m \in Nodes, NEW j \in Ids(m)
      PROVE  Sound(conn[m][j]) /\ Lives(conn[m][j], conn'[m][j])
    <2>1. Sound(conn[m][j])
        BY <1>3 DEF LifeInv, AllSound
    <2>2. CASE m = n /\ j = i
        BY <1>2, <1>3, <2>1, <2>2 DEF Alters
    <2>3. CASE ~(m = n /\ j = i)
        BY <1>2, <2>1, <2>3 DEF Lives
    <2> QED
        BY <2>1, <2>2, <2>3
<1>4. ASSUME ~Backpressure, NEW m \in Nodes, NEW j \in Ids(m)' PROVE Sound(conn'[m][j])
    BY <1>2, <1>3, <1>4 DEF Lives
<1> QED
    BY <1>2, <1>3, <1>4 DEF ConnStep, AllSound

LEMMA AddedConn ==
    ASSUME LifeInv, NEW n \in Nodes, NEW c \in Connections, Sound(c), Adds(n, c)
    PROVE  ConnStep
<1>1. /\ ConnTypes'
      /\ Ids(n)' = Ids(n) \cup {Id(n)} /\ Ids(Peer(n))' = Ids(Peer(n))
      /\ conn'[n][Id(n)] = c
      /\ \A m \in Nodes : \A j \in Ids(m) : conn'[m][j] = conn[m][j]
    BY AppendFacts DEF LifeInv
<1>2. ASSUME ~Backpressure, NEW m \in Nodes, NEW j \in Ids(m)
      PROVE  Sound(conn[m][j]) /\ Lives(conn[m][j], conn'[m][j])
    BY <1>1, <1>2 DEF Lives, LifeInv, AllSound
<1>3. ASSUME ~Backpressure, NEW m \in Nodes, NEW j \in Ids(m)' PROVE Sound(conn'[m][j])
    <2>1. j \in Ids(m) \/ (m = n /\ j = Id(n))
        BY <1>1, <1>3, Peers
    <2> QED
        BY <1>1, <1>2, <1>3, <2>1 DEF Lives
<1> QED
    BY <1>1, <1>2, <1>3 DEF ConnStep, AllSound

LEMMA SameConn == ASSUME LifeInv, UNCHANGED conn PROVE ConnStep
<1>1. ConnTypes' /\ \A n \in Nodes : Ids(n)' = Ids(n)
    BY DEF LifeInv, ConnTypes, Ids
<1>2. ~Backpressure => AllSound'
    BY <1>1 DEF LifeInv, AllSound
<1>3. ~Backpressure => \A n \in Nodes : \A i \in Ids(n) : Lives(conn[n][i], conn'[n][i])
    BY DEF Lives
<1> QED
    BY <1>1, <1>2, <1>3 DEF ConnStep

-------------------------------------------------------------------------------
(* The actions.                                                            *)

LEMMA OpenConnectionLife ==
    ASSUME LifeInv, NEW n \in Nodes, OpenConnection(n) PROVE ConnStep /\ NetStep
<1>1. Id(n) \in Nat
    BY IdsFacts DEF LifeInv
<1>2. Packet("req", Id(n), 0) \in Packets
    BY <1>1 DEF Packet, Packets, Codes
<1>3. /\ Sent(chan, n, Packet("req", Id(n), 0)) \/ Raised(chan)
      /\ UNCHANGED <<listening, lost>>
    BY DEF OpenConnection
<1>4. NetStep
    BY <1>2, <1>3, SentOnNet
<1>5. PICK f \in {"pending", "raised"} : Adds(n, NewConn(TRUE, 0, f))
    BY DEF OpenConnection, Adds
<1>6. PICK c : c = NewConn(TRUE, 0, f)
    OBVIOUS
<1>7. c \in Connections /\ Sound(c)
    BY <1>6, StartsSound
<1> QED
    BY <1>4, <1>5, <1>6, <1>7, AddedConn

LEMMA RecvRequestLife ==
    ASSUME LifeInv, NEW n \in Nodes, RecvRequest(n) PROVE ConnStep /\ NetStep
<1> DEFINE w == Waiting(n)
<1>1. Receiving(n) /\ UNCHANGED <<listening, lost>>
    BY DEF RecvRequest
<1>2. w \in Packets /\ w.src \in Nat
    BY <1>1, WaitingFacts DEF LifeInv, Packets
<1>3. Id(n) \in Nat
    BY IdsFacts DEF LifeInv
<1>4. Packet("req_ack", Id(n), w.src) \in Packets
    BY <1>2, <1>3 DEF Packet, Packets, Codes
<1>5. Sent(Rest(n), n, Packet("req_ack", Id(n), w.src)) \/ Raised(Rest(n))
    BY DEF RecvRequest
<1>6. NetStep
    BY <1>1, <1>4, <1>5, AnsweredNet
<1>7. PICK c : c = NewConn(FALSE, w.src, "none")
    OBVIOUS
<1>8. c \in Connections /\ Sound(c)
    BY <1>2, <1>7, StartsSound
<1>9. Adds(n, c)
    BY <1>7 DEF RecvRequest, Adds
<1> QED
    BY <1>6, <1>8, <1>9, AddedConn

LEMMA RecvReqAckLife ==
    ASSUME LifeInv, NEW n \in Nodes, RecvReqAck(n) PROVE ConnStep /\ NetStep
<1> DEFINE w == Waiting(n)
           Bound(i) == BoundTo(Heard(conn[n][i]), w.src)
           p(i) == Packet("open_ack", i, Bound(i).remote)
<1>1. PICK i \in Ids(n) :
        /\ Receiving(n) /\ Opening(Heard(conn[n][i])) /\ UNCHANGED <<listening, lost>>
        /\ Sent(Rest(n), n, p(i)) \/ Raised(Rest(n))
        /\ \/ Replace(n, i, Opened(Bound(i)))
           \/ Backpressure /\ Replace(n, i, [Bound(i) EXCEPT !.handler = "opening"])
           \/ Replace(n, i, Bound(i))
    BY DEF RecvReqAck, BoundTo, Remote
<1>2. w.src \in Nat
    BY <1>1, WaitingFacts DEF LifeInv, Packets
<1>3. conn[n][i] \in Connections /\ i \in Nat
    BY IdsFacts DEF LifeInv
<1>4. PICK h : h = Heard(conn[n][i])
    OBVIOUS
<1>5. /\ Alters(conn[n][i], h)
      /\ \A d : Alters(h, d) => Alters(conn[n][i], d)
    BY <1>3, <1>4, HeardAlters
<1>6. h \in Connections /\ h.state = "OPENING"
    BY <1>1, <1>4, <1>5 DEF Opening, Alters
<1>7. PICK b : b = BoundTo(h, w.src)
    OBVIOUS
<1>8. b \in Connections /\ Alters(h, b) /\ Alters(h, Opened(b))
    BY <1>2, <1>6, <1>7, BoundAlters
<1>9. Bound(i) = b
    BY <1>4, <1>7
<1>10. p(i) \in Packets
    <2>1. b.remote \in Nat
        BY <1>8 DEF Connections
    <2> QED
        BY <1>3, <1>9, <2>1 DEF Packet, Packets, Codes
<1>11. NetStep
    BY <1>1, <1>10, AnsweredNet
<1>12. CASE Replace(n, i, Opened(Bound(i)))
    BY <1>5, <1>8, <1>9, <1>11, <1>12, ReplacedConn
<1>13. CASE Backpressure /\ Replace(n, i, [Bound(i) EXCEPT !.handler = "opening"])
    <2>1. PICK d : d = [b EXCEPT !.handler = "opening"]
        OBVIOUS
    <2>2. d \in Connections
        BY <1>8, <2>1, Updates
    <2>3. Alters(conn[n][i], d)
        BY <1>3, <1>13, <2>2, SuspendedAlters
    <2> QED
        BY <1>9, <1>11, <1>13, <2>1, <2>3, ReplacedConn
<1>14. CASE Replace(n, i, Bound(i))
    BY <1>5, <1>8, <1>9, <1>11, <1>14, ReplacedConn
<1> QED
    BY <1>1, <1>12, <1>13, <1>14

LEMMA RecvOpenAckLife ==
    ASSUME LifeInv, NEW n \in Nodes, RecvOpenAck(n) PROVE ConnStep /\ NetStep
<1>1. PICK i \in Ids(n) :
        /\ Receiving(n) /\ Opening(Heard(conn[n][i]))
        /\ chan' = Rest(n) /\ UNCHANGED <<listening, lost, failed>>
        /\ Replace(n, i, MadeOpen(Heard(conn[n][i])))
    BY DEF RecvOpenAck, MadeOpen
<1>2. NetStep
    BY <1>1, ReceivedNet
<1>3. conn[n][i] \in Connections
    BY IdsFacts DEF LifeInv
<1>4. PICK h : h = Heard(conn[n][i])
    OBVIOUS
<1>5. /\ h \in Connections /\ h.state = "OPENING"
      /\ \A d : Alters(h, d) => Alters(conn[n][i], d)
    BY <1>1, <1>3, <1>4, HeardAlters DEF Opening, Alters
<1>6. PICK d : d = MadeOpen(h)
    OBVIOUS
<1>7. Alters(conn[n][i], d)
    BY <1>5, <1>6, MadeAlters
<1> QED
    BY <1>1, <1>2, <1>4, <1>6, <1>7, ReplacedConn

LEMMA ReceivedLife ==
    ASSUME LifeInv, NEW n \in Nodes, RecvNoted(n) \/ RecvDropped(n) PROVE ConnStep /\ NetStep
<1>1. Receiving(n) /\ chan' = Rest(n) /\ UNCHANGED <<listening, lost, failed>>
    BY DEF RecvNoted, RecvDropped
<1>2. NetStep
    BY <1>1, ReceivedNet
<1>3. CASE RecvDropped(n)
    BY <1>2, <1>3, SameConn DEF RecvDropped
<1>4. CASE RecvNoted(n)
    <2>1. PICK i \in Ids(n) : Replace(n, i, Heard(conn[n][i]))
        BY <1>4 DEF RecvNoted
    <2>2. conn[n][i] \in Connections
        BY IdsFacts DEF LifeInv
    <2>3. PICK h : h = Heard(conn[n][i])
        OBVIOUS
    <2>4. Alters(conn[n][i], h)
        BY <2>2, <2>3, HeardAlters
    <2> QED
        BY <1>2, <2>1, <2>3, <2>4, ReplacedConn
<1> QED
    BY <1>3, <1>4

LEMMA RecvCloseLife ==
    ASSUME LifeInv, NEW n \in Nodes, RecvClose(n) PROVE ConnStep /\ NetStep
<1> DEFINE Noted(i) == Heard(conn[n][i])
           p(i) == Packet("close", i, Noted(i).remote)
<1>1. PICK i \in Ids(n) :
        /\ Receiving(n) /\ UNCHANGED <<listening, lost>>
        /\ \/ chan' = Rest(n) /\ UNCHANGED failed
           \/ Sent(Rest(n), n, p(i)) \/ Raised(Rest(n))
        /\ \/ Replace(n, i, PeerClosed(Noted(i)))
           \/ Backpressure /\ Replace(n, i, [Noted(i) EXCEPT !.handler = "answering"])
           \/ Replace(n, i, Noted(i))
    BY DEF RecvClose
<1>2. conn[n][i] \in Connections /\ i \in Nat
    BY IdsFacts DEF LifeInv
<1>3. PICK h : h = Noted(i)
    OBVIOUS
<1>4. /\ h \in Connections /\ Alters(conn[n][i], h)
      /\ \A d : Alters(h, d) => Alters(conn[n][i], d)
    BY <1>2, <1>3, HeardAlters DEF Alters
<1>5. NetStep
    <2>1. CASE chan' = Rest(n) /\ UNCHANGED failed
        BY <1>1, <2>1, ReceivedNet
    <2>2. CASE Sent(Rest(n), n, p(i)) \/ Raised(Rest(n))
        <3>1. h.remote \in Nat
            BY <1>4 DEF Connections
        <3>2. p(i) \in Packets
            BY <1>2, <1>3, <3>1 DEF Packet, Packets, Codes
        <3> QED
            BY <1>1, <2>2, <3>2, AnsweredNet
    <2> QED
        BY <1>1, <2>1, <2>2
<1>6. CASE Replace(n, i, PeerClosed(Noted(i)))
    <2>1. PICK d : d = PeerClosed(h)
        OBVIOUS
    <2>2. Alters(conn[n][i], d)
        BY <1>4, <2>1, EndedAlters
    <2> QED
        BY <1>3, <1>5, <1>6, <2>1, <2>2, ReplacedConn
<1>7. CASE Backpressure /\ Replace(n, i, [Noted(i) EXCEPT !.handler = "answering"])
    <2>1. PICK d : d = [h EXCEPT !.handler = "answering"]
        OBVIOUS
    <2>2. d \in Connections
        BY <1>4, <2>1, Updates
    <2>3. Alters(conn[n][i], d)
        BY <1>2, <1>7, <2>2, SuspendedAlters
    <2> QED
        BY <1>3, <1>5, <1>7, <2>1, <2>3, ReplacedConn
<1>8. CASE Replace(n, i, Noted(i))
    BY <1>3, <1>4, <1>5, <1>8, ReplacedConn
<1> QED
    BY <1>1, <1>6, <1>7, <1>8

LEMMA ResumesLife ==
    ASSUME LifeInv, NEW n \in Nodes, HandlerResumes(n) \/ CloseResumes(n)
    PROVE  ConnStep /\ NetStep
<1>1. PICK i \in Ids(n) :
        /\ conn[n][i].handler # "none" \/ conn[n][i].close = "sending"
        /\ \/ Replace(n, i, Opened(conn[n][i]))
           \/ Replace(n, i, PeerClosed(conn[n][i]))
           \/ Replace(n, i, Closed(conn[n][i]))
        /\ UNCHANGED <<listening, netVars>>
    BY DEF HandlerResumes, CloseResumes
<1>2. NetStep
    BY <1>1, UnsentNet
<1>3. conn[n][i] \in Connections
    BY IdsFacts DEF LifeInv
<1>4. PICK d \in {Opened(conn[n][i]), PeerClosed(conn[n][i]), Closed(conn[n][i])} :
        Replace(n, i, d)
    BY <1>1
<1>5. d \in Connections
    BY <1>3, <1>4, Updates
<1>6. Alters(conn[n][i], d)
    BY <1>1, <1>3, <1>5, SuspendedAlters
<1> QED
    BY <1>2, <1>4, <1>6, ReplacedConn

LEMMA CloseLife ==
    ASSUME LifeInv, NEW n \in Nodes, Close(n) \/ TickTimeout(n) PROVE ConnStep /\ NetStep
<1>1. PICK i \in Ids(n) :
        /\ \/ HasTransport(conn[n][i]) /\ Replace(n, i, CloseCreated(conn[n][i]))
           \/ Ticks(conn[n][i]) /\ Replace(n, i, ForceClosed(conn[n][i]))
        /\ UNCHANGED <<listening, netVars>>
    BY DEF Close, TickTimeout, CloseCreated
<1>2. NetStep
    BY <1>1, UnsentNet
<1>3. conn[n][i] \in Connections
    BY IdsFacts DEF LifeInv
<1>4. CASE HasTransport(conn[n][i]) /\ Replace(n, i, CloseCreated(conn[n][i]))
    <2>1. PICK d : d = CloseCreated(conn[n][i])
        OBVIOUS
    <2>2. Alters(conn[n][i], d)
        BY <1>3, <1>4, <2>1, CreatedAlters
    <2> QED
        BY <1>2, <1>4, <2>1, <2>2, ReplacedConn
<1>5. CASE Ticks(conn[n][i]) /\ Replace(n, i, ForceClosed(conn[n][i]))
    <2>1. PICK d : d = ForceClosed(conn[n][i])
        OBVIOUS
    <2>2. Alters(conn[n][i], d)
        BY <1>3, <1>5, <2>1, EndedAlters
    <2> QED
        BY <1>2, <1>5, <2>1, <2>2, ReplacedConn
<1> QED
    BY <1>1, <1>4, <1>5

LEMMA CloseConnectionLife ==
    ASSUME LifeInv, NEW n \in Nodes, CloseConnection(n) PROVE ConnStep /\ NetStep
<1> DEFINE Now(i) == ClosingNow(conn[n][i])
           p(i) == Packet("close", i, conn[n][i].remote)
<1>1. PICK i \in Ids(n) :
        /\ UNCHANGED <<listening, lost>>
        /\ UNCHANGED <<chan, failed>> \/ Sent(chan, n, p(i)) \/ Raised(chan)
        /\ \/ Replace(n, i, CloseDone(conn[n][i]))
           \/ NeedsClose(conn[n][i]) /\ Replace(n, i, Closed(Now(i)))
           \/ Backpressure /\ Replace(n, i, ClosingSent(Now(i)))
           \/ NeedsClose(conn[n][i]) /\ Replace(n, i, CloseDone(Now(i)))
    BY DEF CloseConnection, ClosingNow, CloseDone, ClosingSent
<1>2. conn[n][i] \in Connections /\ i \in Nat
    BY IdsFacts DEF LifeInv
<1>3. NetStep
    <2>1. p(i) \in Packets
        <3>1. conn[n][i].remote \in Nat
            BY <1>2 DEF Connections
        <3> QED
            BY <1>2, <3>1 DEF Packet, Packets, Codes
    <2> QED
        BY <1>1, <2>1, UnsentNet, SentOnNet DEF netVars
<1>4. PICK b : b = Now(i)
    OBVIOUS
<1>5. /\ Alters(conn[n][i], CloseDone(conn[n][i]))
      /\ NeedsClose(conn[n][i]) =>
            Alters(conn[n][i], Closed(b)) /\ Alters(conn[n][i], CloseDone(b))
      /\ ClosingSent(b) \in Connections
    BY <1>2, <1>4, CloseAlters
<1>6. CASE Replace(n, i, CloseDone(conn[n][i]))
    BY <1>3, <1>5, <1>6, ReplacedConn
<1>7. CASE NeedsClose(conn[n][i]) /\ Replace(n, i, Closed(Now(i)))
    BY <1>3, <1>4, <1>5, <1>7, ReplacedConn
<1>8. CASE Backpressure /\ Replace(n, i, ClosingSent(Now(i)))
    <2>1. Alters(conn[n][i], ClosingSent(b))
        BY <1>2, <1>5, <1>8, SuspendedAlters
    <2> QED
        BY <1>3, <1>4, <1>8, <2>1, ReplacedConn
<1>9. CASE NeedsClose(conn[n][i]) /\ Replace(n, i, CloseDone(Now(i)))
    BY <1>3, <1>4, <1>5, <1>9, ReplacedConn
<1> QED
    BY <1>1, <1>6, <1>7, <1>8, <1>9

LEMMA TickSendLife ==
    ASSUME LifeInv, NEW n \in Nodes, TickSend(n) PROVE ConnStep /\ NetStep
<1>1. PICK i \in Ids(n) :
        /\ UNCHANGED <<listening, lost>> /\ ~TimedOut(conn[n][i])
        /\ Sent(chan, n, TimerPacket(n, i)) \/ Raised(chan)
        /\ \/ Replace(n, i, Ticked(conn[n][i]))
           \/ Replace(n, i, TimerDead(Ticked(conn[n][i])))
    BY DEF TickSend, Ticked, TimerDead
<1>2. conn[n][i] \in Connections /\ i \in Nat
    BY IdsFacts DEF LifeInv
<1>3. TimerPacket(n, i) \in Packets
    <2>1. conn[n][i].remote \in Nat
        BY <1>2 DEF Connections
    <2> QED
        BY <1>2, <2>1 DEF TimerPacket, ReqAck, Packet, Packets, Codes
<1>4. NetStep
    BY <1>1, <1>3, SentOnNet
<1>5. PICK d : d = Ticked(conn[n][i])
    OBVIOUS
<1>6. Alters(conn[n][i], d) /\ Alters(conn[n][i], TimerDead(d))
    BY <1>1, <1>2, <1>5, TickedAlters
<1> QED
    BY <1>1, <1>4, <1>5, <1>6, ReplacedConn

LEMMA NextIntervalLife == ASSUME LifeInv, NextInterval PROVE ConnStep /\ NetStep
<1> DEFINE fresh(n) == [i \in Ids(n) |-> Unticked(conn[n][i])]
<1>1. conn' = [n \in Nodes |-> fresh(n)] /\ UNCHANGED <<listening, netVars>>
    BY DEF NextInterval, Unticked
<1>2. NetStep
    BY <1>1, UnsentNet
<1>3. \A n \in Nodes : \A i \in Ids(n) : Alters(conn[n][i], Unticked(conn[n][i]))
    <2> SUFFICES ASSUME NEW n \in Nodes, NEW i \in Ids(n)
                 PROVE  Alters(conn[n][i], Unticked(conn[n][i]))
        OBVIOUS
    <2>1. conn[n][i] \in Connections
        BY IdsFacts DEF LifeInv
    <2> QED
        BY <2>1, UntickedAlters
<1>4. ASSUME NEW n \in Nodes PROVE fresh(n) \in Seq(Connections) /\ DOMAIN fresh(n) = Ids(n)
    <2>1. Ids(n) = 1..Len(conn[n]) /\ Len(conn[n]) \in Nat
        BY IdsFacts DEF LifeInv
    <2>2. \A i \in Ids(n) : Unticked(conn[n][i]) \in Connections
        BY <1>3 DEF Alters
    <2> QED
        BY <2>1, <2>2
<1>5. \A n \in Nodes : conn'[n] = fresh(n)
    BY <1>1
<1>6. ConnTypes' /\ \A n \in Nodes : Ids(n)' = Ids(n)
    <2>1. conn' \in [Nodes -> Seq(Connections)]
        BY <1>1, <1>4
    <2> QED
        BY <1>4, <1>5, <2>1 DEF ConnTypes, Ids
<1>7. \A n \in Nodes : \A i \in Ids(n) : conn'[n][i] = Unticked(conn[n][i])
    BY <1>1
<1>8. ASSUME ~Backpressure, NEW n \in Nodes, NEW i \in Ids(n)
      PROVE  Lives(conn[n][i], conn'[n][i]) /\ Sound(conn'[n][i])
    <2>1. Lives(conn[n][i], conn'[n][i])
        BY <1>3, <1>7, <1>8 DEF Alters
    <2>2. Sound(conn[n][i])
        BY <1>8 DEF LifeInv, AllSound
    <2> QED
        BY <2>1, <2>2 DEF Lives
<1>9. ~Backpressure => AllSound'
    BY <1>6, <1>8 DEF AllSound
<1> QED
    BY <1>2, <1>6, <1>8, <1>9 DEF ConnStep

LEMMA LoseLife == ASSUME LifeInv, NEW n \in Nodes, Lose(n) PROVE ConnStep /\ NetStep
<1>1. lost < MaxLost /\ lost' = lost + 1 /\ UNCHANGED <<conn, listening, failed>>
    BY DEF Lose
<1>2. ChanTypes'
    BY LoseFacts DEF LifeInv, Flows
<1>3. Ranges'
    BY <1>1, SessionAssumption DEF LifeInv, Ranges
<1> QED
    BY <1>1, <1>2, <1>3, SameConn DEF NetStep

LEMMA InitLife == Init => LifeInv
<1> SUFFICES ASSUME Init PROVE LifeInv
    OBVIOUS
<1>1. \A n \in Nodes : Ids(n) = {}
    BY DEF Init, Ids
<1>2. ConnTypes /\ ChanTypes
    BY DEF Init, ConnTypes, ChanTypes
<1>3. Ranges
    BY SessionAssumption DEF Init, Ranges
<1> QED
    BY <1>1, <1>2, <1>3 DEF LifeInv, AllSound

LEMMA NextLife == LifeInv /\ [Next]_vars => ConnStep /\ LifeInv'
<1> SUFFICES ASSUME LifeInv, [Next]_vars PROVE ConnStep /\ NetStep
    BY DEF LifeInv, ConnStep, NetStep
<1>1. ASSUME NEW n \in Nodes, Program(n) PROVE ConnStep /\ NetStep
    <2>1. CASE StopListening(n)
        BY <2>1, SameConn, UnsentNet DEF StopListening
    <2> QED
        BY <1>1, <2>1, OpenConnectionLife, CloseLife DEF Program
<1>2. ASSUME NEW n \in Nodes, Step(n) PROVE ConnStep /\ NetStep
    <2>1. CASE Receive(n)
        BY <2>1, RecvRequestLife, ReceivedLife, RecvReqAckLife, RecvOpenAckLife,
            RecvCloseLife DEF Receive
    <2> QED
        BY <1>2, <2>1, ResumesLife, CloseConnectionLife, CloseLife, TickSendLife DEF Step
<1>3. CASE UNCHANGED vars
    BY <1>3, SameConn, UnsentNet DEF vars
<1> QED
    BY <1>1, <1>2, <1>3, LoseLife, NextIntervalLife DEF Next

LEMMA LifeInvariant == Spec => []LifeInv
BY InitLife, NextLife, PTL DEF Spec

(* Every variable of the two managers keeps its type, whatever is lost,    *)
(* raises or suspends; the clock of no timer passes the timeout.           *)
THEOREM TypeCorrect == Spec => []TypeOK
<1>1. LifeInv => TypeOK
    BY DEF LifeInv, ConnTypes, ChanTypes, Ranges, Packets, TypeOK
<1> QED
    BY <1>1, LifeInvariant, PTL

(* Where no send suspends, although sends may raise and any packet may be  *)
(* lost: a connection is in the dictionary exactly until it is CLOSED, and *)
(* then its timer has stopped.                                             *)
THEOREM RetiredAlways == ASSUME ~Backpressure PROVE Spec => []Retired
<1>1. LifeInv => Retired
    BY DEF LifeInv, AllSound, Sound, Retired
<1> QED
    BY <1>1, LifeInvariant, PTL

(* Likewise: connection_made comes at most once, and never after           *)
(* connection_lost.                                                        *)
THEOREM MadeOnceBeforeGone == ASSUME ~Backpressure PROVE Spec => MadeBeforeGone
<1>1. LifeInv /\ [Next]_vars =>
        [\A n \in Nodes : \A i \in Ids(n) :
            conn'[n][i].made # conn[n][i].made =>
                conn[n][i].made = 0 /\ conn[n][i].gone = 0]_vars
    <2> SUFFICES ASSUME LifeInv, [Next]_vars, NEW n \in Nodes, NEW i \in Ids(n),
                        conn'[n][i].made # conn[n][i].made
                 PROVE  conn[n][i].made = 0 /\ conn[n][i].gone = 0
        OBVIOUS
    <2>1. Sound(conn[n][i]) /\ Lives(conn[n][i], conn'[n][i])
        BY NextLife DEF LifeInv, AllSound, ConnStep
    <2> QED
        BY <2>1 DEF Lives, Sound
<1> QED
    BY <1>1, LifeInvariant, PTL DEF Spec, MadeBeforeGone

(* Likewise: no late packet, timer or close of the program brings a CLOSED *)
(* connection back.                                                        *)
THEOREM ClosedStaysClosed == ASSUME ~Backpressure PROVE Spec => ClosedIsFinal
<1>1. LifeInv /\ [Next]_vars =>
        [\A n \in Nodes : \A i \in Ids(n) :
            conn[n][i].state = "CLOSED" => conn'[n][i].state = "CLOSED"]_vars
    <2> SUFFICES ASSUME LifeInv, [Next]_vars, NEW n \in Nodes, NEW i \in Ids(n),
                        conn[n][i].state = "CLOSED"
                 PROVE  conn'[n][i].state = "CLOSED"
        OBVIOUS
    <2>1. Sound(conn[n][i]) /\ Lives(conn[n][i], conn'[n][i])
        BY NextLife DEF LifeInv, AllSound, ConnStep
    <2> QED
        BY <2>1 DEF Lives
<1> QED
    BY <1>1, LifeInvariant, PTL DEF Spec, ClosedIsFinal
===============================================================================

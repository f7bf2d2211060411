------------------------------- MODULE TP4Proofs -------------------------------
(***************************************************************************)
(* What a TP4 connection promises as long as nothing is lost and no send   *)
(* raises, and what of it remains when PDUs are lost: data in order, an    *)
(* end of stream that comes after all the data, an end that is final.      *)
(* For any number of connections opened at both nodes, any number of       *)
(* writes, closes at either side or both, and sends that suspend.          *)
(***************************************************************************)
EXTENDS TP4, SequenceTheorems, TLAPS

-------------------------------------------------------------------------------
(* What is in a sequence, and in which order.                              *)

In(s, x) == \E k \in 1..Len(s) : s[k] = x
Before(s, x, y) == \E j, k \in 1..Len(s) : j < k /\ s[j] = x /\ s[k] = y

LEMMA BeforeIn ==
    ASSUME NEW T, NEW s \in Seq(T)
    PROVE  /\ \A x : In(s, x) => x \in T
           /\ \A x, y : Before(s, x, y) => In(s, x) /\ In(s, y)
BY DEF In, Before

LEMMA InTail ==
    ASSUME NEW T, NEW s \in Seq(T), s # <<>>
    PROVE  /\ Head(s) \in T /\ Tail(s) \in Seq(T) /\ In(s, Head(s))
           /\ \A x : In(Tail(s), x) => In(s, x) /\ Before(s, Head(s), x)
           /\ \A x : In(s, x) => x = Head(s) \/ In(Tail(s), x)
           /\ \A x, y : Before(Tail(s), x, y) => Before(s, x, y)
<1> DEFINE t == Tail(s)
<1>1. /\ Head(s) = s[1] /\ Head(s) \in T /\ t \in Seq(T)
      /\ Len(s) \in Nat /\ Len(s) >= 1 /\ Len(t) = Len(s) - 1
      /\ \A k \in 1..Len(t) : t[k] = s[k + 1] /\ k + 1 \in 1..Len(s)
    OBVIOUS
<1> HIDE DEF t
<1>2. In(s, Head(s))
    BY <1>1 DEF In
<1>3. ASSUME NEW x, In(t, x)
      PROVE  In(s, x) /\ Before(s, Head(s), x)
    <2>1. PICK k \in 1..Len(t) : t[k] = x
        BY <1>3 DEF In
    <2>2. k + 1 \in 1..Len(s) /\ s[k + 1] = x /\ 1 \in 1..Len(s) /\ 1 < k + 1
        BY <1>1, <2>1
    <2> QED
        BY <1>1, <2>2 DEF In, Before
<1>4. ASSUME NEW x, In(s, x), x # Head(s)
      PROVE  In(t, x)
    <2>1. PICK k \in 1..Len(s) : s[k] = x
        BY <1>4 DEF In
    <2>2. k - 1 \in 1..Len(t) /\ t[k - 1] = s[(k - 1) + 1] /\ (k - 1) + 1 = k
        BY <1>1, <1>4, <2>1
    <2> QED
        BY <2>1, <2>2 DEF In
<1>5. ASSUME NEW x, NEW y, Before(t, x, y)
      PROVE  Before(s, x, y)
    <2>1. PICK j, k \in 1..Len(t) : j < k /\ t[j] = x /\ t[k] = y
        BY <1>5 DEF Before
    <2>2. /\ j + 1 \in 1..Len(s) /\ k + 1 \in 1..Len(s) /\ j + 1 < k + 1
          /\ s[j + 1] = x /\ s[k + 1] = y
        BY <1>1, <2>1
    <2> QED
        BY <2>2 DEF Before
<1> QED
    BY <1>1, <1>2, <1>3, <1>4, <1>5 DEF t

LEMMA InAppend ==
    ASSUME NEW T, NEW s \in Seq(T), NEW z \in T
    PROVE  /\ Append(s, z) \in Seq(T)
           /\ \A x : In(Append(s, z), x) <=> In(s, x) \/ x = z
           /\ \A x, y : Before(Append(s, z), x, y) =>
                            Before(s, x, y) \/ (In(s, x) /\ y = z)
<1> DEFINE t == Append(s, z)
<1>1. /\ t \in Seq(T) /\ Len(s) \in Nat /\ Len(t) = Len(s) + 1 /\ t[Len(s) + 1] = z
      /\ \A k \in 1..Len(s) : t[k] = s[k] /\ k \in 1..Len(t)
      /\ \A k \in 1..Len(t) : k \in 1..Len(s) \/ k = Len(s) + 1
    OBVIOUS
<1> HIDE DEF t
<1>2. \A x : In(t, x) => In(s, x) \/ x = z
    BY <1>1 DEF In
<1>3. \A x : In(s, x) => In(t, x)
    BY <1>1 DEF In
<1>4. In(t, z)
    <2>1. Len(s) + 1 \in 1..Len(t)
        BY <1>1
    <2> QED
        BY <1>1, <2>1 DEF In
<1>5. ASSUME NEW x, NEW y, Before(t, x, y)
      PROVE  Before(s, x, y) \/ (In(s, x) /\ y = z)
    <2>1. PICK j, k \in 1..Len(t) : j < k /\ t[j] = x /\ t[k] = y
        BY <1>5 DEF Before
    <2>2. j \in 1..Len(s) /\ s[j] = x
        BY <1>1, <2>1
    <2>3. CASE k \in 1..Len(s)
        BY <1>1, <2>1, <2>2, <2>3 DEF Before
    <2>4. CASE k = Len(s) + 1
        BY <1>1, <2>1, <2>2, <2>4 DEF In
    <2> QED
        BY <1>1, <2>3, <2>4
<1> QED
    BY <1>1, <1>2, <1>3, <1>4, <1>5 DEF t

Without(s, i) == SubSeq(s, 1, i - 1) \o SubSeq(s, i + 1, Len(s))

LEMMA InWithout ==
    ASSUME NEW T, NEW s \in Seq(T), NEW i \in 1..Len(s), NEW t, t = Without(s, i)
    PROVE  /\ t \in Seq(T)
           /\ \A x : In(t, x) => In(s, x)
           /\ \A x, y : Before(t, x, y) => Before(s, x, y)
<1> DEFINE a == SubSeq(s, 1, i - 1)
           b == SubSeq(s, i + 1, Len(s))
           At(k) == IF k <= i - 1 THEN k ELSE k + 1
<1>1. /\ a \in Seq(T) /\ Len(a) = i - 1
      /\ \A k \in 1..Len(a) : a[k] = s[k]
    OBVIOUS
<1>2. /\ b \in Seq(T) /\ Len(b) = Len(s) - i
      /\ \A k \in 1..Len(b) : b[k] = s[k + i]
    OBVIOUS
<1>3. t = a \o b
    BY DEF Without
<1> HIDE DEF a, b
<1>4. /\ t \in Seq(T) /\ Len(t) = Len(a) + Len(b)
      /\ \A k \in 1..(Len(a) + Len(b)) :
            t[k] = IF k <= Len(a) THEN a[k] ELSE b[k - Len(a)]
    <2>1. a \in Seq(T) /\ b \in Seq(T)
        BY <1>1, <1>2
    <2>2. /\ a \o b \in Seq(T) /\ Len(a \o b) = Len(a) + Len(b)
          /\ \A k \in 1..(Len(a) + Len(b)) :
                (a \o b)[k] = IF k <= Len(a) THEN a[k] ELSE b[k - Len(a)]
        BY <2>1, ConcatProperties, Zenon
    <2> QED
        BY <1>3, <2>2
<1>5. Len(s) \in Nat /\ i \in Nat /\ 1 <= i /\ i <= Len(s)
    OBVIOUS
<1>0. Len(t) = Len(s) - 1
    BY <1>1, <1>2, <1>4, <1>5
<1>6. ASSUME NEW k \in 1..Len(t)
      PROVE  At(k) \in 1..Len(s) /\ t[k] = s[At(k)]
    <2>0. k \in 1..(Len(a) + Len(b)) /\ k \in Nat
        BY <1>0, <1>1, <1>2, <1>4, <1>5
    <2>1. CASE k <= i - 1
        <3>1. k \in 1..Len(a) /\ t[k] = a[k] /\ k \in 1..Len(s)
            BY <1>1, <1>4, <1>5, <2>0, <2>1
        <3> QED
            BY <1>1, <2>1, <3>1
    <2>2. CASE ~(k <= i - 1)
        <3>1. k - (i - 1) \in 1..Len(b) /\ (k - (i - 1)) + i = k + 1
            BY <1>0, <1>2, <1>5, <2>0, <2>2
        <3>2. t[k] = b[k - (i - 1)]
            BY <1>1, <1>2, <1>4, <1>5, <2>0, <2>2
        <3> QED
            BY <1>0, <1>2, <1>5, <2>0, <2>2, <3>1, <3>2
    <2> QED
        BY <2>1, <2>2
<1>7. \A j, k \in 1..Len(t) : j < k => At(j) < At(k)
    BY <1>0, <1>5
<1> HIDE DEF At
<1>8. \A x : In(t, x) => In(s, x)
    BY <1>6 DEF In
<1>9. \A x, y : Before(t, x, y) => Before(s, x, y)
    <2> SUFFICES ASSUME NEW x, NEW y, Before(t, x, y)
                 PROVE  Before(s, x, y)
        OBVIOUS
    <2>1. PICK j, k \in 1..Len(t) : j < k /\ t[j] = x /\ t[k] = y
        BY DEF Before
    <2> QED
        BY <1>6, <1>7, <2>1 DEF Before
<1> QED
    BY <1>4, <1>8, <1>9

LEMMA Peers ==
    /\ \A n \in Nodes : Peer(n) \in Nodes /\ Peer(n) # n /\ Peer(Peer(n)) = n
    /\ \A n, m \in Nodes : m = n \/ m = Peer(n)
BY DEF Nodes, Peer

-------------------------------------------------------------------------------
(* The invariant: types.                                                   *)

PDUTypes == {"CR", "CC", "DR", "DC", "DT"}
PDUs == [type : PDUTypes, src : Nat, dst : Nat, data : 0..MaxWrites]
Tasks == [kind : {"data", "close"}, id : Nat, data : 0..MaxWrites]

ConnTypes == conn \in [Nodes -> Seq(Connections)]
Types ==
    /\ ConnTypes
    /\ tasks \in [Nodes -> Seq(Tasks)]
    /\ chan \in [Nodes -> Seq(PDUs)]
    /\ lost \in 0..MaxLost /\ failed \in 0..MaxFail

(* A connection by itself.                                                 *)
ConnSound(c, f) ==
    /\ c.state = "SYN_SENT" => c.remote = 0
    /\ c.state \in {"ESTABLISHED", "FIN_WAIT"} => c.remote # 0
    /\ c.call \in {"none", "returned"} => c.remote # 0
    /\ c.call \in {"waiting", "raised"} => c.written = 0 /\ ~c.closing
    /\ c.remote = 0 => c.received = <<>>
    /\ c.eof <=> c.state = "CLOSED"
    /\ ~c.listed => c.state = "CLOSED"
    /\ c.handler = "removing" => c.state = "CLOSED"
    /\ c.state = "CLOSED" /\ f = 0 => ~c.listed \/ c.handler = "removing"

ConnsSound == \A n \in Nodes : \A i \in Ids(n) : ConnSound(conn[n][i], failed)

(* Who is connected to whom.                                               *)
AcceptorLinked ==
    \A n \in Nodes : \A i \in Ids(n) : conn[n][i].call = "none" =>
        conn[n][i].remote \in Ids(Peer(n)) /\ Other(n, i).call # "none"

OpenerLinked ==
    \A n \in Nodes : \A i \in Ids(n) : conn[n][i].call # "none" /\ conn[n][i].remote # 0 =>
        /\ conn[n][i].remote \in Ids(Peer(n))
        /\ Other(n, i).call = "none" /\ Other(n, i).remote = i

OneAcceptor ==
    \A n \in Nodes : \A i, j \in Ids(n) :
        conn[n][i].call = "none" /\ conn[n][j].call = "none"
            /\ conn[n][i].remote = conn[n][j].remote => i = j

Links == AcceptorLinked /\ OpenerLinked /\ OneAcceptor

(* The tasks: a close comes after the data written before it.              *)
Queued(n, t) == In(tasks[n], t)

TaskSound(n, t) ==
    /\ t.id \in Ids(n) /\ conn[n][t.id].call \in {"none", "returned"}
    /\ t.kind = "data" => t.data \in 1..conn[n][t.id].written
    /\ t.kind = "close" => conn[n][t.id].closing

CloseLast ==
    \A n \in Nodes : \A t, u : Before(tasks[n], t, u) /\ t.id = u.id =>
        /\ t.kind = "data"
        /\ u.kind = "data" => t.data < u.data

Finished(n, i) == conn[n][i].closing /\ \A t : Queued(n, t) => t.id # i

ClosingFinished ==
    \A n \in Nodes : \A i \in Ids(n) : conn[n][i].state = "FIN_WAIT" => Finished(n, i)

TasksSound ==
    /\ \A n \in Nodes : \A t : Queued(n, t) => TaskSound(n, t)
    /\ CloseLast /\ ClosingFinished

(* The PDUs under way.                                                     *)
Sending(n, p) == In(chan[n], p)

PDUSound(n, p) ==
    /\ p.src \in Ids(n)
    /\ p.type = "CR" => /\ conn[n][p.src].call # "none"
                        /\ \A j \in Ids(Peer(n)) : conn[Peer(n)][j].call = "none" =>
                                conn[Peer(n)][j].remote # p.src
    /\ p.type = "CC" => conn[n][p.src].call = "none"
    /\ p.type \in {"CC", "DT", "DR"} => p.dst # 0
    /\ p.type \in {"CC", "DT", "DR", "DC"} /\ p.dst # 0 => conn[n][p.src].remote = p.dst
    /\ p.type = "DT" => p.data \in 1..conn[n][p.src].written
    /\ p.type = "DR" => Finished(n, p.src) /\ conn[n][p.src].state \in {"FIN_WAIT", "CLOSED"}
    /\ p.type = "DC" => conn[n][p.src].state = "CLOSED"

OneRequest ==
    \A n \in Nodes : \A p, q :
        Before(chan[n], p, q) /\ p.type = "CR" /\ q.type = "CR" => p.src # q.src

WireInOrder ==
    \A n \in Nodes : \A p, q :
        Before(chan[n], p, q) /\ p.src = q.src /\ q.type = "DT" =>
            /\ p.type # "DR"
            /\ p.type = "DT" => p.data < q.data

PDUsSound ==
    /\ \A n \in Nodes : \A p : Sending(n, p) => PDUSound(n, p)
    /\ OneRequest /\ WireInOrder

(* Data received are older than data under way, and those older than data  *)
(* still queued.                                                           *)
Below(r, x) == \A k \in DOMAIN r : r[k] < x
Rising(r) == \A j, k \in DOMAIN r : j < k => r[j] < r[k]

ReceivedBeforeWire ==
    \A n \in Nodes : \A p : Sending(n, p) /\ p.type = "DT" =>
        Below(Other(n, p.src).received, p.data)

WireBeforeQueue ==
    \A n \in Nodes : \A p, t :
        Sending(n, p) /\ Queued(n, t) /\ p.type = "DT" /\ t.kind = "data" /\ p.src = t.id =>
            p.data < t.data

ReceivedBeforeQueue ==
    \A n \in Nodes : \A t : Queued(n, t) /\ t.kind = "data" =>
        Below(Other(n, t.id).received, t.data)

ReceivedWritten ==
    \A n \in Nodes : \A i \in Ids(n) :
        /\ Rising(conn[n][i].received)
        /\ conn[n][i].remote # 0 => Below(conn[n][i].received, Other(n, i).written + 1)

Ordered == ReceivedBeforeWire /\ WireBeforeQueue /\ ReceivedBeforeQueue /\ ReceivedWritten

(* As long as nothing is lost and no send raises: CC comes before data;    *)
(* a connection is CLOSED because its peer closed or answered; each write  *)
(* is received, under way or queued while the reader may still take it.    *)
ConfirmFirst ==
    \A n \in Nodes : \A i \in Ids(n) :
        conn[n][i].call = "none" /\ Other(n, i).state = "SYN_SENT" =>
            \E p : /\ Sending(n, p) /\ p.type = "CC" /\ p.src = i
                   /\ \A q : Before(chan[n], q, p) => q.src # i

BothClosing ==
    \A n \in Nodes : \A i \in Ids(n) : conn[n][i].state = "CLOSED" =>
        conn[n][i].remote # 0 /\ Other(n, i).state \in {"FIN_WAIT", "CLOSED"}

DataSent(n, i, d) ==
    \E p : Sending(n, p) /\ p.type = "DT" /\ p.src = i /\ p.data = d
DataQueued(n, i, d) ==
    \E t : Queued(n, t) /\ t.kind = "data" /\ t.id = i /\ t.data = d

NothingMissing ==
    \A n \in Nodes : \A i \in Ids(n) :
        conn[n][i].remote # 0 /\ Other(n, i).state \in {"SYN_SENT", "ESTABLISHED"} =>
            \A d \in 1..conn[n][i].written :
                d <= Len(Other(n, i).received) \/ DataSent(n, i, d) \/ DataQueued(n, i, d)

AllDelivered ==
    \A n \in Nodes : \A i \in Ids(n) : conn[n][i].eof /\ ~conn[n][i].closing =>
        /\ conn[n][i].remote # 0 /\ Other(n, i).closing
        /\ Len(conn[n][i].received) = Other(n, i).written

NoGaps ==
    \A n \in Nodes : \A i \in Ids(n) :
        \A k \in DOMAIN conn[n][i].received : conn[n][i].received[k] = k

Complete == Reliable => ConfirmFirst /\ BothClosing /\ NothingMissing /\ AllDelivered /\ NoGaps

Inv == Types /\ ConnsSound /\ Links /\ TasksSound /\ PDUsSound /\ Ordered /\ Complete

-------------------------------------------------------------------------------
(* Connections: what each of the handlers makes of one.                    *)

(* What no step undoes.                                                    *)
Evolves(c, d) ==
    /\ d.call = "none" <=> c.call = "none"
    /\ c.call \in {"none", "returned"} => d.call = c.call
    /\ c.remote # 0 => d.remote = c.remote
    /\ c.written <= d.written
    /\ c.closing => d.closing /\ d.written = c.written
    /\ c.state = "CLOSED" => d.state = "CLOSED"
    /\ c.state = "FIN_WAIT" => d.state \in {"FIN_WAIT", "CLOSED"}
    /\ c.state = "ESTABLISHED" => d.state # "SYN_SENT"
    /\ c.state # "ESTABLISHED" => d.received = c.received

(* The same, by one that keeps its remote and what it has received.        *)
Keeps(c, d) == d.remote = c.remote /\ d.received = c.received

LEMMA NewConnFacts ==
    ASSUME NEW state \in {"SYN_SENT", "ESTABLISHED"}, NEW remote \in Nat,
           NEW call \in {"none", "waiting", "raised"}, NEW f,
           NEW d, d = NewConn(state, remote, call)
    PROVE  /\ d \in Connections
           /\ d.state = state /\ d.remote = remote /\ d.call = call
           /\ d.received = <<>> /\ d.written = 0 /\ ~d.closing /\ ~d.eof
           /\ (state = "SYN_SENT" <=> remote = 0) /\ (call = "none" => remote # 0)
                => ConnSound(d, f)
<1>1. d \in Connections
    BY TP4Assumption DEF NewConn, Connections
<1>2. /\ d.state = state /\ d.remote = remote /\ d.call = call
      /\ d.received = <<>> /\ d.written = 0 /\ d.closing = FALSE /\ d.eof = FALSE
      /\ d.listed = TRUE /\ d.handler = "none"
    BY DEF NewConn
<1> QED
    BY <1>1, <1>2 DEF ConnSound

LEMMA PollFacts ==
    ASSUME NEW c \in Connections, c.call = "waiting", NEW f, ConnSound(c, f),
           NEW d, \/ c.state = "ESTABLISHED" /\ d = [c EXCEPT !.call = "returned"]
                  \/ c.polls < MaxPolls /\ d = [c EXCEPT !.polls = @ + 1]
                  \/ d = [c EXCEPT !.call = "raised"]
    PROVE  d \in Connections /\ Evolves(c, d) /\ ConnSound(d, f) /\ Keeps(c, d)
           /\ d.state = c.state /\ d.written = c.written /\ d.closing = c.closing
           /\ d.eof = c.eof
<1>1. c.polls \in 0..MaxPolls /\ c.written \in 0..MaxWrites /\ c.closing \in BOOLEAN
    BY DEF Connections
<1>2. \A k \in 0..MaxPolls : [c EXCEPT !.polls = k] \in Connections
    BY DEF Connections
<1>3. c.polls < MaxPolls => c.polls + 1 \in 0..MaxPolls
    BY <1>1, TP4Assumption
<1>4. d \in Connections
    <2>1. [c EXCEPT !.call = "returned"] \in Connections
          /\ [c EXCEPT !.call = "raised"] \in Connections
        BY DEF Connections
    <2> QED
        BY <1>2, <1>3, <2>1
<1>5. /\ Keeps(c, d) /\ d.state = c.state /\ d.written = c.written /\ d.closing = c.closing
      /\ d.eof = c.eof /\ d.listed = c.listed /\ d.handler = c.handler
      /\ d.call \in {"waiting", "raised"} \/ c.state = "ESTABLISHED"
      /\ d.call \in {"waiting", "returned", "raised"}
    BY DEF Connections, Keeps
<1> QED
    BY <1>1, <1>4, <1>5 DEF Evolves, ConnSound, Keeps

LEMMA WriteFacts ==
    ASSUME NEW c \in Connections, InUse(c), c.written < MaxWrites, NEW f, ConnSound(c, f),
           NEW d, d = [c EXCEPT !.written = @ + 1]
    PROVE  d \in Connections /\ Evolves(c, d) /\ ConnSound(d, f) /\ Keeps(c, d)
           /\ d.state = c.state /\ d.written = c.written + 1 /\ d.closing = c.closing
           /\ d.eof = c.eof
<1>1. c.written \in 0..MaxWrites /\ c.closing \in BOOLEAN
    BY DEF Connections
<1>2. \A k \in 0..MaxWrites : [c EXCEPT !.written = k] \in Connections
    BY DEF Connections
<1>3. c.written + 1 \in 0..MaxWrites
    BY <1>1, TP4Assumption
<1>4. d \in Connections
    BY <1>2, <1>3
<1>5. /\ Keeps(c, d) /\ d.state = c.state /\ d.written = c.written + 1
      /\ d.closing = c.closing /\ d.eof = c.eof /\ d.listed = c.listed
      /\ d.handler = c.handler /\ d.call = c.call
    BY DEF Connections, Keeps
<1> QED
    BY <1>1, <1>4, <1>5 DEF Evolves, ConnSound, Keeps, InUse

LEMMA CloseFacts ==
    ASSUME NEW c \in Connections, InUse(c), NEW f, ConnSound(c, f),
           NEW d, d = CloseCalled(c)
    PROVE  d \in Connections /\ Evolves(c, d) /\ ConnSound(d, f) /\ Keeps(c, d)
           /\ d.state = c.state /\ d.written = c.written /\ d.closing /\ d.eof = c.eof
<1>1. c.written \in 0..MaxWrites /\ d \in Connections
    BY DEF Connections, CloseCalled
<1>2. /\ Keeps(c, d) /\ d.state = c.state /\ d.written = c.written
      /\ d.closing = TRUE /\ d.eof = c.eof /\ d.listed = c.listed
      /\ d.handler = c.handler /\ d.call = c.call
    BY DEF Connections, Keeps, CloseCalled
<1> QED
    BY <1>1, <1>2 DEF Evolves, ConnSound, Keeps, InUse

(* close_connection.                                                       *)
LEMMA FinFacts ==
    ASSUME NEW c \in Connections, c.state # "CLOSED", c.remote # 0, NEW f, ConnSound(c, f),
           NEW d, d = [c EXCEPT !.state = "FIN_WAIT"]
    PROVE  d \in Connections /\ Evolves(c, d) /\ ConnSound(d, f) /\ Keeps(c, d)
           /\ d.state = "FIN_WAIT" /\ d.written = c.written /\ d.closing = c.closing
           /\ ~d.eof
<1>1. c.written \in 0..MaxWrites /\ d \in Connections
    BY DEF Connections
<1>2. /\ Keeps(c, d) /\ d.state = "FIN_WAIT" /\ d.written = c.written
      /\ d.closing = c.closing /\ d.eof = c.eof /\ d.listed = c.listed
      /\ d.handler = c.handler /\ d.call = c.call
    BY DEF Connections, Keeps
<1> QED
    BY <1>1, <1>2 DEF Evolves, ConnSound, Keeps

(* _handle_cc.                                                             *)
ConfirmedBy(c, r) == [c EXCEPT !.state = "ESTABLISHED", !.remote = r]

LEMMA ConfirmedFacts ==
    ASSUME NEW c \in Connections, c.state = "SYN_SENT", NEW f, ConnSound(c, f),
           NEW r \in Nat \ {0},
           NEW d, d = ConfirmedBy(c, r)
    PROVE  d \in Connections /\ Evolves(c, d) /\ ConnSound(d, f)
           /\ d.remote = r /\ d.received = c.received
           /\ d.state = "ESTABLISHED" /\ d.written = c.written /\ d.closing = c.closing
           /\ ~d.eof /\ d.call = c.call
<1>1. c.written \in 0..MaxWrites /\ d \in Connections
    BY DEF Connections, ConfirmedBy
<1>2. /\ d.received = c.received /\ d.remote = r
      /\ d.state = "ESTABLISHED" /\ d.written = c.written
      /\ d.closing = c.closing /\ d.eof = c.eof /\ d.listed = c.listed
      /\ d.handler = c.handler /\ d.call = c.call
    BY DEF Connections, ConfirmedBy
<1> QED
    BY <1>1, <1>2 DEF Evolves, ConnSound

(* _handle_dr, its end, and _handle_dc.                                    *)
ClosedBy(c) == [c EXCEPT !.state = "CLOSED", !.eof = TRUE]

Removes(b, d) == d = [b EXCEPT !.listed = FALSE] \/ d = [b EXCEPT !.handler = "removing"]

LEMMA ClosedFacts ==
    ASSUME NEW c \in Connections, NEW f, NEW g, ConnSound(c, f), c.handler = "none",
           NEW b, b = ClosedBy(c), NEW d,
           Removes(b, d) \/ (d = b /\ g # 0) \/ d = Disconnected(c)
    PROVE  d \in Connections /\ Evolves(c, d) /\ ConnSound(d, g) /\ Keeps(c, d)
           /\ d.state = "CLOSED" /\ d.written = c.written /\ d.closing = c.closing
           /\ d.eof
<1>1. c.written \in 0..MaxWrites /\ c.closing \in BOOLEAN
    BY DEF Connections
<1>2. b \in Connections
    BY DEF Connections, ClosedBy
<1>3. /\ Keeps(c, b) /\ b.state = "CLOSED" /\ b.written = c.written
      /\ b.closing = c.closing /\ b.eof = TRUE /\ b.listed = c.listed
      /\ b.handler = "none" /\ b.call = c.call
    BY DEF Connections, Keeps, ClosedBy
<1>4. Disconnected(c) = [b EXCEPT !.listed = FALSE]
    BY DEF Connections, Disconnected, ClosedBy
<1> HIDE DEF Disconnected
<1>5. d = [b EXCEPT !.listed = FALSE] \/ d = [b EXCEPT !.handler = "removing"] \/ (d = b /\ g # 0)
    BY <1>4 DEF Removes
<1>6. d \in Connections
    BY <1>2, <1>5 DEF Connections
<1>7. /\ Keeps(b, d) /\ d.state = b.state /\ d.written = b.written
      /\ d.closing = b.closing /\ d.eof = b.eof /\ d.call = b.call
      /\ g = 0 => d.listed = FALSE \/ d.handler = "removing"
    BY <1>2, <1>5 DEF Connections, Keeps
<1> QED
    BY <1>1, <1>3, <1>6, <1>7 DEF Evolves, ConnSound, Keeps

LEMMA RemovedFacts ==
    ASSUME NEW c \in Connections, NEW f, ConnSound(c, f), c.handler = "removing",
           NEW d, d = [c EXCEPT !.handler = "none", !.listed = FALSE]
    PROVE  d \in Connections /\ Evolves(c, d) /\ ConnSound(d, f) /\ Keeps(c, d)
           /\ d.state = "CLOSED" /\ d.written = c.written /\ d.closing = c.closing
           /\ d.eof = c.eof
<1>1. c.written \in 0..MaxWrites /\ d \in Connections
    BY DEF Connections
<1>2. /\ Keeps(c, d) /\ d.state = c.state /\ d.written = c.written
      /\ d.closing = c.closing /\ d.eof = c.eof /\ d.listed = FALSE
      /\ d.handler = "none" /\ d.call = c.call
    BY DEF Connections, Keeps
<1> QED
    BY <1>1, <1>2 DEF Evolves, ConnSound, Keeps

(* _handle_dt.                                                             *)
FedWith(c, x) == [c EXCEPT !.received = Append(@, x)]

LEMMA FedFacts ==
    ASSUME NEW c \in Connections, NEW f, ConnSound(c, f), c.state = "ESTABLISHED",
           NEW x \in 1..MaxWrites, NEW d, d = FedWith(c, x)
    PROVE  d \in Connections /\ Evolves(c, d) /\ ConnSound(d, f)
           /\ d.remote = c.remote /\ d.received = Append(c.received, x)
           /\ d.state = "ESTABLISHED" /\ d.written = c.written /\ d.closing = c.closing
           /\ d.eof = c.eof
<1>1. c.received \in Seq(1..MaxWrites)
    BY DEF Connections
<1>2. \A r \in Seq(1..MaxWrites) : [c EXCEPT !.received = r] \in Connections
    BY DEF Connections
<1>3. Append(c.received, x) \in Seq(1..MaxWrites)
    BY <1>1
<1>4. c.written \in 0..MaxWrites /\ d \in Connections
    BY <1>2, <1>3 DEF Connections, FedWith
<1>5. /\ d.received = Append(c.received, x) /\ d.remote = c.remote
      /\ d.state = c.state /\ d.written = c.written
      /\ d.closing = c.closing /\ d.eof = c.eof /\ d.listed = c.listed
      /\ d.handler = c.handler /\ d.call = c.call
    BY DEF Connections, FedWith
<1> QED
    BY <1>4, <1>5 DEF Evolves, ConnSound

LEMMA SameFacts ==
    ASSUME NEW c \in Connections, NEW f, ConnSound(c, f), NEW g, g = 0 => f = 0
    PROVE  Evolves(c, c) /\ ConnSound(c, g)
<1>1. c.written \in 0..MaxWrites
    BY DEF Connections
<1> QED
    BY <1>1 DEF Evolves, ConnSound

-------------------------------------------------------------------------------
(* A step, seen from the connections: none disappears, each old one        *)
(* evolves, a new one is fresh, and a new acceptor has taken its CR.       *)

Fresh(c) ==
    /\ c.written = 0 /\ c.received = <<>> /\ ~c.closing /\ ~c.eof
    /\ c.state \in {"SYN_SENT", "ESTABLISHED"}
    /\ c.call = "none" => c.state = "ESTABLISHED"

ConnStep ==
    /\ ConnTypes' /\ ConnsSound' /\ Links'
    /\ \A n \in Nodes : Ids(n) \subseteq Ids(n)'
    /\ \A n \in Nodes : \A i \in Ids(n) : Evolves(conn[n][i], conn'[n][i])
    /\ \A n \in Nodes : \A i \in Ids(n)' : i \notin Ids(n) =>
        /\ Fresh(conn'[n][i])
        /\ conn'[n][i].call = "none" =>
            \A p : Sending(Peer(n), p)' /\ p.type = "CR" => p.src # conn'[n][i].remote

LEMMA IdsFacts ==
    ASSUME ConnTypes, NEW n \in Nodes
    PROVE  /\ Ids(n) = 1..Len(conn[n]) /\ Len(conn[n]) \in Nat
           /\ \A i \in Ids(n) : conn[n][i] \in Connections /\ i \in Nat /\ i # 0
           /\ Id(n) \in Nat /\ Id(n) # 0 /\ Id(n) \notin Ids(n)
<1>1. conn[n] \in Seq(Connections)
    BY DEF ConnTypes
<1> QED
    BY <1>1 DEF Ids, Id

LEMMA NextConns ==
    ASSUME ConnTypes', NEW n \in Nodes, NEW i \in Ids(n)'
    PROVE  conn'[n][i] \in Connections
<1>1. conn'[n] \in Seq(Connections) /\ i \in DOMAIN conn'[n]
    BY DEF ConnTypes, Ids
<1> QED
    BY <1>1

LEMMA ReplaceFacts ==
    ASSUME ConnTypes, NEW n \in Nodes, NEW i \in Ids(n), NEW c \in Connections,
           Replace(n, i, c)
    PROVE  /\ ConnTypes'
           /\ \A m \in Nodes : Ids(m)' = Ids(m)
           /\ conn'[n][i] = c
           /\ \A m \in Nodes : \A j \in Ids(m) :
                m # n \/ j # i => conn'[m][j] = conn[m][j]
<1>1. conn[n] \in Seq(Connections) /\ Ids(n) = 1..Len(conn[n])
    BY IdsFacts DEF ConnTypes
<1>2. conn' = [conn EXCEPT ![n] = [conn[n] EXCEPT ![i] = c]]
    BY DEF Replace
<1> DEFINE s == [conn[n] EXCEPT ![i] = c]
<1>3. /\ s \in Seq(Connections) /\ DOMAIN s = DOMAIN conn[n]
      /\ s[i] = c /\ \A j \in Ids(n) : j # i => s[j] = conn[n][j]
    BY <1>1 DEF Ids
<1>4. conn'[n] = s /\ \A m \in Nodes : m # n => conn'[m] = conn[m]
    BY <1>2 DEF ConnTypes
<1> HIDE DEF s
<1>5. ConnTypes'
    BY <1>2, <1>3 DEF ConnTypes, s
<1>6. \A m \in Nodes : Ids(m)' = Ids(m)
    BY <1>3, <1>4 DEF Ids
<1> QED
    BY <1>3, <1>4, <1>5, <1>6

Adds(n, c) == conn' = [conn EXCEPT ![n] = Append(@, c)]

LEMMA AddsFacts ==
    ASSUME ConnTypes, NEW n \in Nodes, NEW c \in Connections, Adds(n, c)
    PROVE  /\ ConnTypes'
           /\ Ids(n)' = Ids(n) \cup {Id(n)} /\ Ids(Peer(n))' = Ids(Peer(n))
           /\ conn'[n][Id(n)] = c
           /\ \A m \in Nodes : \A j \in Ids(m) : conn'[m][j] = conn[m][j]
<1>1. conn[n] \in Seq(Connections) /\ Ids(n) = 1..Len(conn[n])
    BY IdsFacts DEF ConnTypes
<1> DEFINE s == Append(conn[n], c)
<1>2. /\ s \in Seq(Connections) /\ Len(s) = Len(conn[n]) + 1
      /\ s[Id(n)] = c /\ \A j \in Ids(n) : s[j] = conn[n][j]
    BY <1>1 DEF Id
<1>3. conn'[n] = s /\ \A m \in Nodes : m # n => conn'[m] = conn[m]
    BY DEF ConnTypes, Adds
<1>4. DOMAIN s = 1..(Len(conn[n]) + 1)
    BY <1>2
<1> HIDE DEF s
<1>5. ConnTypes'
    BY <1>2 DEF ConnTypes, Adds, s
<1>6. Ids(n)' = Ids(n) \cup {Id(n)}
    BY <1>1, <1>3, <1>4, IdsFacts DEF Ids, Id
<1>7. Ids(Peer(n))' = Ids(Peer(n))
    BY <1>3, Peers DEF Ids
<1> QED
    BY <1>2, <1>3, <1>5, <1>6, <1>7

(* The peer's connection that this one is, or is to be, connected to.      *)
Binds(n, i, r) ==
    /\ r \in Ids(Peer(n)) /\ conn[n][i].call # "none"
    /\ conn[Peer(n)][r].call = "none" /\ conn[Peer(n)][r].remote = i

LEMMA ReplaceStep ==
    ASSUME ConnTypes, ConnsSound, Links, NEW n \in Nodes, NEW i \in Ids(n),
           NEW c \in Connections, Replace(n, i, c), Evolves(conn[n][i], c),
           ConnSound(c, failed'), failed' = 0 => failed = 0,
           c.remote = conn[n][i].remote \/ Binds(n, i, c.remote)
    PROVE  ConnStep
<1> DEFINE o == Peer(n)
<1>1. /\ o \in Nodes /\ o # n /\ Peer(o) = n /\ Peer(n) = o
      /\ \A m \in Nodes : m = n \/ m = o
    BY Peers
<1>2. /\ ConnTypes' /\ \A m \in Nodes : Ids(m)' = Ids(m)
      /\ conn'[n][i] = c
      /\ \A m \in Nodes : \A j \in Ids(m) : m # n \/ j # i => conn'[m][j] = conn[m][j]
    BY ReplaceFacts
<1> HIDE DEF o
<1>3. \A m \in Nodes : \A j \in Ids(m) : conn[m][j] \in Connections /\ j \in Nat /\ j # 0
    BY IdsFacts
<1>4. ASSUME NEW m \in Nodes, NEW j \in Ids(m)
      PROVE  Evolves(conn[m][j], conn'[m][j]) /\ ConnSound(conn'[m][j], failed')
    <2>1. CASE m = n /\ j = i
        BY <1>2, <2>1
    <2>2. CASE m # n \/ j # i
        BY <1>2, <1>3, <2>2, SameFacts DEF ConnsSound
    <2> QED
        BY <2>1, <2>2
<1>5. ConnsSound'
    BY <1>2, <1>4 DEF ConnsSound
<1>6. (conn[n][i].call = "none") <=> (c.call = "none")
    BY DEF Evolves
<1>7. \A j \in Ids(o) : conn'[o][j] = conn[o][j]
    BY <1>1, <1>2
<1>8. conn[n][i].remote # 0 => c.remote = conn[n][i].remote
    BY DEF Evolves
<1>9. AcceptorLinked'
    <2> SUFFICES ASSUME NEW m \in Nodes, NEW j \in Ids(m), conn'[m][j].call = "none"
                 PROVE  /\ conn'[m][j].remote \in Ids(Peer(m))'
                        /\ conn'[Peer(m)][conn'[m][j].remote].call # "none"
        BY <1>2 DEF AcceptorLinked, Other
    <2>1. conn[m][j].call = "none"
        BY <1>2, <1>6
    <2>2. conn[m][j].remote \in Ids(Peer(m)) /\ conn[Peer(m)][conn[m][j].remote].call # "none"
        BY <2>1 DEF Links, AcceptorLinked, Other
    <2>3. conn'[m][j].remote = conn[m][j].remote
        BY <1>2, <2>1 DEF Binds
    <2>4. \A k \in Ids(Peer(m)) : (conn'[Peer(m)][k].call = "none") <=> (conn[Peer(m)][k].call = "none")
        BY <1>1, <1>2, <1>6
    <2> QED
        BY <1>1, <1>2, <2>2, <2>3, <2>4
<1>10. OpenerLinked'
    <2> SUFFICES ASSUME NEW m \in Nodes, NEW j \in Ids(m), conn'[m][j].call # "none",
                        conn'[m][j].remote # 0
                 PROVE  /\ conn'[m][j].remote \in Ids(Peer(m))'
                        /\ conn'[Peer(m)][conn'[m][j].remote].call = "none"
                        /\ conn'[Peer(m)][conn'[m][j].remote].remote = j
        BY <1>2 DEF OpenerLinked, Other
    <2> DEFINE r == conn'[m][j].remote
    <2>1. conn[m][j].call # "none"
        BY <1>2, <1>6
    <2>2. r \in Ids(Peer(m)) /\ conn[Peer(m)][r].call = "none" /\ conn[Peer(m)][r].remote = j
        <3>1. CASE r = conn[m][j].remote
            BY <2>1, <3>1 DEF Links, OpenerLinked, Other
        <3>2. CASE r # conn[m][j].remote
            <4>1. m = n /\ j = i
                BY <1>2, <3>2
            <4> QED
                BY <1>1, <1>2, <3>2, <4>1 DEF Binds
        <3> QED
            BY <3>1, <3>2
    <2>3. conn'[Peer(m)][r].call = "none" /\ conn'[Peer(m)][r].remote = j
        <3>1. CASE Peer(m) = n /\ r = i
            BY <1>2, <1>3, <1>6, <1>8, <2>2, <3>1
        <3>2. CASE Peer(m) # n \/ r # i
            BY <1>1, <1>2, <2>2, <3>2
        <3> QED
            BY <3>1, <3>2
    <2> QED
        BY <1>1, <1>2, <2>2, <2>3
<1>11. OneAcceptor'
    <2> SUFFICES ASSUME NEW m \in Nodes, NEW j \in Ids(m), NEW k \in Ids(m),
                        conn'[m][j].call = "none", conn'[m][k].call = "none",
                        conn'[m][j].remote = conn'[m][k].remote
                 PROVE  j = k
        BY <1>2 DEF OneAcceptor
    <2>1. \A l \in Ids(m) : conn'[m][l].call = "none" =>
            conn[m][l].call = "none" /\ conn'[m][l].remote = conn[m][l].remote
        BY <1>2, <1>6 DEF Binds
    <2> QED
        BY <2>1 DEF Links, OneAcceptor
<1> QED
    BY <1>2, <1>4, <1>5, <1>9, <1>10, <1>11 DEF ConnStep, Links

LEMMA SameStep ==
    ASSUME ConnTypes, ConnsSound, Links, conn' = conn, failed' = 0 => failed = 0
    PROVE  ConnStep
<1>1. \A m \in Nodes : Ids(m)' = Ids(m)
    BY DEF Ids
<1>2. \A m \in Nodes : \A j \in Ids(m) : conn[m][j] \in Connections
    BY IdsFacts
<1>3. ASSUME NEW m \in Nodes, NEW j \in Ids(m)
      PROVE  Evolves(conn[m][j], conn[m][j]) /\ ConnSound(conn[m][j], failed')
    <2>1. ConnSound(conn[m][j], failed)
        BY DEF ConnsSound
    <2> QED
        BY <1>2, <2>1, SameFacts
<1>4. ConnTypes' /\ Links'
    BY DEF ConnTypes, Links, AcceptorLinked, OpenerLinked, OneAcceptor, Other, Ids
<1> QED
    BY <1>1, <1>3, <1>4 DEF ConnStep, ConnsSound

LEMMA AddsStep ==
    ASSUME ConnTypes, ConnsSound, Links, NEW n \in Nodes,
           NEW c \in Connections, Adds(n, c), Fresh(c),
           ConnSound(c, failed'), failed' = 0 => failed = 0,
           c.call # "none" => c.remote = 0,
           c.call = "none" =>
                /\ c.remote \in Ids(Peer(n)) /\ conn[Peer(n)][c.remote].call # "none"
                /\ \A j \in Ids(n) : conn[n][j].call = "none" => conn[n][j].remote # c.remote
                /\ \A p : Sending(Peer(n), p)' /\ p.type = "CR" => p.src # c.remote
    PROVE  ConnStep
<1> DEFINE o == Peer(n)
           i == Id(n)
<1>1. /\ o \in Nodes /\ o # n /\ Peer(o) = n /\ Peer(n) = o
      /\ \A m \in Nodes : m = n \/ m = o
    BY Peers
<1>2. /\ ConnTypes' /\ Ids(n)' = Ids(n) \cup {i} /\ Ids(o)' = Ids(o)
      /\ conn'[n][i] = c
      /\ \A m \in Nodes : \A j \in Ids(m) : conn'[m][j] = conn[m][j]
    BY AddsFacts
<1>3. /\ \A m \in Nodes : \A j \in Ids(m) : conn[m][j] \in Connections
      /\ i \notin Ids(n)
    BY IdsFacts
<1> HIDE DEF o, i
<1>4. ASSUME NEW m \in Nodes, NEW j \in Ids(m)
      PROVE  Evolves(conn[m][j], conn'[m][j]) /\ ConnSound(conn'[m][j], failed')
    BY <1>2, <1>3, SameFacts DEF ConnsSound
<1>5. \A m \in Nodes : \A j \in Ids(m)' : j \in Ids(m) \/ (m = n /\ j = i)
    BY <1>1, <1>2
<1>6. ConnsSound'
    BY <1>2, <1>4, <1>5 DEF ConnsSound
<1>7. \A m \in Nodes : Ids(m) \subseteq Ids(m)'
    BY <1>1, <1>2
<1>8. AcceptorLinked'
    <2> SUFFICES ASSUME NEW m \in Nodes, NEW j \in Ids(m)', conn'[m][j].call = "none"
                 PROVE  /\ conn'[m][j].remote \in Ids(Peer(m))'
                        /\ conn'[Peer(m)][conn'[m][j].remote].call # "none"
        BY DEF AcceptorLinked, Other
    <2>1. CASE j \in Ids(m)
        <3>1. conn[m][j].call = "none" /\ conn'[m][j] = conn[m][j]
            BY <1>2, <2>1
        <3>2. conn[m][j].remote \in Ids(Peer(m)) /\ conn[Peer(m)][conn[m][j].remote].call # "none"
            BY <2>1, <3>1 DEF Links, AcceptorLinked, Other
        <3> QED
            BY <1>1, <1>2, <1>7, <3>1, <3>2
    <2>2. CASE m = n /\ j = i
        BY <1>1, <1>2, <1>7, <2>2 DEF o
    <2> QED
        BY <1>5, <2>1, <2>2
<1>9. OpenerLinked'
    <2> SUFFICES ASSUME NEW m \in Nodes, NEW j \in Ids(m)', conn'[m][j].call # "none",
                        conn'[m][j].remote # 0
                 PROVE  /\ conn'[m][j].remote \in Ids(Peer(m))'
                        /\ conn'[Peer(m)][conn'[m][j].remote].call = "none"
                        /\ conn'[Peer(m)][conn'[m][j].remote].remote = j
        BY DEF OpenerLinked, Other
    <2>1. j \in Ids(m)
        BY <1>2, <1>5
    <2>2. conn'[m][j] = conn[m][j]
        BY <1>2, <2>1
    <2>3. /\ conn[m][j].remote \in Ids(Peer(m))
          /\ conn[Peer(m)][conn[m][j].remote].call = "none"
          /\ conn[Peer(m)][conn[m][j].remote].remote = j
        BY <2>1, <2>2 DEF Links, OpenerLinked, Other
    <2> QED
        BY <1>1, <1>2, <1>7, <2>2, <2>3
<1>10. OneAcceptor'
    <2> SUFFICES ASSUME NEW m \in Nodes, NEW j \in Ids(m)', NEW k \in Ids(m)',
                        conn'[m][j].call = "none", conn'[m][k].call = "none",
                        conn'[m][j].remote = conn'[m][k].remote
                 PROVE  j = k
        BY DEF OneAcceptor
    <2>1. CASE j \in Ids(m) /\ k \in Ids(m)
        BY <1>2, <2>1 DEF Links, OneAcceptor
    <2>2. CASE m = n /\ (j = i \/ k = i)
        BY <1>2, <1>5, <2>2
    <2> QED
        BY <1>5, <2>1, <2>2
<1>11. \A m \in Nodes : \A j \in Ids(m)' : j \notin Ids(m) =>
            /\ Fresh(conn'[m][j])
            /\ conn'[m][j].call = "none" =>
                \A p : Sending(Peer(m), p)' /\ p.type = "CR" => p.src # conn'[m][j].remote
    BY <1>2, <1>5
<1> QED
    BY <1>2, <1>4, <1>6, <1>7, <1>8, <1>9, <1>10, <1>11 DEF ConnStep, Links

-------------------------------------------------------------------------------
(* A step, seen from the wire and the queues: what is new there comes last,*)
(* and is one of the PDUs P of node n, or one of its tasks T.              *)

WireFlow(n, P) ==
    /\ chan' \in [Nodes -> Seq(PDUs)]
    /\ \A m \in Nodes : \A p : Sending(m, p)' => Sending(m, p) \/ (m = n /\ p \in P)
    /\ \A m \in Nodes : \A p, q : Before(chan[m], p, q)' =>
            Before(chan[m], p, q) \/ (m = n /\ Sending(n, p) /\ q \in P)

QueueFlow(n, T) ==
    /\ tasks' \in [Nodes -> Seq(Tasks)]
    /\ \A m \in Nodes : \A t : Queued(m, t)' => Queued(m, t) \/ (m = n /\ t \in T)
    /\ \A m \in Nodes : \A t, u : Before(tasks[m], t, u)' =>
            Before(tasks[m], t, u) \/ (m = n /\ Queued(n, t) /\ u \in T)

Stays == \A m \in Nodes : \A p : Sending(m, p) => Sending(m, p)'
StaysQueued == \A m \in Nodes : \A t : Queued(m, t) => Queued(m, t)'

(* Node n takes the PDU at the head of its peer's channel.                 *)
Takes(n) ==
    /\ Sending(Peer(n), Waiting(n)) /\ Waiting(n) \in PDUs
    /\ \A p : Sending(Peer(n), p) => p = Waiting(n) \/ Sending(Peer(n), p)'
    /\ \A p : Sending(Peer(n), p)' => Before(chan[Peer(n)], Waiting(n), p)
    /\ \A p : Sending(n, p) => Sending(n, p)'

ChanTypes == chan \in [Nodes -> Seq(PDUs)]
TaskTypes == tasks \in [Nodes -> Seq(Tasks)]

LEMMA SameWire ==
    ASSUME ChanTypes, NEW n \in Nodes, NEW P, chan' = chan
    PROVE  WireFlow(n, P) /\ Stays
BY DEF WireFlow, Stays, Sending, ChanTypes

LEMMA SameQueue ==
    ASSUME TaskTypes, NEW n \in Nodes, NEW T, tasks' = tasks
    PROVE  QueueFlow(n, T) /\ StaysQueued
BY DEF QueueFlow, StaysQueued, Queued, TaskTypes

LEMMA SentFlow ==
    ASSUME ChanTypes, NEW n \in Nodes, NEW p \in PDUs, Sent(chan, n, p)
    PROVE  WireFlow(n, {p}) /\ Stays /\ Sending(n, p)' /\ failed' = failed
<1>1. chan' = [chan EXCEPT ![n] = Append(@, p)] /\ failed' = failed
    BY DEF Sent, Put
<1>2. chan'[n] = Append(chan[n], p) /\ \A m \in Nodes : m # n => chan'[m] = chan[m]
    BY <1>1 DEF ChanTypes
<1>3. chan[n] \in Seq(PDUs)
    BY DEF ChanTypes
<1>4. /\ chan'[n] \in Seq(PDUs)
      /\ \A x : In(chan'[n], x) <=> In(chan[n], x) \/ x = p
      /\ \A x, y : Before(chan'[n], x, y) =>
                        Before(chan[n], x, y) \/ (In(chan[n], x) /\ y = p)
    BY <1>2, <1>3, InAppend
<1>5. chan' \in [Nodes -> Seq(PDUs)]
    BY <1>1, <1>2, <1>4 DEF ChanTypes
<1> QED
    BY <1>1, <1>2, <1>4, <1>5 DEF WireFlow, Stays, Sending

LEMMA RestFacts ==
    ASSUME ChanTypes, NEW n \in Nodes, chan[Peer(n)] # <<>>
    PROVE  /\ Rest(n) \in [Nodes -> Seq(PDUs)]
           /\ Waiting(n) \in PDUs /\ Sending(Peer(n), Waiting(n))
           /\ \A m \in Nodes : m # Peer(n) => Rest(n)[m] = chan[m]
           /\ \A x : In(Rest(n)[Peer(n)], x) =>
                        Sending(Peer(n), x) /\ Before(chan[Peer(n)], Waiting(n), x)
           /\ \A x : Sending(Peer(n), x) => x = Waiting(n) \/ In(Rest(n)[Peer(n)], x)
           /\ \A x, y : Before(Rest(n)[Peer(n)], x, y) => Before(chan[Peer(n)], x, y)
<1> DEFINE s == chan[Peer(n)]
<1>1. Peer(n) \in Nodes /\ s \in Seq(PDUs) /\ s # <<>>
    BY Peers DEF ChanTypes
<1>2. /\ Rest(n)[Peer(n)] = Tail(s)
      /\ \A m \in Nodes : m # Peer(n) => Rest(n)[m] = chan[m]
    BY <1>1 DEF ChanTypes, Rest
<1>3. /\ Head(s) \in PDUs /\ Tail(s) \in Seq(PDUs) /\ In(s, Head(s))
      /\ \A x : In(Tail(s), x) => In(s, x) /\ Before(s, Head(s), x)
      /\ \A x : In(s, x) => x = Head(s) \/ In(Tail(s), x)
      /\ \A x, y : Before(Tail(s), x, y) => Before(s, x, y)
    BY <1>1, InTail
<1>4. Rest(n) \in [Nodes -> Seq(PDUs)]
    BY <1>1, <1>3 DEF Rest, ChanTypes
<1> QED
    BY <1>1, <1>2, <1>3, <1>4 DEF Waiting, Sending

LEMMA TakenFlow ==
    ASSUME ChanTypes, NEW n \in Nodes, chan[Peer(n)] # <<>>, chan' = Rest(n), NEW P
    PROVE  WireFlow(n, P) /\ Takes(n)
<1>1. Peer(n) \in Nodes /\ Peer(n) # n /\ \A m \in Nodes : m = n \/ m = Peer(n)
    BY Peers
<1>2. /\ Rest(n) \in [Nodes -> Seq(PDUs)]
      /\ Waiting(n) \in PDUs /\ Sending(Peer(n), Waiting(n))
      /\ \A m \in Nodes : m # Peer(n) => Rest(n)[m] = chan[m]
      /\ \A x : In(Rest(n)[Peer(n)], x) =>
                   Sending(Peer(n), x) /\ Before(chan[Peer(n)], Waiting(n), x)
      /\ \A x : Sending(Peer(n), x) => x = Waiting(n) \/ In(Rest(n)[Peer(n)], x)
      /\ \A x, y : Before(Rest(n)[Peer(n)], x, y) => Before(chan[Peer(n)], x, y)
    BY RestFacts
<1> HIDE DEF Rest, Waiting
<1> QED
    BY <1>1, <1>2 DEF WireFlow, Takes, Sending

LEMMA AnsweredFlow ==
    ASSUME ChanTypes, NEW n \in Nodes, chan[Peer(n)] # <<>>, NEW p \in PDUs,
           Sent(Rest(n), n, p)
    PROVE  WireFlow(n, {p}) /\ Takes(n) /\ Sending(n, p)' /\ failed' = failed
<1>1. Peer(n) \in Nodes /\ Peer(n) # n /\ \A m \in Nodes : m = n \/ m = Peer(n)
    BY Peers
<1>2. /\ Rest(n) \in [Nodes -> Seq(PDUs)]
      /\ Waiting(n) \in PDUs /\ Sending(Peer(n), Waiting(n))
      /\ \A m \in Nodes : m # Peer(n) => Rest(n)[m] = chan[m]
      /\ \A x : In(Rest(n)[Peer(n)], x) =>
                   Sending(Peer(n), x) /\ Before(chan[Peer(n)], Waiting(n), x)
      /\ \A x : Sending(Peer(n), x) => x = Waiting(n) \/ In(Rest(n)[Peer(n)], x)
      /\ \A x, y : Before(Rest(n)[Peer(n)], x, y) => Before(chan[Peer(n)], x, y)
    BY RestFacts
<1>3. chan' = [Rest(n) EXCEPT ![n] = Append(@, p)] /\ failed' = failed
    BY DEF Sent, Put
<1>4. Rest(n)[n] = chan[n] /\ chan[n] \in Seq(PDUs)
    BY <1>1, <1>2 DEF ChanTypes
<1> HIDE DEF Rest, Waiting
<1>5. chan'[n] = Append(chan[n], p) /\ chan'[Peer(n)] = Rest(n)[Peer(n)]
    BY <1>1, <1>2, <1>3, <1>4
<1>6. /\ chan'[n] \in Seq(PDUs)
      /\ \A x : In(chan'[n], x) <=> In(chan[n], x) \/ x = p
      /\ \A x, y : Before(chan'[n], x, y) =>
                        Before(chan[n], x, y) \/ (In(chan[n], x) /\ y = p)
    BY <1>4, <1>5, InAppend
<1>7. chan' \in [Nodes -> Seq(PDUs)]
    BY <1>2, <1>3, <1>5, <1>6
<1>8. WireFlow(n, {p})
    BY <1>1, <1>2, <1>5, <1>6, <1>7 DEF WireFlow, Sending
<1>9. Takes(n) /\ Sending(n, p)'
    BY <1>1, <1>2, <1>5, <1>6 DEF Takes, Sending
<1> QED
    BY <1>3, <1>8, <1>9

LEMMA LostFlow ==
    ASSUME ChanTypes, NEW n \in Nodes, Lose(n), NEW P
    PROVE  WireFlow(n, P)
<1>1. PICK i \in 1..Len(chan[n]) : chan' = [chan EXCEPT ![n] = Without(@, i)]
    BY DEF Lose, Without
<1>2. chan[n] \in Seq(PDUs)
    BY DEF ChanTypes
<1>3. chan'[n] = Without(chan[n], i) /\ \A m \in Nodes : m # n => chan'[m] = chan[m]
    BY <1>1 DEF ChanTypes
<1>4. /\ chan'[n] \in Seq(PDUs)
      /\ \A x : In(chan'[n], x) => In(chan[n], x)
      /\ \A x, y : Before(chan'[n], x, y) => Before(chan[n], x, y)
    BY <1>2, <1>3, InWithout
<1>5. chan' \in [Nodes -> Seq(PDUs)]
    BY <1>1, <1>3, <1>4 DEF ChanTypes
<1> QED
    BY <1>3, <1>4, <1>5 DEF WireFlow, Sending

(* Tasks.                                                                  *)
LEMMA CreatedFlow ==
    ASSUME TaskTypes, NEW n \in Nodes, NEW t \in Tasks,
           tasks' = [tasks EXCEPT ![n] = Append(@, t)]
    PROVE  QueueFlow(n, {t}) /\ StaysQueued /\ Queued(n, t)'
<1>2. tasks'[n] = Append(tasks[n], t) /\ \A m \in Nodes : m # n => tasks'[m] = tasks[m]
    BY DEF TaskTypes
<1>3. tasks[n] \in Seq(Tasks)
    BY DEF TaskTypes
<1>4. /\ tasks'[n] \in Seq(Tasks)
      /\ \A x : In(tasks'[n], x) <=> In(tasks[n], x) \/ x = t
      /\ \A x, y : Before(tasks'[n], x, y) =>
                        Before(tasks[n], x, y) \/ (In(tasks[n], x) /\ y = t)
    BY <1>2, <1>3, InAppend
<1>5. tasks' \in [Nodes -> Seq(Tasks)]
    BY <1>2, <1>4 DEF TaskTypes
<1> QED
    BY <1>2, <1>4, <1>5 DEF QueueFlow, StaysQueued, Queued

LEMMA StartedFlow ==
    ASSUME TaskTypes, NEW n \in Nodes, tasks[n] # <<>>, Started(n), NEW T
    PROVE  /\ QueueFlow(n, T)
           /\ Queued(n, tasks[n][Due(n)]) /\ tasks[n][Due(n)] \in Tasks
           /\ \A t : Queued(n, t) => t = tasks[n][Due(n)] \/ Queued(n, t)'
           /\ \A t : Queued(n, t)' => Before(tasks[n], tasks[n][Due(n)], t)
           /\ \A t : Queued(Peer(n), t) => Queued(Peer(n), t)'
<1> DEFINE s == tasks[n]
<1>1. s \in Seq(Tasks) /\ s # <<>>
    BY DEF TaskTypes
<1>2. Due(n) = 1 /\ s[Due(n)] = Head(s)
    BY <1>1 DEF Due
<1>3. SubSeq(s, 1, Due(n) - 1) \o SubSeq(s, Due(n) + 1, Len(s)) = Tail(s)
    <2>1. SubSeq(s, 1, Due(n) - 1) = <<>>
        BY <1>1, <1>2
    <2>2. SubSeq(s, Due(n) + 1, Len(s)) = Tail(s)
        BY <1>1, <1>2
    <2>3. Tail(s) \in Seq(Tasks)
        BY <1>1
    <2>4. <<>> \o Tail(s) = Tail(s)
        BY <2>3, ConcatEmptySeq, Zenon
    <2> QED
        BY <2>1, <2>2, <2>4
<1>4. tasks'[n] = Tail(s) /\ \A m \in Nodes : m # n => tasks'[m] = tasks[m]
    BY <1>3 DEF Started, TaskTypes
<1>5. /\ Head(s) \in Tasks /\ Tail(s) \in Seq(Tasks) /\ In(s, Head(s))
      /\ \A x : In(Tail(s), x) => In(s, x) /\ Before(s, Head(s), x)
      /\ \A x : In(s, x) => x = Head(s) \/ In(Tail(s), x)
      /\ \A x, y : Before(Tail(s), x, y) => Before(s, x, y)
    BY <1>1, InTail
<1>6. tasks' \in [Nodes -> Seq(Tasks)]
    BY <1>3, <1>5 DEF Started, TaskTypes
<1>7. Peer(n) \in Nodes /\ Peer(n) # n
    BY Peers
<1>8. QueueFlow(n, T)
    BY <1>4, <1>5, <1>6 DEF QueueFlow, Queued
<1> QED
    BY <1>2, <1>4, <1>5, <1>7, <1>8 DEF Queued

-------------------------------------------------------------------------------
(* What a new PDU and a new task must be.                                  *)

NewTask(n, t) ==
    /\ t.id \in Ids(n) /\ conn[n][t.id].remote # 0 /\ ~conn[n][t.id].closing
    /\ TaskSound(n, t)'
    /\ t.kind = "data" => t.data = conn[n][t.id].written + 1

(* DT is what the task that starts was created for.                        *)
OfTask(n, p) ==
    \E t : /\ Queued(n, t) /\ t.kind = "data" /\ t.id = p.src /\ t.data = p.data
           /\ \A u : Queued(n, u)' => Before(tasks[n], t, u)

NewPDU(n, p) ==
    /\ PDUSound(n, p)'
    /\ p.type \in {"CR", "CC"} => p.src \notin Ids(n)
    /\ p.type = "DT" => OfTask(n, p)

(* The parts of a step that is at node n.                                  *)
StepAt(n, P, T) ==
    /\ ConnStep /\ WireFlow(n, P) /\ QueueFlow(n, T)
    /\ \A p \in P : NewPDU(n, p)
    /\ \A t \in T : NewTask(n, t)
    /\ \A m \in Nodes : \A i \in Ids(m) :
        conn[m][i].state # "FIN_WAIT" /\ conn'[m][i].state = "FIN_WAIT" => Finished(m, i)'

LEMMA TypedItems ==
    ASSUME Types
    PROVE  /\ \A n \in Nodes : \A p : Sending(n, p) => p \in PDUs
           /\ \A n \in Nodes : \A t : Queued(n, t) => t \in Tasks
           /\ \A n \in Nodes : \A p, q : Before(chan[n], p, q) => Sending(n, p) /\ Sending(n, q)
           /\ \A n \in Nodes : \A t, u : Before(tasks[n], t, u) => Queued(n, t) /\ Queued(n, u)
<1>1. \A n \in Nodes : chan[n] \in Seq(PDUs) /\ tasks[n] \in Seq(Tasks)
    BY DEF Types
<1> QED
    BY <1>1, BeforeIn DEF Sending, Queued

LEMMA FinishedStays ==
    ASSUME Inv, NEW n \in Nodes, NEW P, NEW T, StepAt(n, P, T),
           NEW m \in Nodes, NEW i \in Ids(m), Finished(m, i)
    PROVE  Finished(m, i)'
<1>1. conn[m][i].closing /\ Evolves(conn[m][i], conn'[m][i])
    BY DEF Finished, StepAt, ConnStep
<1>2. conn'[m][i].closing
    BY <1>1 DEF Evolves
<1>3. ASSUME NEW t, Queued(m, t)'
      PROVE  t.id # i
    <2>1. Queued(m, t) \/ (m = n /\ NewTask(n, t))
        BY <1>3 DEF StepAt, QueueFlow
    <2> QED
        BY <1>1, <2>1 DEF Finished, NewTask
<1> QED
    BY <1>2, <1>3 DEF Finished

LEMMA TasksStep ==
    ASSUME Inv, NEW n \in Nodes, NEW P, NEW T, StepAt(n, P, T)
    PROVE  TasksSound'
<1>1. \A m \in Nodes : \A i \in Ids(m) :
        i \in Ids(m)' /\ Evolves(conn[m][i], conn'[m][i]) /\ conn[m][i] \in Connections
    BY IdsFacts DEF StepAt, ConnStep, Inv, Types
<1>1a. \A m \in Nodes : \A i \in Ids(m)' : conn'[m][i] \in Connections
    BY NextConns DEF StepAt, ConnStep
<1>2. ASSUME NEW m \in Nodes, NEW t, Queued(m, t)'
      PROVE  TaskSound(m, t)'
    <2>1. CASE Queued(m, t)
        <3>1. TaskSound(m, t)
            BY <2>1 DEF Inv, TasksSound
        <3>2. /\ t.id \in Ids(m) /\ conn[m][t.id].call \in {"none", "returned"}
              /\ t.kind = "data" => t.data \in 1..conn[m][t.id].written
              /\ t.kind = "close" => conn[m][t.id].closing
            BY <3>1 DEF TaskSound
        <3> DEFINE c == conn[m][t.id]
                   d == conn'[m][t.id]
        <3>3. Evolves(c, d) /\ c \in Connections /\ t.id \in Ids(m)' /\ d \in Connections
            BY <1>1, <1>1a, <3>2
        <3>4. c.written \in 0..MaxWrites /\ d.written \in 0..MaxWrites
            BY <3>3 DEF Connections
        <3>5. d.call \in {"none", "returned"} /\ (c.closing => d.closing) /\ c.written <= d.written
            BY <3>2, <3>3 DEF Evolves
        <3>6. t.kind = "data" => t.data \in 1..d.written
            BY <3>2, <3>4, <3>5
        <3> QED
            BY <3>2, <3>3, <3>5, <3>6 DEF TaskSound
    <2>2. CASE m = n /\ t \in T
        BY <2>2 DEF StepAt, NewTask
    <2> QED
        BY <1>2, <2>1, <2>2 DEF StepAt, QueueFlow
<1>3. ASSUME NEW m \in Nodes, NEW t, NEW u, Before(tasks[m], t, u)', t.id = u.id
      PROVE  t.kind = "data" /\ (u.kind = "data" => t.data < u.data)
    <2>1. CASE Before(tasks[m], t, u)
        BY <1>3, <2>1 DEF Inv, TasksSound, CloseLast
    <2>2. CASE m = n /\ Queued(n, t) /\ u \in T
        <3>1. TaskSound(n, t) /\ t \in Tasks
            BY <2>2, TypedItems DEF Inv, TasksSound
        <3>2. NewTask(n, u)
            BY <2>2 DEF StepAt
        <3>3. /\ t.id \in Ids(n) /\ ~conn[n][t.id].closing
              /\ t.kind = "data" => t.data \in 1..conn[n][t.id].written
              /\ t.kind = "close" => conn[n][t.id].closing
              /\ u.kind = "data" => u.data = conn[n][t.id].written + 1
            BY <1>3, <3>1, <3>2 DEF TaskSound, NewTask
        <3>4. t.kind = "data"
            BY <3>1, <3>3 DEF Tasks
        <3>5. conn[n][t.id].written \in 0..MaxWrites
            BY <1>1, <3>3 DEF Connections
        <3> QED
            BY <3>3, <3>4, <3>5
    <2> QED
        BY <1>3, <2>1, <2>2 DEF StepAt, QueueFlow
<1>4. ASSUME NEW m \in Nodes, NEW i \in Ids(m)', conn'[m][i].state = "FIN_WAIT"
      PROVE  Finished(m, i)'
    <2>1. i \in Ids(m)
        BY <1>4 DEF StepAt, ConnStep, Fresh
    <2>2. CASE conn[m][i].state = "FIN_WAIT"
        <3>1. Finished(m, i)
            BY <2>1, <2>2 DEF Inv, TasksSound, ClosingFinished
        <3> QED
            BY <2>1, <3>1, FinishedStays
    <2>3. CASE conn[m][i].state # "FIN_WAIT"
        BY <1>4, <2>1, <2>3 DEF StepAt
    <2> QED
        BY <2>2, <2>3
<1> QED
    BY <1>2, <1>3, <1>4 DEF TasksSound, CloseLast, ClosingFinished

LEMMA PDUsStep ==
    ASSUME Inv, NEW n \in Nodes, NEW P, NEW T, StepAt(n, P, T)
    PROVE  PDUsSound'
<1>1. \A m \in Nodes : \A i \in Ids(m) :
        i \in Ids(m)' /\ Evolves(conn[m][i], conn'[m][i]) /\ conn[m][i] \in Connections
    BY IdsFacts DEF StepAt, ConnStep, Inv, Types
<1>1a. \A m \in Nodes : \A i \in Ids(m)' : conn'[m][i] \in Connections
    BY NextConns DEF StepAt, ConnStep
<1>2. \A m \in Nodes : Peer(m) \in Nodes /\ Peer(Peer(m)) = m
    BY Peers
<1>3. ASSUME NEW m \in Nodes, NEW p, Sending(m, p)', Sending(m, p)
      PROVE  PDUSound(m, p)'
    <2> DEFINE c == conn[m][p.src]
               d == conn'[m][p.src]
    <2>1. PDUSound(m, p)
        BY <1>3 DEF Inv, PDUsSound
    <2>2. p.src \in Ids(m)
        BY <2>1 DEF PDUSound
    <2>3. Evolves(c, d) /\ c \in Connections /\ p.src \in Ids(m)' /\ d \in Connections
        BY <1>1, <1>1a, <2>2
    <2>4. c.written \in 0..MaxWrites /\ d.written \in 0..MaxWrites
        BY <2>3 DEF Connections
    <2>5. ASSUME p.type = "CR", NEW j \in Ids(Peer(m))', conn'[Peer(m)][j].call = "none"
          PROVE  conn'[Peer(m)][j].remote # p.src
        <3>1. CASE j \in Ids(Peer(m))
            <4>1. Evolves(conn[Peer(m)][j], conn'[Peer(m)][j])
                BY <1>1, <1>2, <3>1
            <4>2. conn[Peer(m)][j].call = "none"
                BY <2>5, <4>1 DEF Evolves
            <4>3. conn[Peer(m)][j].remote # 0
                BY <1>2, <3>1, <4>2 DEF Inv, ConnsSound, ConnSound
            <4>4. conn[Peer(m)][j].remote # p.src
                BY <2>1, <2>5, <3>1, <4>2 DEF PDUSound
            <4> QED
                BY <4>1, <4>3, <4>4 DEF Evolves
        <3>2. CASE j \notin Ids(Peer(m))
            BY <1>2, <1>3, <2>5, <3>2 DEF StepAt, ConnStep
        <3> QED
            BY <3>1, <3>2
    <2>6. p.type = "DR" => Finished(m, p.src)'
        BY <2>1, <2>2, FinishedStays DEF PDUSound
    <2>7. p.type = "DT" => p.data \in 1..d.written
        <3>1. c.written <= d.written
            BY <2>3 DEF Evolves
        <3>2. p.type = "DT" => p.data \in 1..c.written
            BY <2>1 DEF PDUSound
        <3> QED
            BY <2>4, <3>1, <3>2
    <2>8. p.type \in {"CC", "DT", "DR", "DC"} /\ p.dst # 0 => d.remote = p.dst
        BY <2>1, <2>3 DEF PDUSound, Evolves
    <2>9. /\ p.type = "CR" => d.call # "none"
          /\ p.type = "CC" => d.call = "none"
          /\ p.type = "DR" => d.state \in {"FIN_WAIT", "CLOSED"}
          /\ p.type = "DC" => d.state = "CLOSED"
          /\ p.type \in {"CC", "DT", "DR"} => p.dst # 0
        BY <2>1, <2>3 DEF PDUSound, Evolves
    <2> QED
        BY <2>3, <2>5, <2>6, <2>7, <2>8, <2>9 DEF PDUSound
<1>4. ASSUME NEW m \in Nodes, NEW p, Sending(m, p)'
      PROVE  PDUSound(m, p)'
    <2>1. Sending(m, p) \/ (m = n /\ NewPDU(n, p))
        BY <1>4 DEF StepAt, WireFlow
    <2> QED
        BY <1>3, <1>4, <2>1 DEF NewPDU
<1>5. ASSUME NEW m \in Nodes, NEW p, NEW q, Before(chan[m], p, q)',
             p.type = "CR", q.type = "CR"
      PROVE  p.src # q.src
    <2>1. CASE Before(chan[m], p, q)
        BY <1>5, <2>1 DEF Inv, PDUsSound, OneRequest
    <2>2. CASE m = n /\ Sending(n, p) /\ q \in P
        <3>1. PDUSound(n, p) /\ NewPDU(n, q)
            BY <2>2 DEF Inv, PDUsSound, StepAt
        <3> QED
            BY <1>5, <3>1 DEF PDUSound, NewPDU
    <2> QED
        BY <1>5, <2>1, <2>2 DEF StepAt, WireFlow
<1>6. ASSUME NEW m \in Nodes, NEW p, NEW q, Before(chan[m], p, q)',
             p.src = q.src, q.type = "DT"
      PROVE  p.type # "DR" /\ (p.type = "DT" => p.data < q.data)
    <2>1. CASE Before(chan[m], p, q)
        BY <1>6, <2>1 DEF Inv, PDUsSound, WireInOrder
    <2>2. CASE m = n /\ Sending(n, p) /\ q \in P
        <3>1. PDUSound(n, p) /\ NewPDU(n, q)
            BY <2>2 DEF Inv, PDUsSound, StepAt
        <3>2. PICK t : Queued(n, t) /\ t.kind = "data" /\ t.id = q.src /\ t.data = q.data
            BY <1>6, <3>1 DEF NewPDU, OfTask
        <3>3. p.type # "DR"
            BY <1>6, <3>1, <3>2 DEF PDUSound, Finished
        <3>4. p.type = "DT" => p.data < q.data
            BY <1>6, <2>2, <3>2 DEF Inv, Ordered, WireBeforeQueue
        <3> QED
            BY <3>3, <3>4
    <2> QED
        BY <1>6, <2>1, <2>2 DEF StepAt, WireFlow
<1> QED
    BY <1>4, <1>5, <1>6 DEF PDUsSound, OneRequest, WireInOrder

-------------------------------------------------------------------------------
(* The two ends of a connection know each other, and stay together.        *)

LEMMA Pairing ==
    ASSUME Inv, NEW n \in Nodes, NEW i \in Ids(n), conn[n][i].remote # 0
    PROVE  /\ conn[n][i].remote \in Ids(Peer(n)) /\ Peer(n) \in Nodes
           /\ (Other(n, i).call = "none") <=> (conn[n][i].call # "none")
           /\ Other(n, i).remote # 0 => Other(n, i).remote = i
           /\ conn[n][i] \in Connections /\ Other(n, i) \in Connections
<1> DEFINE r == conn[n][i].remote
<1>1. Peer(n) \in Nodes /\ Peer(Peer(n)) = n
    BY Peers
<1>2. CASE conn[n][i].call = "none"
    <2>1. r \in Ids(Peer(n)) /\ Other(n, i).call # "none"
        BY <1>2 DEF Inv, Links, AcceptorLinked
    <2>2. ASSUME Other(n, i).remote # 0
          PROVE  Other(n, i).remote = i
        <3>1. /\ conn[Peer(n)][r].remote \in Ids(n)
              /\ conn[n][conn[Peer(n)][r].remote].call = "none"
              /\ conn[n][conn[Peer(n)][r].remote].remote = r
            BY <1>1, <2>1, <2>2 DEF Inv, Links, OpenerLinked, Other
        <3> QED
            BY <1>2, <3>1 DEF Inv, Links, OneAcceptor, Other
    <2> QED
        BY <1>1, <1>2, <2>1, <2>2, IdsFacts DEF Inv, Types, Other
<1>3. CASE conn[n][i].call # "none"
    <2>1. r \in Ids(Peer(n)) /\ Other(n, i).call = "none" /\ Other(n, i).remote = i
        BY <1>3 DEF Inv, Links, OpenerLinked
    <2> QED
        BY <1>1, <1>3, <2>1, IdsFacts DEF Inv, Types, Other
<1> QED
    BY <1>2, <1>3

LEMMA OtherStays ==
    ASSUME Inv, ConnStep, NEW n \in Nodes, NEW i \in Ids(n), conn[n][i].remote # 0
    PROVE  /\ i \in Ids(n)' /\ conn'[n][i].remote = conn[n][i].remote
           /\ conn[n][i].remote \in Ids(Peer(n)) /\ Peer(n) \in Nodes
           /\ Other(n, i) = conn[Peer(n)][conn[n][i].remote]
           /\ Other(n, i)' = conn'[Peer(n)][conn[n][i].remote]
           /\ Evolves(Other(n, i), Other(n, i)')
           /\ Other(n, i)' \in Connections
<1>1. /\ conn[n][i].remote \in Ids(Peer(n)) /\ Peer(n) \in Nodes
    BY Pairing
<1>2. i \in Ids(n)' /\ conn'[n][i].remote = conn[n][i].remote
    BY DEF ConnStep, Evolves
<1>3. Evolves(conn[Peer(n)][conn[n][i].remote], conn'[Peer(n)][conn[n][i].remote])
      /\ conn[n][i].remote \in Ids(Peer(n))'
    BY <1>1 DEF ConnStep
<1>4. conn'[Peer(n)][conn[n][i].remote] \in Connections
    BY <1>1, <1>3, NextConns DEF ConnStep
<1> QED
    BY <1>1, <1>2, <1>3, <1>4 DEF Other

(* The ends of a PDU with data, or of a DR.                                *)
LEMMA PDUEnds ==
    ASSUME Inv, NEW n \in Nodes, NEW p, Sending(n, p), p.type \in {"CC", "DT", "DR"}
    PROVE  /\ p \in PDUs /\ PDUSound(n, p)
           /\ p.src \in Ids(n) /\ conn[n][p.src].remote = p.dst /\ p.dst # 0
           /\ p.dst \in Ids(Peer(n)) /\ Other(n, p.src) = conn[Peer(n)][p.dst]
<1>1. p \in PDUs /\ PDUSound(n, p)
    BY TypedItems DEF Inv, PDUsSound
<1>2. p.src \in Ids(n) /\ conn[n][p.src].remote = p.dst /\ p.dst # 0
    BY <1>1 DEF PDUSound
<1> QED
    BY <1>1, <1>2, Pairing DEF Other

LEMMA TaskEnds ==
    ASSUME Inv, NEW n \in Nodes, NEW t, Queued(n, t)
    PROVE  /\ t \in Tasks /\ TaskSound(n, t) /\ t.id \in Ids(n)
           /\ conn[n][t.id].remote # 0 /\ conn[n][t.id].state # "SYN_SENT"
           /\ conn[n][t.id].call \in {"none", "returned"}
<1>1. t \in Tasks /\ TaskSound(n, t)
    BY TypedItems DEF Inv, TasksSound
<1>2. t.id \in Ids(n) /\ conn[n][t.id].call \in {"none", "returned"}
    BY <1>1 DEF TaskSound
<1>3. ConnSound(conn[n][t.id], failed)
    BY <1>2 DEF Inv, ConnsSound
<1> QED
    BY <1>1, <1>2, <1>3 DEF ConnSound

-------------------------------------------------------------------------------
(* The order of the data.                                                  *)

SameReceived ==
    \A m \in Nodes : \A i \in Ids(m) : conn'[m][i].received = conn[m][i].received

LEMMA BelowLess ==
    ASSUME NEW r \in Seq(Nat), NEW x \in Nat, NEW y \in Nat, Below(r, x), x <= y
    PROVE  Below(r, y)
<1>1. \A k \in DOMAIN r : r[k] \in Nat
    OBVIOUS
<1> QED
    BY <1>1 DEF Below

LEMMA EmptyBelow ==
    /\ \A x : Below(<<>>, x)
    /\ Rising(<<>>)
BY DEF Below, Rising

LEMMA Receives ==
    ASSUME NEW c \in Connections
    PROVE  c.received \in Seq(Nat) /\ c.received \in Seq(1..MaxWrites)
           /\ c.written \in Nat /\ c.written \in 0..MaxWrites
           /\ c.remote \in Nat /\ c.closing \in BOOLEAN /\ c.eof \in BOOLEAN
<1>1. c.received \in Seq(1..MaxWrites) /\ c.written \in 0..MaxWrites
    BY DEF Connections
<1>2. 1..MaxWrites \subseteq Nat
    BY TP4Assumption
<1>3. c.received \in Seq(Nat)
    BY <1>1, <1>2, SeqMonotonic
<1> QED
    BY <1>1, <1>3, TP4Assumption DEF Connections

(* What a write adds is above all that its reader has received.            *)
LEMMA NewAbove ==
    ASSUME Inv, NEW n \in Nodes, NEW i \in Ids(n), conn[n][i].remote # 0
    PROVE  Below(Other(n, i).received, conn[n][i].written + 1)
<1> DEFINE r == conn[n][i].remote
<1>1. /\ r \in Ids(Peer(n)) /\ Peer(n) \in Nodes /\ Other(n, i) = conn[Peer(n)][r]
      /\ Other(n, i).remote # 0 => Other(n, i).remote = i
      /\ Peer(Peer(n)) = n
    BY Pairing, Peers DEF Other
<1>2. CASE Other(n, i).remote = 0
    <2>1. ConnSound(conn[Peer(n)][r], failed)
        BY <1>1 DEF Inv, ConnsSound
    <2> QED
        BY <1>1, <1>2, <2>1, EmptyBelow DEF ConnSound
<1>3. CASE Other(n, i).remote # 0
    <2>1. Other(Peer(n), r) = conn[n][i]
        BY <1>1, <1>3 DEF Other
    <2> QED
        BY <1>1, <1>3, <2>1 DEF Inv, Ordered, ReceivedWritten
<1> QED
    BY <1>2, <1>3

LEMMA OrderStep ==
    ASSUME Inv, NEW n \in Nodes, NEW P, NEW T, StepAt(n, P, T), SameReceived
    PROVE  Ordered'
<1>0. ConnStep
    BY DEF StepAt
<1>1. \A m \in Nodes : \A i \in Ids(m) : conn[m][i].remote # 0 =>
        Other(m, i)'.received = Other(m, i).received
    BY <1>0, OtherStays DEF SameReceived
<1>2. ASSUME NEW m \in Nodes, NEW p, Sending(m, p)', p.type = "DT"
      PROVE  Below(Other(m, p.src)'.received, p.data)
    <2>1. CASE Sending(m, p)
        <3>1. p.src \in Ids(m) /\ conn[m][p.src].remote # 0
            BY <1>2, <2>1, PDUEnds
        <3>2. Below(Other(m, p.src).received, p.data)
            BY <1>2, <2>1 DEF Inv, Ordered, ReceivedBeforeWire
        <3> QED
            BY <1>1, <3>1, <3>2
    <2>2. CASE m = n /\ NewPDU(n, p)
        <3>1. PICK t : Queued(n, t) /\ t.kind = "data" /\ t.id = p.src /\ t.data = p.data
            BY <1>2, <2>2 DEF NewPDU, OfTask
        <3>2. t.id \in Ids(n) /\ conn[n][t.id].remote # 0
            BY <3>1, TaskEnds
        <3>3. Below(Other(n, t.id).received, t.data)
            BY <3>1 DEF Inv, Ordered, ReceivedBeforeQueue
        <3> QED
            BY <1>1, <2>2, <3>1, <3>2, <3>3
    <2> QED
        BY <1>2, <2>1, <2>2 DEF StepAt, WireFlow
<1>3. ASSUME NEW m \in Nodes, NEW p, NEW t, Sending(m, p)', Queued(m, t)',
             p.type = "DT", t.kind = "data", p.src = t.id
      PROVE  p.data < t.data
    <2>1. CASE Sending(m, p) /\ Queued(m, t)
        BY <1>3, <2>1 DEF Inv, Ordered, WireBeforeQueue
    <2>2. CASE Sending(m, p) /\ m = n /\ NewTask(n, t)
        <3>1. PDUSound(n, p)
            BY <2>2 DEF Inv, PDUsSound
        <3>2. p.data \in 1..conn[n][t.id].written /\ t.data = conn[n][t.id].written + 1
            BY <1>3, <2>2, <3>1 DEF PDUSound, NewTask
        <3>3. conn[n][t.id].written \in Nat
            BY <2>2, Receives, IdsFacts DEF NewTask, Inv, Types
        <3> QED
            BY <3>2, <3>3
    <2>3. CASE m = n /\ NewPDU(n, p)
        <3>1. PICK u : /\ Queued(n, u) /\ u.kind = "data" /\ u.id = p.src /\ u.data = p.data
                       /\ Before(tasks[n], u, t)
            BY <1>3, <2>3 DEF NewPDU, OfTask
        <3> QED
            BY <1>3, <3>1 DEF Inv, TasksSound, CloseLast
    <2> QED
        BY <1>3, <2>1, <2>2, <2>3 DEF StepAt, WireFlow, QueueFlow
<1>4. ASSUME NEW m \in Nodes, NEW t, Queued(m, t)', t.kind = "data"
      PROVE  Below(Other(m, t.id)'.received, t.data)
    <2>1. CASE Queued(m, t)
        <3>1. t.id \in Ids(m) /\ conn[m][t.id].remote # 0
            BY <2>1, TaskEnds
        <3>2. Below(Other(m, t.id).received, t.data)
            BY <1>4, <2>1 DEF Inv, Ordered, ReceivedBeforeQueue
        <3> QED
            BY <1>1, <3>1, <3>2
    <2>2. CASE m = n /\ t \in T
        <3>1. NewTask(n, t)
            BY <2>2 DEF StepAt
        <3>2. t.id \in Ids(n) /\ t.data = conn[n][t.id].written + 1 /\ conn[n][t.id].remote # 0
            BY <1>4, <3>1 DEF NewTask
        <3>3. Below(Other(n, t.id).received, t.data)
            BY <3>2, NewAbove
        <3> QED
            BY <1>1, <2>2, <3>2, <3>3
    <2> QED
        BY <1>4, <2>1, <2>2 DEF StepAt, QueueFlow
<1>5. ASSUME NEW m \in Nodes, NEW i \in Ids(m)'
      PROVE  /\ Rising(conn'[m][i].received)
             /\ conn'[m][i].remote # 0 =>
                    Below(conn'[m][i].received, Other(m, i)'.written + 1)
    <2>1. CASE i \notin Ids(m)
        BY <1>0, <2>1, EmptyBelow DEF ConnStep, Fresh
    <2>2. CASE i \in Ids(m) /\ conn[m][i].remote = 0
        <3>1. conn[m][i].received = <<>>
            BY <2>2 DEF Inv, ConnsSound, ConnSound
        <3> QED
            BY <2>2, <3>1, EmptyBelow DEF SameReceived
    <2>3. CASE i \in Ids(m) /\ conn[m][i].remote # 0
        <3>1. /\ Evolves(Other(m, i), Other(m, i)') /\ Other(m, i)' \in Connections
              /\ conn[m][i] \in Connections /\ Other(m, i) \in Connections
            BY <1>0, <2>3, OtherStays, Pairing
        <3>2. Rising(conn[m][i].received) /\ Below(conn[m][i].received, Other(m, i).written + 1)
            BY <2>3 DEF Inv, Ordered, ReceivedWritten
        <3>3. /\ conn[m][i].received \in Seq(Nat)
              /\ Other(m, i).written + 1 \in Nat /\ Other(m, i)'.written + 1 \in Nat
              /\ Other(m, i).written + 1 <= Other(m, i)'.written + 1
            BY <3>1, Receives DEF Evolves
        <3>4. Below(conn[m][i].received, Other(m, i)'.written + 1)
            BY <3>2, <3>3, BelowLess
        <3> QED
            BY <2>3, <3>2, <3>4 DEF SameReceived
    <2> QED
        BY <2>1, <2>2, <2>3
<1> QED
    BY <1>2, <1>3, <1>4, <1>5
    DEF Ordered, ReceivedBeforeWire, WireBeforeQueue, ReceivedBeforeQueue, ReceivedWritten

(* _handle_dt is the one step in which a connection receives: what it is   *)
(* given is above what it had and below what is still to come.             *)
Feeds(n, i) ==
    /\ Takes(n) /\ WireFlow(n, {}) /\ QueueFlow(n, {})
    /\ tasks' = tasks
    /\ Waiting(n).type = "DT" /\ Waiting(n).dst = i /\ i \in Ids(n)
    /\ conn[n][i].state = "ESTABLISHED"
    /\ conn'[n][i].received = Append(conn[n][i].received, Waiting(n).data)
    /\ \A m \in Nodes : \A j \in Ids(m) :
        m # n \/ j # i => conn'[m][j].received = conn[m][j].received

LEMMA AppendRising ==
    ASSUME NEW r \in Seq(Nat), NEW x \in Nat, Below(r, x), Rising(r)
    PROVE  Rising(Append(r, x))
<1> DEFINE t == Append(r, x)
<1>1. /\ DOMAIN t = 1..(Len(r) + 1) /\ Len(r) \in Nat /\ DOMAIN r = 1..Len(r)
      /\ \A k \in 1..Len(r) : t[k] = r[k] /\ r[k] < x
      /\ t[Len(r) + 1] = x
    BY DEF Below
<1> HIDE DEF t
<1>2. ASSUME NEW j \in DOMAIN t, NEW k \in DOMAIN t, j < k
      PROVE  t[j] < t[k]
    <2>1. j \in 1..Len(r)
        BY <1>1, <1>2
    <2>2. CASE k \in 1..Len(r)
        BY <1>1, <1>2, <2>1, <2>2 DEF Rising
    <2>3. CASE k = Len(r) + 1
        BY <1>1, <2>1, <2>3
    <2> QED
        BY <1>1, <2>2, <2>3
<1>3. Rising(t)
    BY <1>2 DEF Rising
<1> QED
    BY <1>3 DEF t

LEMMA AppendBelow ==
    ASSUME NEW r \in Seq(Nat), NEW x \in Nat, NEW y \in Nat, Below(r, y), x < y
    PROVE  Below(Append(r, x), y)
<1> DEFINE t == Append(r, x)
<1>1. /\ DOMAIN t = 1..(Len(r) + 1) /\ Len(r) \in Nat
      /\ \A k \in 1..Len(r) : t[k] = r[k] /\ r[k] < y
      /\ t[Len(r) + 1] = x
    BY DEF Below
<1> HIDE DEF t
<1>2. \A k \in DOMAIN t : t[k] < y
    BY <1>1
<1>3. Below(t, y)
    BY <1>2 DEF Below
<1> QED
    BY <1>3 DEF t

LEMMA FedStep ==
    ASSUME Inv, NEW n \in Nodes, NEW i, ConnStep, Feeds(n, i),
           Ids(n)' = Ids(n), Ids(Peer(n))' = Ids(Peer(n)),
           \A m \in Nodes : \A j \in Ids(m) : conn'[m][j].remote = conn[m][j].remote
    PROVE  Ordered'
<1> DEFINE o == Peer(n)
           r == conn[n][i].received
<1>0. PICK h : h = Waiting(n)
    OBVIOUS
<1>1. /\ o \in Nodes /\ o # n /\ Peer(o) = n /\ \A m \in Nodes : m = n \/ m = o
    BY Peers
<1>2. /\ Sending(o, h) /\ h \in PDUs /\ h.type = "DT" /\ h.dst = i /\ i \in Ids(n)
    BY <1>0 DEF Feeds, Takes
<1>3. /\ h.src \in Ids(o) /\ conn[o][h.src].remote = i /\ i # 0
      /\ Other(o, h.src) = conn[n][i] /\ PDUSound(o, h)
    BY <1>1, <1>2, PDUEnds
<1>4. conn[n][i].remote # 0
    BY <1>2 DEF Feeds, Inv, ConnsSound, ConnSound
<1>5. conn[n][i].remote = h.src
    BY <1>1, <1>3, <1>4, Pairing
<1>6. r \in Seq(Nat) /\ h.data \in Nat
    BY <1>2, IdsFacts, Receives, TP4Assumption DEF Inv, Types, PDUs
<1>7. Below(r, h.data)
    BY <1>1, <1>2, <1>3 DEF Inv, Ordered, ReceivedBeforeWire
<1>8. /\ conn'[n][i].received = Append(r, h.data)
      /\ \A m \in Nodes : \A j \in Ids(m) :
            m # n \/ j # i => conn'[m][j].received = conn[m][j].received
    BY <1>0 DEF Feeds
<1> HIDE DEF o, r
<1>9. \A m \in Nodes : \A j \in Ids(m) : conn[m][j].remote # 0 =>
        /\ Other(m, j)' = conn'[Peer(m)][conn[m][j].remote]
        /\ conn[m][j].remote \in Ids(Peer(m)) /\ Peer(m) \in Nodes
        /\ Other(m, j) = conn[Peer(m)][conn[m][j].remote]
    BY OtherStays
(* The reader that grows belongs to the writer of h, and to no other.      *)
<1>10. ASSUME NEW m \in Nodes, NEW j \in Ids(m), conn[m][j].remote # 0,
              ~(m = o /\ j = h.src)
       PROVE  Other(m, j)'.received = Other(m, j).received
    <2>1. ~(Peer(m) = n /\ conn[m][j].remote = i)
        <3> SUFFICES ASSUME Peer(m) = n, conn[m][j].remote = i
                     PROVE  FALSE
            OBVIOUS
        <3>1. m = o
            BY <1>1 DEF o
        <3>2. conn[n][i].remote = j
            BY <1>4, <1>9, <1>10, Pairing
        <3> QED
            BY <1>5, <1>10, <3>1, <3>2
    <2>2. /\ Other(m, j)' = conn'[Peer(m)][conn[m][j].remote]
          /\ conn[m][j].remote \in Ids(Peer(m)) /\ Peer(m) \in Nodes
          /\ Other(m, j) = conn[Peer(m)][conn[m][j].remote]
        BY <1>9, <1>10
    <2>3. conn'[Peer(m)][conn[m][j].remote].received = conn[Peer(m)][conn[m][j].remote].received
        BY <1>8, <2>1, <2>2
    <2> QED
        BY <2>2, <2>3
<1>11. ASSUME NEW x \in Nat, h.data < x
       PROVE  Below(Other(o, h.src)'.received, x)
    <2>0. Other(o, h.src)' = conn'[Peer(o)][conn[o][h.src].remote]
        BY <1>1, <1>3, <1>9
    <2>1. Other(o, h.src)'.received = Append(r, h.data)
        BY <1>1, <1>3, <1>8, <2>0
    <2>2. Below(r, x)
        BY <1>6, <1>7, <1>11, BelowLess
    <2> QED
        BY <1>6, <1>11, <2>1, <2>2, AppendBelow
<1>12. ASSUME NEW m \in Nodes, NEW p, Sending(m, p)', p.type = "DT"
       PROVE  Below(Other(m, p.src)'.received, p.data)
    <2>1. Sending(m, p)
        BY <1>12 DEF Feeds, WireFlow
    <2>2. /\ p.src \in Ids(m) /\ conn[m][p.src].remote # 0 /\ p \in PDUs
          /\ Below(Other(m, p.src).received, p.data)
        BY <1>12, <2>1, PDUEnds DEF Inv, Ordered, ReceivedBeforeWire
    <2>3. CASE m = o /\ p.src = h.src
        <3>1. Before(chan[o], h, p)
            BY <1>0, <1>12, <2>3 DEF Feeds, Takes, o
        <3>2. h.data < p.data /\ p.data \in Nat
            BY <1>1, <1>2, <1>12, <2>2, <2>3, <3>1, TP4Assumption
            DEF Inv, PDUsSound, WireInOrder, PDUs
        <3>3. Below(Other(o, h.src)'.received, p.data)
            BY <1>11, <3>2
        <3> QED
            BY <2>3, <3>3
    <2>4. CASE ~(m = o /\ p.src = h.src)
        BY <1>10, <2>2, <2>4
    <2> QED
        BY <2>3, <2>4
<1>13. ASSUME NEW m \in Nodes, NEW p, NEW t, Sending(m, p)', Queued(m, t)',
              p.type = "DT", t.kind = "data", p.src = t.id
       PROVE  p.data < t.data
    <2>1. Sending(m, p) /\ Queued(m, t)
        BY <1>13 DEF Feeds, WireFlow, QueueFlow
    <2> QED
        BY <1>13, <2>1 DEF Inv, Ordered, WireBeforeQueue
<1>14. ASSUME NEW m \in Nodes, NEW t, Queued(m, t)', t.kind = "data"
       PROVE  Below(Other(m, t.id)'.received, t.data)
    <2>1. Queued(m, t)
        BY <1>14 DEF Feeds, QueueFlow
    <2>2. /\ t.id \in Ids(m) /\ conn[m][t.id].remote # 0 /\ t \in Tasks
          /\ Below(Other(m, t.id).received, t.data)
        BY <1>14, <2>1, TaskEnds DEF Inv, Ordered, ReceivedBeforeQueue
    <2>3. CASE m = o /\ t.id = h.src
        <3>1. h.data < t.data /\ t.data \in Nat
            BY <1>1, <1>2, <1>14, <2>1, <2>2, <2>3, TP4Assumption
            DEF Inv, Ordered, WireBeforeQueue, Tasks
        <3>2. Below(Other(o, h.src)'.received, t.data)
            BY <1>11, <3>1
        <3> QED
            BY <2>3, <3>2
    <2>4. CASE ~(m = o /\ t.id = h.src)
        BY <1>10, <2>2, <2>4
    <2> QED
        BY <2>3, <2>4
<1>15. ASSUME NEW m \in Nodes, NEW j \in Ids(m)
       PROVE  /\ Rising(conn'[m][j].received)
              /\ conn'[m][j].remote # 0 =>
                    Below(conn'[m][j].received, Other(m, j)'.written + 1)
    <2>1. /\ Rising(conn[m][j].received)
          /\ conn[m][j].remote # 0 => Below(conn[m][j].received, Other(m, j).written + 1)
        BY DEF Inv, Ordered, ReceivedWritten
    <2>2. conn'[m][j].remote # 0 =>
            /\ conn[m][j].remote # 0
            /\ Evolves(Other(m, j), Other(m, j)') /\ Other(m, j)' \in Connections
            /\ Other(m, j) \in Connections
        BY OtherStays, Pairing
    <2>3. conn'[m][j].remote # 0 =>
            /\ Other(m, j)'.written + 1 \in Nat /\ Other(m, j).written + 1 \in Nat
            /\ Other(m, j).written + 1 <= Other(m, j)'.written + 1
        BY <2>2, Receives DEF Evolves
    <2>4. conn[m][j].received \in Seq(Nat)
        BY IdsFacts, Receives DEF Inv, Types
    <2>5. conn'[m][j].remote # 0 =>
            Below(conn[m][j].received, Other(m, j)'.written + 1)
        BY <2>1, <2>2, <2>3, <2>4, BelowLess
    <2>6. CASE m = n /\ j = i
        <3>1. Rising(conn'[m][j].received)
            BY <1>6, <1>7, <1>8, <2>1, <2>6, AppendRising DEF r
        <3>2. ASSUME conn'[m][j].remote # 0
              PROVE  Below(conn'[m][j].received, Other(m, j)'.written + 1)
            <4>1. Other(n, i) = conn[o][h.src] /\ Other(n, i).written \in Nat
                BY <1>5, <2>2, <2>3, <2>6, <3>2, Receives DEF Other, o
            <4>2. h.data \in 1..conn[o][h.src].written
                BY <1>2, <1>3 DEF PDUSound
            <4>3. h.data < Other(m, j)'.written + 1
                BY <1>6, <2>3, <2>6, <3>2, <4>1, <4>2
            <4> QED
                BY <1>6, <1>8, <2>3, <2>5, <2>6, <3>2, <4>3, AppendBelow DEF r
        <3> QED
            BY <3>1, <3>2
    <2>7. CASE ~(m = n /\ j = i)
        BY <1>8, <2>1, <2>5, <2>7
    <2> QED
        BY <2>6, <2>7
<1>16. \A m \in Nodes : Ids(m)' = Ids(m)
    BY <1>1 DEF o
<1> QED
    BY <1>12, <1>13, <1>14, <1>15, <1>16
    DEF Ordered, ReceivedBeforeWire, WireBeforeQueue, ReceivedBeforeQueue, ReceivedWritten

-------------------------------------------------------------------------------
(* As long as nothing is lost and no send raises.                          *)

LEMMA StateKept ==
    ASSUME NEW c \in Connections, NEW d \in Connections, Evolves(c, d)
    PROVE  /\ d.state = "SYN_SENT" => c.state = "SYN_SENT"
           /\ d.state \in {"SYN_SENT", "ESTABLISHED"} => c.state \in {"SYN_SENT", "ESTABLISHED"}
           /\ c.state \in {"FIN_WAIT", "CLOSED"} => d.state \in {"FIN_WAIT", "CLOSED"}
           /\ c.closing => d.closing /\ d.written = c.written
BY DEF Connections, Evolves

LEMMA AcceptorEnds ==
    ASSUME Inv, NEW n \in Nodes, NEW i \in Ids(n), conn[n][i].call \in {"none", "returned"}
    PROVE  conn[n][i].remote # 0
BY DEF Inv, ConnsSound, ConnSound

ConfirmsStay ==
    /\ \A m \in Nodes : \A p : Sending(m, p) /\ p.type = "CC" =>
        Sending(m, p)' \/ conn'[Peer(m)][p.dst].state # "SYN_SENT"
    /\ \A m \in Nodes : \A i \in Ids(m)' : i \notin Ids(m) /\ conn'[m][i].call = "none" =>
        \E p : Sending(m, p)' /\ p.type = "CC" /\ p.src = i

LEMMA ConfirmStep ==
    ASSUME Inv, NEW n \in Nodes, NEW P, NEW T, StepAt(n, P, T), ConfirmFirst, ConfirmsStay
    PROVE  ConfirmFirst'
<1>0. ConnStep
    BY DEF StepAt
<1>1. ASSUME NEW m \in Nodes, NEW i \in Ids(m), conn'[m][i].call = "none",
             Other(m, i)'.state = "SYN_SENT"
      PROVE  \E p : /\ Sending(m, p)' /\ p.type = "CC" /\ p.src = i
                    /\ \A q : Before(chan[m], q, p)' => q.src # i
    <2>1. conn[m][i].call = "none"
        BY <1>0, <1>1 DEF ConnStep, Evolves
    <2>2. conn[m][i].remote # 0
        BY <2>1, AcceptorEnds
    <2>3. /\ Evolves(Other(m, i), Other(m, i)')
          /\ Other(m, i)' = conn'[Peer(m)][conn[m][i].remote]
          /\ Other(m, i) \in Connections /\ Other(m, i)' \in Connections
        BY <1>0, <2>2, OtherStays, Pairing
    <2>4. Other(m, i).state = "SYN_SENT"
        BY <1>1, <2>3, StateKept
    <2>5. PICK p : /\ Sending(m, p) /\ p.type = "CC" /\ p.src = i
                   /\ \A q : Before(chan[m], q, p) => q.src # i
        BY <2>1, <2>4 DEF ConfirmFirst
    <2>6. p.dst = conn[m][i].remote
        BY <2>5, PDUEnds
    <2>7. Sending(m, p)'
        BY <1>1, <2>3, <2>5, <2>6 DEF ConfirmsStay
    <2>8. ASSUME NEW q, Before(chan[m], q, p)'
          PROVE  q.src # i
        <3>1. Before(chan[m], q, p) \/ (m = n /\ p \in P)
            BY <2>8 DEF StepAt, WireFlow
        <3>2. ~(m = n /\ p \in P)
            BY <2>5 DEF StepAt, NewPDU
        <3> QED
            BY <2>5, <3>1, <3>2
    <2> QED
        BY <2>5, <2>7, <2>8
<1>2. ASSUME NEW m \in Nodes, NEW i \in Ids(m)', i \notin Ids(m), conn'[m][i].call = "none"
      PROVE  \E p : /\ Sending(m, p)' /\ p.type = "CC" /\ p.src = i
                    /\ \A q : Before(chan[m], q, p)' => q.src # i
    <2>1. PICK p : Sending(m, p)' /\ p.type = "CC" /\ p.src = i
        BY <1>2 DEF ConfirmsStay
    <2>2. ASSUME NEW q, Before(chan[m], q, p)'
          PROVE  q.src # i
        <3>1. Sending(m, q)
            BY <2>2, TypedItems DEF StepAt, WireFlow, Inv
        <3>2. q.src \in Ids(m)
            BY <3>1 DEF Inv, PDUsSound, PDUSound
        <3> QED
            BY <1>2, <3>2
    <2> QED
        BY <2>1, <2>2
<1> QED
    BY <1>1, <1>2 DEF ConfirmFirst

BothEndings ==
    \A m \in Nodes : \A i \in Ids(m) :
        conn[m][i].state # "CLOSED" /\ conn'[m][i].state = "CLOSED" =>
            conn[m][i].remote # 0 /\ Other(m, i).state \in {"FIN_WAIT", "CLOSED"}

LEMMA BothStep ==
    ASSUME Inv, ConnStep, BothClosing, BothEndings
    PROVE  BothClosing'
<1> SUFFICES ASSUME NEW m \in Nodes, NEW i \in Ids(m)', conn'[m][i].state = "CLOSED"
             PROVE  conn'[m][i].remote # 0 /\ Other(m, i)'.state \in {"FIN_WAIT", "CLOSED"}
    BY DEF BothClosing
<1>1. i \in Ids(m)
    BY DEF ConnStep, Fresh
<1>2. conn[m][i].remote # 0 /\ Other(m, i).state \in {"FIN_WAIT", "CLOSED"}
    BY <1>1 DEF BothClosing, BothEndings
<1> QED
    BY <1>1, <1>2, OtherStays, Pairing, StateKept

Tracked ==
    /\ \A m \in Nodes : \A p :
        Sending(m, p) /\ p.type = "DT"
            /\ conn'[Peer(m)][p.dst].state \in {"SYN_SENT", "ESTABLISHED"} =>
                Sending(m, p)' \/ p.data <= Len(conn'[Peer(m)][p.dst].received)
    /\ \A m \in Nodes : \A t :
        Queued(m, t) /\ t.kind = "data"
            /\ Other(m, t.id)'.state \in {"SYN_SENT", "ESTABLISHED"} =>
                Queued(m, t)' \/ DataSent(m, t.id, t.data)'
    /\ \A m \in Nodes : \A i \in Ids(m) :
        \/ conn'[m][i].written = conn[m][i].written
        \/ /\ conn'[m][i].written = conn[m][i].written + 1
           /\ \E d : d = conn'[m][i].written /\ DataQueued(m, i, d)'
    /\ \A m \in Nodes : \A i \in Ids(m) :
        Len(conn[m][i].received) <= Len(conn'[m][i].received)

LEMMA MissingStep ==
    ASSUME Inv, ConnStep, NothingMissing, Tracked
    PROVE  NothingMissing'
<1> SUFFICES ASSUME NEW m \in Nodes, NEW i \in Ids(m)', conn'[m][i].remote # 0,
                    Other(m, i)'.state \in {"SYN_SENT", "ESTABLISHED"},
                    NEW d \in 1..conn'[m][i].written
             PROVE  \/ d <= Len(Other(m, i)'.received)
                    \/ DataSent(m, i, d)' \/ DataQueued(m, i, d)'
    BY DEF NothingMissing
<1>1. i \in Ids(m)
    BY DEF ConnStep, Fresh
<1>2. conn[m][i] \in Connections /\ conn'[m][i] \in Connections
    BY <1>1, IdsFacts, NextConns DEF ConnStep, Inv, Types
<1>3. conn[m][i].written \in Nat /\ conn'[m][i].written \in Nat
    BY <1>2, Receives
<1>4. CASE d \in 1..conn[m][i].written
    <2>1. conn[m][i].remote # 0
        <3> SUFFICES ASSUME conn[m][i].remote = 0
                     PROVE  FALSE
            OBVIOUS
        <3>1. conn[m][i].call \notin {"none", "returned"}
            BY <1>1, AcceptorEnds
        <3>2. conn[m][i].call \in {"waiting", "raised"}
            BY <1>2, <3>1 DEF Connections
        <3> QED
            BY <1>1, <1>4, <3>2 DEF Inv, ConnsSound, ConnSound
    <2> DEFINE r == conn[m][i].remote
    <2>2. /\ r \in Ids(Peer(m)) /\ Peer(m) \in Nodes
          /\ Other(m, i) = conn[Peer(m)][r] /\ Other(m, i)' = conn'[Peer(m)][r]
          /\ Evolves(Other(m, i), Other(m, i)')
          /\ Other(m, i) \in Connections /\ Other(m, i)' \in Connections
        BY <1>1, <2>1, OtherStays, Pairing
    <2>3. Other(m, i).state \in {"SYN_SENT", "ESTABLISHED"}
        BY <2>2, StateKept
    <2>4. CASE d <= Len(Other(m, i).received)
        <3>1. Len(Other(m, i).received) <= Len(Other(m, i)'.received)
            BY <2>2 DEF Tracked
        <3>2. Other(m, i).received \in Seq(Nat) /\ Other(m, i)'.received \in Seq(Nat)
            BY <2>2, Receives
        <3>3. Len(Other(m, i).received) \in Nat /\ Len(Other(m, i)'.received) \in Nat
            BY <3>2
        <3> QED
            BY <1>3, <1>4, <2>4, <3>1, <3>3
    <2>5. CASE DataSent(m, i, d)
        <3>1. PICK p : Sending(m, p) /\ p.type = "DT" /\ p.src = i /\ p.data = d
            BY <2>5 DEF DataSent
        <3>2. p.dst = r
            BY <3>1, PDUEnds
        <3>3. Sending(m, p)' \/ d <= Len(Other(m, i)'.received)
            BY <2>2, <3>1, <3>2 DEF Tracked
        <3> QED
            BY <3>1, <3>3 DEF DataSent
    <2>6. CASE DataQueued(m, i, d)
        <3>1. PICK t : Queued(m, t) /\ t.kind = "data" /\ t.id = i /\ t.data = d
            BY <2>6 DEF DataQueued
        <3>2. Queued(m, t)' \/ DataSent(m, i, d)'
            BY <3>1 DEF Tracked
        <3> QED
            BY <3>1, <3>2 DEF DataQueued
    <2> QED
        BY <1>1, <1>4, <2>1, <2>3, <2>4, <2>5, <2>6 DEF NothingMissing
<1>5. CASE d \notin 1..conn[m][i].written
    <2>1. d = conn'[m][i].written /\ DataQueued(m, i, d)'
        BY <1>1, <1>3, <1>5 DEF Tracked
    <2> QED
        BY <2>1
<1> QED
    BY <1>4, <1>5

Delivers ==
    \A m \in Nodes : \A i \in Ids(m) :
        ~conn[m][i].eof /\ conn'[m][i].eof /\ ~conn'[m][i].closing =>
            /\ conn[m][i].remote # 0 /\ Other(m, i).closing
            /\ Len(conn'[m][i].received) = Other(m, i).written

LEMMA DeliveredStep ==
    ASSUME Inv, ConnStep, AllDelivered, Delivers
    PROVE  AllDelivered'
<1> SUFFICES ASSUME NEW m \in Nodes, NEW i \in Ids(m)', conn'[m][i].eof, ~conn'[m][i].closing
             PROVE  /\ conn'[m][i].remote # 0 /\ Other(m, i)'.closing
                    /\ Len(conn'[m][i].received) = Other(m, i)'.written
    BY DEF AllDelivered
<1>1. i \in Ids(m)
    BY DEF ConnStep, Fresh
<1>2. Evolves(conn[m][i], conn'[m][i])
    BY <1>1 DEF ConnStep
<1>3. /\ conn[m][i].remote # 0 /\ Other(m, i).closing
      /\ Len(conn'[m][i].received) = Other(m, i).written
    <2>1. CASE ~conn[m][i].eof
        BY <1>1, <2>1 DEF Delivers
    <2>2. CASE conn[m][i].eof
        <3>1. conn[m][i].state = "CLOSED"
            BY <1>1, <2>2 DEF Inv, ConnsSound, ConnSound
        <3>2. conn'[m][i].received = conn[m][i].received /\ ~conn[m][i].closing
            BY <1>2, <3>1 DEF Evolves
        <3> QED
            BY <1>1, <2>2, <3>2 DEF AllDelivered
    <2> QED
        BY <2>1, <2>2
<1> QED
    BY <1>1, <1>3, OtherStays, Pairing, StateKept

LEMMA GapsStep ==
    ASSUME ConnStep, NoGaps, SameReceived
    PROVE  NoGaps'
<1> SUFFICES ASSUME NEW m \in Nodes, NEW i \in Ids(m)', NEW k \in DOMAIN conn'[m][i].received
             PROVE  conn'[m][i].received[k] = k
    BY DEF NoGaps
<1>1. CASE i \in Ids(m)
    BY <1>1 DEF SameReceived, NoGaps
<1>2. CASE i \notin Ids(m)
    BY <1>2 DEF ConnStep, Fresh
<1> QED
    BY <1>1, <1>2

(* The PDU at the head of a reliable channel.                              *)

LEMMA HeadFirst ==
    ASSUME NEW n \in Nodes, Takes(n), NEW p, Sending(Peer(n), p)
    PROVE  p = Waiting(n) \/ Before(chan[Peer(n)], Waiting(n), p)
BY DEF Takes

LEMMA HeadEnds ==
    ASSUME Inv, NEW n \in Nodes, Takes(n), Waiting(n).type \in {"CC", "DT", "DR"},
           NEW h, h = Waiting(n)
    PROVE  /\ Peer(n) \in Nodes /\ Peer(Peer(n)) = n /\ Sending(Peer(n), h) /\ h \in PDUs
           /\ h.src \in Ids(Peer(n)) /\ conn[Peer(n)][h.src].remote = h.dst /\ h.dst # 0
           /\ h.dst \in Ids(n) /\ Other(Peer(n), h.src) = conn[n][h.dst]
           /\ PDUSound(Peer(n), h)
           /\ conn[n][h.dst].remote # 0 =>
                conn[n][h.dst].remote = h.src /\ Other(n, h.dst) = conn[Peer(n)][h.src]
<1>1. Peer(n) \in Nodes /\ Peer(Peer(n)) = n /\ Sending(Peer(n), h)
    BY Peers DEF Takes
<1>2. /\ h \in PDUs /\ PDUSound(Peer(n), h)
      /\ h.src \in Ids(Peer(n)) /\ conn[Peer(n)][h.src].remote = h.dst /\ h.dst # 0
      /\ h.dst \in Ids(n) /\ Other(Peer(n), h.src) = conn[n][h.dst]
    BY <1>1, PDUEnds
<1>3. conn[n][h.dst].remote # 0 => conn[n][h.dst].remote = h.src
    BY <1>1, <1>2, Pairing
<1> QED
    BY <1>1, <1>2, <1>3 DEF Other

(* CC has been received before data or DR are.                             *)
LEMMA Confirmed ==
    ASSUME Inv, ConfirmFirst, NEW n \in Nodes, Takes(n), Waiting(n).type \in {"DT", "DR"}
    PROVE  conn[n][Waiting(n).dst].state # "SYN_SENT"
<1> SUFFICES ASSUME conn[n][Waiting(n).dst].state = "SYN_SENT"
             PROVE  FALSE
    OBVIOUS
<1> DEFINE o == Peer(n)
<1>0. PICK h : h = Waiting(n)
    OBVIOUS
<1>1. /\ o \in Nodes /\ Sending(o, h) /\ h.src \in Ids(o)
      /\ conn[o][h.src].remote = h.dst /\ h.dst # 0
      /\ h.dst \in Ids(n) /\ Other(o, h.src) = conn[n][h.dst]
      /\ Peer(o) = n
    BY <1>0, HeadEnds
<1>2. conn[n][h.dst].remote = 0
    BY <1>0, <1>1 DEF Inv, ConnsSound, ConnSound
<1>3. conn[o][h.src].call = "none"
    BY <1>1, <1>2, Pairing, AcceptorEnds
<1>4. PICK p : /\ Sending(o, p) /\ p.type = "CC" /\ p.src = h.src
               /\ \A q : Before(chan[o], q, p) => q.src # h.src
    BY <1>0, <1>1, <1>3 DEF ConfirmFirst
<1>5. p # h /\ ~Before(chan[o], h, p)
    BY <1>0, <1>4
<1> QED
    BY <1>0, <1>4, <1>5, HeadFirst

(* While nothing is missing, the next datum is the next one written.       *)
LEMMA NextDatum ==
    ASSUME Inv, NothingMissing, NoGaps, NEW n \in Nodes, Takes(n), Waiting(n).type = "DT",
           conn[n][Waiting(n).dst].state = "ESTABLISHED"
    PROVE  Waiting(n).data = Len(conn[n][Waiting(n).dst].received) + 1
<1> DEFINE o == Peer(n)
<1>0. PICK h : h = Waiting(n)
    OBVIOUS
<1>1. /\ o \in Nodes /\ Sending(o, h) /\ h.src \in Ids(o) /\ h \in PDUs
      /\ conn[o][h.src].remote = h.dst /\ h.dst # 0
      /\ h.dst \in Ids(n) /\ Other(o, h.src) = conn[n][h.dst]
      /\ PDUSound(o, h)
    BY <1>0, HeadEnds
<1>2. PICK r : r = conn[n][h.dst].received
    OBVIOUS
<1>3. r \in Seq(Nat) /\ Len(r) \in Nat /\ DOMAIN r = 1..Len(r)
    <2>1. conn[n][h.dst] \in Connections
        BY <1>1, IdsFacts DEF Inv, Types
    <2>2. r \in Seq(Nat)
        BY <1>2, <2>1, Receives
    <2> QED
        BY <2>2
<1>4. h.data \in 1..conn[o][h.src].written /\ conn[o][h.src].written \in Nat
    BY <1>0, <1>1, Receives, IdsFacts DEF PDUSound, Inv, Types
<1>5. Below(r, h.data) /\ \A k \in 1..Len(r) : r[k] = k
    BY <1>0, <1>1, <1>2, <1>3 DEF Inv, Ordered, ReceivedBeforeWire, NoGaps
<1>6. Len(r) < h.data
    <2>1. CASE Len(r) = 0
        BY <1>4, <2>1
    <2>2. CASE Len(r) # 0
        <3>1. Len(r) \in 1..Len(r)
            BY <1>3, <2>2
        <3>2. r[Len(r)] = Len(r) /\ r[Len(r)] < h.data
            BY <1>3, <1>5, <3>1 DEF Below
        <3> QED
            BY <3>2
    <2> QED
        BY <2>1, <2>2
<1>7. ASSUME NEW d \in 1..(h.data - 1)
      PROVE  d <= Len(r)
    <2>1. d \in 1..conn[o][h.src].written /\ d < h.data
        BY <1>4
    <2>2. d <= Len(r) \/ DataSent(o, h.src, d) \/ DataQueued(o, h.src, d)
        BY <1>0, <1>1, <1>2, <2>1 DEF NothingMissing
    <2>3. ~DataSent(o, h.src, d)
        <3> SUFFICES ASSUME NEW p, Sending(o, p), p.type = "DT", p.src = h.src, p.data = d
                     PROVE  FALSE
            BY DEF DataSent
        <3>1. p # h
            BY <1>4, <2>1
        <3>2. Before(chan[o], h, p)
            BY <1>0, <3>1, HeadFirst
        <3>3. h.data < p.data
            BY <1>0, <1>1, <3>2 DEF Inv, PDUsSound, WireInOrder
        <3> QED
            BY <1>4, <2>1, <3>3
    <2>4. ~DataQueued(o, h.src, d)
        <3> SUFFICES ASSUME NEW t, Queued(o, t), t.kind = "data", t.id = h.src, t.data = d
                     PROVE  FALSE
            BY DEF DataQueued
        <3>1. h.data < t.data
            BY <1>0, <1>1 DEF Inv, Ordered, WireBeforeQueue
        <3> QED
            BY <1>4, <2>1, <3>1
    <2> QED
        BY <2>2, <2>3, <2>4
<1>8. h.data = Len(r) + 1
    <2>1. CASE h.data = 1
        BY <1>3, <1>6, <2>1
    <2>2. CASE h.data # 1
        <3>1. h.data - 1 \in 1..(h.data - 1) /\ h.data \in Nat
            BY <1>4, <2>2
        <3>2. h.data - 1 <= Len(r)
            BY <1>7, <3>1
        <3> QED
            BY <1>3, <1>6, <3>1, <3>2
    <2> QED
        BY <2>1, <2>2
<1> QED
    BY <1>0, <1>2, <1>8

(* DR comes after all the data.                                            *)
LEMMA AllBeforeDR ==
    ASSUME Inv, NothingMissing, NoGaps, NEW n \in Nodes, Takes(n), Waiting(n).type = "DR",
           conn[n][Waiting(n).dst].state = "ESTABLISHED"
    PROVE  /\ conn[n][Waiting(n).dst].remote # 0
           /\ Other(n, Waiting(n).dst).closing
           /\ Len(conn[n][Waiting(n).dst].received) = Other(n, Waiting(n).dst).written
<1> DEFINE o == Peer(n)
<1>0. PICK h : h = Waiting(n)
    OBVIOUS
<1>1. /\ o \in Nodes /\ Sending(o, h) /\ h.src \in Ids(o) /\ h \in PDUs
      /\ conn[o][h.src].remote = h.dst /\ h.dst # 0
      /\ h.dst \in Ids(n) /\ Other(o, h.src) = conn[n][h.dst]
      /\ PDUSound(o, h)
    BY <1>0, HeadEnds
<1>2. conn[n][h.dst].remote # 0
    BY <1>0, <1>1 DEF Inv, ConnsSound, ConnSound
<1>3. Other(n, h.dst) = conn[o][h.src]
    BY <1>0, <1>2, HeadEnds
<1>4. Finished(o, h.src)
    BY <1>0, <1>1 DEF PDUSound
<1>5. PICK r : r = conn[n][h.dst].received
    OBVIOUS
<1>6. PICK w : w = conn[o][h.src].written
    OBVIOUS
<1>7. /\ r \in Seq(Nat) /\ Len(r) \in Nat /\ DOMAIN r = 1..Len(r) /\ w \in Nat
    <2>1. conn[n][h.dst] \in Connections /\ conn[o][h.src] \in Connections
        BY <1>1, IdsFacts DEF Inv, Types
    <2> QED
        BY <1>5, <1>6, <2>1, Receives
<1>8. Below(r, w + 1) /\ \A k \in 1..Len(r) : r[k] = k
    BY <1>1, <1>2, <1>3, <1>5, <1>6, <1>7 DEF Inv, Ordered, ReceivedWritten, NoGaps
<1>9. Len(r) <= w
    <2>1. CASE Len(r) = 0
        BY <1>7, <2>1
    <2>2. CASE Len(r) # 0
        <3>1. Len(r) \in 1..Len(r)
            BY <1>7, <2>2
        <3>2. r[Len(r)] = Len(r) /\ r[Len(r)] < w + 1
            BY <1>7, <1>8, <3>1 DEF Below
        <3> QED
            BY <1>7, <3>2
    <2> QED
        BY <2>1, <2>2
<1>10. ASSUME NEW d \in 1..w
       PROVE  d <= Len(r)
    <2>1. d <= Len(r) \/ DataSent(o, h.src, d) \/ DataQueued(o, h.src, d)
        BY <1>0, <1>1, <1>5, <1>6 DEF NothingMissing
    <2>2. ~DataSent(o, h.src, d)
        <3> SUFFICES ASSUME NEW p, Sending(o, p), p.type = "DT", p.src = h.src
                     PROVE  FALSE
            BY DEF DataSent
        <3>1. Before(chan[o], h, p)
            BY <1>0, HeadFirst
        <3> QED
            BY <1>0, <1>1, <3>1 DEF Inv, PDUsSound, WireInOrder
    <2>3. ~DataQueued(o, h.src, d)
        BY <1>4 DEF Finished, DataQueued
    <2> QED
        BY <2>1, <2>2, <2>3
<1>11. w <= Len(r)
    <2>1. CASE w = 0
        BY <1>7, <2>1
    <2>2. CASE w # 0
        <3>1. w \in 1..w
            BY <1>7, <2>2
        <3> QED
            BY <1>10, <3>1
    <2> QED
        BY <2>1, <2>2
<1>12. Len(r) = w
    <2>1. \A k, l \in Nat : k <= l /\ l <= k => k = l
        OBVIOUS
    <2> QED
        BY <1>7, <1>9, <1>11, <2>1
<1> QED
    BY <1>0, <1>2, <1>3, <1>4, <1>5, <1>6, <1>12 DEF Finished

-------------------------------------------------------------------------------
(* The invariant, action by action.                                        *)

LEMMA InvFrom ==
    ASSUME Inv, NEW n \in Nodes, NEW P, NEW T, StepAt(n, P, T),
           lost' \in 0..MaxLost, failed' \in 0..MaxFail, Ordered', Complete'
    PROVE  Inv' /\ ConnStep
<1>1. Types'
    BY DEF StepAt, ConnStep, WireFlow, QueueFlow, Types
<1>2. TasksSound' /\ PDUsSound'
    BY TasksStep, PDUsStep
<1> QED
    BY <1>1, <1>2 DEF Inv, StepAt, ConnStep

(* No step but that of _handle_dr, _handle_dc and _handle_dt.              *)
Calm ==
    /\ SameReceived
    /\ \A m \in Nodes : \A i \in Ids(m) :
        conn'[m][i].state = "CLOSED" => conn[m][i].state = "CLOSED"
    /\ Reliable' => Reliable /\ ConfirmsStay /\ Tracked

LEMMA CalmStep ==
    ASSUME Inv, NEW n \in Nodes, NEW P, NEW T, StepAt(n, P, T), Calm,
           lost' \in 0..MaxLost, failed' \in 0..MaxFail
    PROVE  Inv' /\ ConnStep
<1>0. ConnStep
    BY DEF StepAt
<1>1. ASSUME Reliable'
      PROVE  (ConfirmFirst /\ BothClosing /\ NothingMissing /\ AllDelivered /\ NoGaps)'
    <2>1. /\ ConfirmFirst /\ BothClosing /\ NothingMissing /\ AllDelivered /\ NoGaps
          /\ ConfirmsStay /\ Tracked
        BY <1>1 DEF Calm, Inv, Complete
    <2>2. BothEndings
        BY DEF BothEndings, Calm
    <2>3. Delivers
        <3> SUFFICES ASSUME NEW m \in Nodes, NEW i \in Ids(m), conn'[m][i].eof
                     PROVE  conn[m][i].eof
            BY DEF Delivers
        <3>1. i \in Ids(m)'
            BY <1>0 DEF ConnStep
        <3>2. conn'[m][i].state = "CLOSED"
            BY <1>0, <3>1 DEF ConnStep, ConnsSound, ConnSound
        <3> QED
            BY <3>2 DEF Calm, Inv, ConnsSound, ConnSound
    <2>4. SameReceived
        BY DEF Calm
    <2>5. ConfirmFirst'
        BY <2>1, ConfirmStep
    <2>6. BothClosing'
        BY <1>0, <2>1, <2>2, BothStep
    <2>7. NothingMissing'
        BY <1>0, <2>1, MissingStep
    <2>8. AllDelivered'
        BY <1>0, <2>1, <2>3, DeliveredStep
    <2>9. NoGaps'
        BY <1>0, <2>1, <2>4, GapsStep
    <2> QED
        BY <2>5, <2>6, <2>7, <2>8, <2>9
<1>2. Complete'
    BY <1>1 DEF Complete
<1>3. Ordered'
    BY OrderStep DEF Calm
<1> QED
    BY <1>2, <1>3, InvFrom

(* Of those, the ones that take no data off the wire or out of the queues. *)
LEMMA StaysTracked ==
    ASSUME SameReceived, Stays,
           \A m \in Nodes : \A i \in Ids(m)' : i \notin Ids(m) => conn'[m][i].call # "none",
           \A m \in Nodes : \A t : Queued(m, t) /\ t.kind = "data" => Queued(m, t)',
           \A m \in Nodes : \A i \in Ids(m) : conn'[m][i].written = conn[m][i].written,
           Inv
    PROVE  ConfirmsStay /\ Tracked
<1>1. \A m \in Nodes : \A i \in Ids(m) : Len(conn[m][i].received) <= Len(conn'[m][i].received)
    <2> SUFFICES ASSUME NEW m \in Nodes, NEW i \in Ids(m)
                 PROVE  Len(conn[m][i].received) <= Len(conn[m][i].received)
        BY DEF SameReceived
    <2>1. conn[m][i].received \in Seq(Nat)
        BY IdsFacts, Receives DEF Inv, Types
    <2> QED
        BY <2>1
<1> QED
    BY <1>1 DEF ConfirmsStay, Tracked, Stays

LEMMA ReliableStays ==
    ASSUME Inv, lost' = lost \/ lost' = lost + 1, failed' = failed \/ failed' = failed + 1
    PROVE  /\ Reliable' => Reliable /\ lost' = lost /\ failed' = failed
           /\ failed' = 0 => failed = 0
<1>1. lost \in Nat /\ failed \in Nat
    BY TP4Assumption DEF Inv, Types
<1> QED
    BY <1>1 DEF Reliable

LEMMA CountersType ==
    ASSUME Inv
    PROVE  /\ lost \in 0..MaxLost /\ failed \in 0..MaxFail
           /\ ConnTypes /\ ConnsSound /\ Links /\ ChanTypes /\ TaskTypes
           /\ lost < MaxLost => lost + 1 \in 0..MaxLost
           /\ failed < MaxFail => failed + 1 \in 0..MaxFail
<1>1. lost \in 0..MaxLost /\ failed \in 0..MaxFail
    BY DEF Inv, Types
<1> QED
    BY <1>1, TP4Assumption DEF Inv, Types, ChanTypes, TaskTypes

LEMMA ConnectInv ==
    ASSUME Inv, NEW n \in Nodes, Connect(n)
    PROVE  Inv' /\ ConnStep
<1> DEFINE p == PDU("CR", Id(n), 0, 0)
<1>0. /\ lost \in 0..MaxLost /\ failed \in 0..MaxFail
      /\ ConnTypes /\ ConnsSound /\ Links /\ ChanTypes /\ TaskTypes
      /\ failed < MaxFail => failed + 1 \in 0..MaxFail
    BY CountersType
<1>1. lost' = lost /\ tasks' = tasks
    BY DEF Connect
<1>2. PICK i : i = Id(n)
    OBVIOUS
<1>3. i \in Nat /\ i # 0 /\ i \notin Ids(n)
    BY <1>0, <1>2, IdsFacts
<1>4. PICK q : q = p
    OBVIOUS
<1>5. q \in PDUs /\ q.type = "CR" /\ q.src = i
    BY <1>2, <1>3, <1>4, TP4Assumption DEF PDU, PDUs, PDUTypes
<1>6. PICK call \in {"waiting", "raised"} :
        /\ Adds(n, NewConn("SYN_SENT", 0, call))
        /\ Sent(chan, n, p) \/ Raised(chan)
    <2>1. CASE /\ Adds(n, NewConn("SYN_SENT", 0, "waiting")) /\ Sent(chan, n, p)
        BY <2>1
    <2>2. CASE /\ Adds(n, NewConn("SYN_SENT", 0, "raised")) /\ Raised(chan)
        BY <2>2
    <2> QED
        BY <2>1, <2>2 DEF Connect, Adds
<1>7. PICK c : c = NewConn("SYN_SENT", 0, call)
    OBVIOUS
<1>8. /\ c \in Connections /\ c.state = "SYN_SENT" /\ c.remote = 0 /\ c.call = call
      /\ Fresh(c) /\ \A f : ConnSound(c, f)
    BY <1>7, NewConnFacts DEF Fresh
<1>9. Adds(n, c)
    BY <1>6, <1>7
<1>10. failed' \in 0..MaxFail /\ (failed' = failed \/ failed' = failed + 1)
    BY <1>0, <1>6 DEF Sent, Raised
<1>11. ConnStep
    BY <1>0, <1>1, <1>8, <1>9, <1>10, AddsStep, ReliableStays
<1>12. /\ Ids(n)' = Ids(n) \cup {i} /\ Ids(Peer(n))' = Ids(Peer(n))
       /\ conn'[n][i] = c
       /\ \A m \in Nodes : \A j \in Ids(m) : conn'[m][j] = conn[m][j]
       /\ Peer(n) \in Nodes /\ Peer(Peer(n)) = n /\ \A m \in Nodes : m = n \/ m = Peer(n)
    BY <1>0, <1>2, <1>8, <1>9, AddsFacts, Peers
<1>13. NewPDU(n, q)
    <2>1. ASSUME NEW j \in Ids(Peer(n)), conn'[Peer(n)][j].call = "none"
          PROVE  conn'[Peer(n)][j].remote # i
        <3>1. conn'[Peer(n)][j] = conn[Peer(n)][j]
            BY <1>12
        <3>2. conn[Peer(n)][j].remote \in Ids(n)
            BY <1>0, <1>12, <2>1, <3>1 DEF Links, AcceptorLinked
        <3> QED
            BY <1>3, <3>1, <3>2
    <2>2. PDUSound(n, q)'
        BY <1>5, <1>8, <1>12, <2>1 DEF PDUSound
    <2> QED
        BY <1>3, <1>5, <2>2 DEF NewPDU
<1>14. WireFlow(n, {q}) /\ Stays
    <2>1. CASE Sent(chan, n, p)
        BY <1>0, <1>4, <1>5, <2>1, SentFlow
    <2>2. CASE Raised(chan)
        BY <1>0, <2>2, SameWire DEF Raised
    <2> QED
        BY <1>6, <2>1, <2>2
<1>15. QueueFlow(n, {}) /\ StaysQueued
    BY <1>0, <1>1, SameQueue
<1>16. StepAt(n, {q}, {})
    BY <1>11, <1>12, <1>13, <1>14, <1>15 DEF StepAt
<1>17. SameReceived
    BY <1>12 DEF SameReceived
<1>18. ConfirmsStay /\ Tracked
    <2>1. \A m \in Nodes : \A j \in Ids(m)' : j \notin Ids(m) => conn'[m][j].call # "none"
        BY <1>8, <1>12
    <2>2. \A m \in Nodes : \A j \in Ids(m) : conn'[m][j].written = conn[m][j].written
        BY <1>12
    <2> QED
        BY <1>14, <1>15, <1>17, <2>1, <2>2, StaysTracked DEF StaysQueued
<1>19. Calm
    BY <1>1, <1>10, <1>12, <1>17, <1>18, ReliableStays DEF Calm
<1> QED
    BY <1>0, <1>1, <1>10, <1>16, <1>19, CalmStep

(* A step that changes one connection, and sends and receives nothing.     *)
LEMMA SilentInv ==
    ASSUME Inv, NEW n \in Nodes, NEW i \in Ids(n), NEW d \in Connections,
           Evolves(conn[n][i], d), ConnSound(d, failed), Keeps(conn[n][i], d),
           d.state = conn[n][i].state, d.written = conn[n][i].written,
           Replace(n, i, d), chan' = chan, lost' = lost, failed' = failed,
           NEW T, QueueFlow(n, T), StaysQueued,
           ConnStep => \A t \in T : NewTask(n, t)
    PROVE  Inv' /\ ConnStep
<1>0. /\ lost \in 0..MaxLost /\ failed \in 0..MaxFail
      /\ ConnTypes /\ ConnsSound /\ Links /\ ChanTypes /\ TaskTypes
    BY CountersType
<1>1. ConnStep
    BY <1>0, ReplaceStep DEF Keeps
<1>2. /\ \A m \in Nodes : Ids(m)' = Ids(m)
      /\ conn'[n][i] = d
      /\ \A m \in Nodes : \A j \in Ids(m) : m # n \/ j # i => conn'[m][j] = conn[m][j]
    BY <1>0, ReplaceFacts
<1>3. WireFlow(n, {}) /\ Stays
    BY <1>0, SameWire
<1>4. \A m \in Nodes : \A j \in Ids(m) :
        /\ conn'[m][j].state = conn[m][j].state
        /\ conn'[m][j].received = conn[m][j].received
        /\ conn'[m][j].written = conn[m][j].written
    BY <1>2 DEF Keeps
<1>5. StepAt(n, {}, T)
    BY <1>1, <1>3, <1>4 DEF StepAt
<1>6. SameReceived
    BY <1>4 DEF SameReceived
<1>7. ConfirmsStay /\ Tracked
    BY <1>2, <1>3, <1>4, <1>6, StaysTracked DEF StaysQueued
<1>8. Calm
    BY <1>4, <1>6, <1>7, ReliableStays DEF Calm
<1> QED
    BY <1>0, <1>5, <1>8, CalmStep

LEMMA PollInv ==
    ASSUME Inv, NEW n \in Nodes, Poll(n)
    PROVE  Inv' /\ ConnStep
<1>1. PICK i \in Ids(n) :
        /\ conn[n][i].call = "waiting"
        /\ \E d : /\ \/ conn[n][i].state = "ESTABLISHED" /\ d = [conn[n][i] EXCEPT !.call = "returned"]
                     \/ conn[n][i].polls < MaxPolls /\ d = [conn[n][i] EXCEPT !.polls = @ + 1]
                     \/ d = [conn[n][i] EXCEPT !.call = "raised"]
                  /\ Replace(n, i, d)
    BY DEF Poll, PollsLeft, TimedOut
<1>2. PICK d : /\ \/ conn[n][i].state = "ESTABLISHED" /\ d = [conn[n][i] EXCEPT !.call = "returned"]
                  \/ conn[n][i].polls < MaxPolls /\ d = [conn[n][i] EXCEPT !.polls = @ + 1]
                  \/ d = [conn[n][i] EXCEPT !.call = "raised"]
               /\ Replace(n, i, d)
    BY <1>1
<1>3. conn[n][i] \in Connections /\ ConnSound(conn[n][i], failed)
    BY CountersType, IdsFacts DEF ConnsSound
<1>4. /\ d \in Connections /\ Evolves(conn[n][i], d) /\ ConnSound(d, failed)
      /\ Keeps(conn[n][i], d) /\ d.state = conn[n][i].state /\ d.written = conn[n][i].written
    BY <1>1, <1>2, <1>3, PollFacts
<1>5. UNCHANGED <<tasks, chan, lost, failed>>
    BY DEF Poll
<1>6. QueueFlow(n, {}) /\ StaysQueued
    BY <1>5, CountersType, SameQueue
<1> QED
    BY <1>2, <1>4, <1>5, <1>6, SilentInv

LEMMA HandlerResumesInv ==
    ASSUME Inv, NEW n \in Nodes, HandlerResumes(n)
    PROVE  Inv' /\ ConnStep
<1>1. PICK i \in Ids(n) :
        /\ conn[n][i].handler = "removing"
        /\ Replace(n, i, [conn[n][i] EXCEPT !.handler = "none", !.listed = FALSE])
    BY DEF HandlerResumes
<1>2. PICK d : d = [conn[n][i] EXCEPT !.handler = "none", !.listed = FALSE]
    OBVIOUS
<1>3. conn[n][i] \in Connections /\ ConnSound(conn[n][i], failed)
    BY CountersType, IdsFacts DEF ConnsSound
<1>4. /\ d \in Connections /\ Evolves(conn[n][i], d) /\ ConnSound(d, failed)
      /\ Keeps(conn[n][i], d) /\ d.state = conn[n][i].state /\ d.written = conn[n][i].written
    <2>1. conn[n][i].state = "CLOSED"
        BY <1>1, <1>3 DEF ConnSound
    <2> QED
        BY <1>1, <1>2, <1>3, <2>1, RemovedFacts
<1>5. UNCHANGED <<tasks, chan, lost, failed>>
    BY DEF HandlerResumes
<1>6. QueueFlow(n, {}) /\ StaysQueued
    BY <1>5, CountersType, SameQueue
<1> QED
    BY <1>1, <1>2, <1>4, <1>5, <1>6, SilentInv

LEMMA CloseInv ==
    ASSUME Inv, NEW n \in Nodes, Close(n)
    PROVE  Inv' /\ ConnStep
<1>1. PICK i \in Ids(n) :
        /\ InUse(conn[n][i]) /\ Replace(n, i, CloseCalled(conn[n][i]))
        /\ tasks' = [tasks EXCEPT ![n] = Append(@, [kind |-> "close", id |-> i, data |-> 0])]
        /\ UNCHANGED <<chan, lost, failed>>
    BY DEF Close
<1>2. PICK d : d = CloseCalled(conn[n][i])
    OBVIOUS
<1>3. PICK t : t = [kind |-> "close", id |-> i, data |-> 0]
    OBVIOUS
<1>4. conn[n][i] \in Connections /\ ConnSound(conn[n][i], failed) /\ i \in Nat
    BY CountersType, IdsFacts DEF ConnsSound
<1>5. /\ d \in Connections /\ Evolves(conn[n][i], d) /\ ConnSound(d, failed)
      /\ Keeps(conn[n][i], d) /\ d.state = conn[n][i].state /\ d.written = conn[n][i].written
      /\ d.closing
    BY <1>1, <1>2, <1>4, CloseFacts
<1>6. t \in Tasks /\ t.kind = "close" /\ t.id = i
    BY <1>3, <1>4, TP4Assumption DEF Tasks
<1>7. QueueFlow(n, {t}) /\ StaysQueued
    BY <1>1, <1>3, <1>6, CountersType, CreatedFlow
<1>8. NewTask(n, t)
    <2>1. conn'[n][i] = d /\ i \in Ids(n)'
        BY <1>1, <1>2, <1>5, CountersType, ReplaceFacts
    <2>2. TaskSound(n, t)'
        BY <1>1, <1>5, <1>6, <2>1 DEF TaskSound, Evolves, InUse
    <2>3. conn[n][i].remote # 0
        BY <1>1, <1>4 DEF InUse, ConnSound
    <2> QED
        BY <1>1, <1>6, <2>2, <2>3 DEF NewTask, InUse
<1> QED
    BY <1>1, <1>2, <1>5, <1>7, <1>8, SilentInv

LEMMA WriteInv ==
    ASSUME Inv, NEW n \in Nodes, Write(n)
    PROVE  Inv' /\ ConnStep
<1>1. PICK i \in Ids(n) :
        /\ InUse(conn[n][i]) /\ conn[n][i].written < MaxWrites
        /\ Replace(n, i, [conn[n][i] EXCEPT !.written = @ + 1])
        /\ tasks' = [tasks EXCEPT ![n] =
                        Append(@, [kind |-> "data", id |-> i, data |-> conn[n][i].written + 1])]
        /\ UNCHANGED <<chan, lost, failed>>
    BY DEF Write
<1>2. PICK d : d = [conn[n][i] EXCEPT !.written = @ + 1]
    OBVIOUS
<1>3. PICK t : t = [kind |-> "data", id |-> i, data |-> conn[n][i].written + 1]
    OBVIOUS
<1>0. /\ lost \in 0..MaxLost /\ failed \in 0..MaxFail
      /\ ConnTypes /\ ConnsSound /\ Links /\ ChanTypes /\ TaskTypes
    BY CountersType
<1>4. conn[n][i] \in Connections /\ ConnSound(conn[n][i], failed) /\ i \in Nat
    BY <1>0, IdsFacts DEF ConnsSound
<1>5. /\ d \in Connections /\ Evolves(conn[n][i], d) /\ ConnSound(d, failed)
      /\ Keeps(conn[n][i], d) /\ d.state = conn[n][i].state
      /\ d.written = conn[n][i].written + 1
    BY <1>1, <1>2, <1>4, WriteFacts
<1>6. conn[n][i].written \in Nat /\ d.written \in 0..MaxWrites
    BY <1>4, <1>5, Receives
<1>7. t \in Tasks /\ t.kind = "data" /\ t.id = i /\ t.data = d.written
    <2>1. \A k \in 0..MaxWrites : [kind |-> "data", id |-> i, data |-> k] \in Tasks
        BY <1>4 DEF Tasks
    <2> QED
        BY <1>3, <1>5, <1>6, <2>1
<1>8. QueueFlow(n, {t}) /\ StaysQueued /\ Queued(n, t)'
    BY <1>0, <1>1, <1>3, <1>7, CreatedFlow
<1>9. /\ \A m \in Nodes : Ids(m)' = Ids(m)
      /\ conn'[n][i] = d
      /\ \A m \in Nodes : \A j \in Ids(m) : m # n \/ j # i => conn'[m][j] = conn[m][j]
    BY <1>0, <1>1, <1>2, <1>5, ReplaceFacts
<1>10. ConnStep
    BY <1>0, <1>1, <1>2, <1>5, ReplaceStep DEF Keeps
<1>11. NewTask(n, t)
    <2>1. t.data \in 1..conn'[n][i].written
        BY <1>5, <1>6, <1>7, <1>9
    <2>2. d.call \in {"none", "returned"}
        BY <1>1, <1>5 DEF InUse, Evolves
    <2>3. TaskSound(n, t)'
        BY <1>7, <1>9, <2>1, <2>2 DEF TaskSound
    <2>4. conn[n][i].remote # 0
        BY <1>1, <1>4 DEF InUse, ConnSound
    <2> QED
        BY <1>1, <1>5, <1>7, <2>3, <2>4 DEF NewTask, InUse
<1>12. WireFlow(n, {}) /\ Stays
    BY <1>0, <1>1, SameWire
<1>13. \A m \in Nodes : \A j \in Ids(m) :
        /\ conn'[m][j].state = conn[m][j].state
        /\ conn'[m][j].received = conn[m][j].received
    BY <1>5, <1>9 DEF Keeps
<1>14. StepAt(n, {}, {t})
    BY <1>8, <1>10, <1>11, <1>12, <1>13 DEF StepAt
<1>15. ConfirmsStay /\ Tracked
    <2>1. ASSUME NEW m \in Nodes, NEW j \in Ids(m)
          PROVE  \/ conn'[m][j].written = conn[m][j].written
                 \/ /\ conn'[m][j].written = conn[m][j].written + 1
                    /\ \E k : k = conn'[m][j].written /\ DataQueued(m, j, k)'
        <3>1. CASE m = n /\ j = i
            <4>1. PICK k : k = t.data
                OBVIOUS
            <4>2. DataQueued(n, i, k)'
                BY <1>7, <1>8, <4>1 DEF DataQueued
            <4> QED
                BY <1>5, <1>7, <1>9, <3>1, <4>1, <4>2
        <3>2. CASE m # n \/ j # i
            BY <1>9, <3>2
        <3> QED
            BY <3>1, <3>2
    <2>2. ASSUME NEW m \in Nodes, NEW j \in Ids(m)
          PROVE  Len(conn[m][j].received) <= Len(conn'[m][j].received)
        <3>1. conn[m][j].received \in Seq(Nat)
            BY <1>0, IdsFacts, Receives
        <3>2. Len(conn[m][j].received) <= Len(conn[m][j].received)
            BY <3>1
        <3> QED
            BY <1>13, <3>2
    <2> QED
        BY <1>8, <1>9, <1>12, <2>1, <2>2 DEF ConfirmsStay, Tracked, Stays, StaysQueued
<1>16. Calm
    BY <1>1, <1>13, <1>15, ReliableStays DEF Calm, SameReceived
<1> QED
    BY <1>0, <1>1, <1>14, <1>16, CalmStep

(* A task is taken off its queue and does what it does to no connection.   *)
LEMMA SendDataInv ==
    ASSUME Inv, NEW n \in Nodes, SendData(n)
    PROVE  Inv' /\ ConnStep
<1>0. /\ lost \in 0..MaxLost /\ failed \in 0..MaxFail
      /\ ConnTypes /\ ConnsSound /\ Links /\ ChanTypes /\ TaskTypes
      /\ failed < MaxFail => failed + 1 \in 0..MaxFail
    BY CountersType
<1>1. PICK t : t = tasks[n][Due(n)]
    OBVIOUS
<1>2. /\ tasks[n] # <<>> /\ t.kind = "data" /\ Started(n) /\ UNCHANGED <<conn, lost>>
      /\ \/ conn[n][t.id].state # "ESTABLISHED" /\ UNCHANGED <<chan, failed>>
         \/ conn[n][t.id].state = "ESTABLISHED"
                /\ Sent(chan, n, PDU("DT", t.id, conn[n][t.id].remote, t.data))
         \/ conn[n][t.id].state = "ESTABLISHED" /\ Raised(chan)
    BY <1>1 DEF SendData
<1>3. /\ QueueFlow(n, {}) /\ Queued(n, t) /\ t \in Tasks
      /\ \A u : Queued(n, u) => u = t \/ Queued(n, u)'
      /\ \A u : Queued(n, u)' => Before(tasks[n], t, u)
      /\ \A u : Queued(Peer(n), u) => Queued(Peer(n), u)'
    BY <1>0, <1>1, <1>2, StartedFlow
<1>4. /\ t.id \in Ids(n) /\ TaskSound(n, t) /\ conn[n][t.id].remote # 0
      /\ conn[n][t.id].state # "SYN_SENT" /\ conn[n][t.id] \in Connections
    BY <1>0, <1>3, TaskEnds, IdsFacts
<1>5. PICK p : p = PDU("DT", t.id, conn[n][t.id].remote, t.data)
    OBVIOUS
<1>6. /\ p \in PDUs /\ p.type = "DT" /\ p.src = t.id /\ p.data = t.data
      /\ p.dst = conn[n][t.id].remote
    <2>1. t.id \in Nat /\ conn[n][t.id].remote \in Nat /\ t.data \in 0..MaxWrites
        BY <1>0, <1>3, <1>4, IdsFacts, Receives DEF Tasks
    <2> QED
        BY <1>5, <2>1 DEF PDU, PDUs, PDUTypes
<1>7. failed' \in 0..MaxFail /\ (failed' = failed \/ failed' = failed + 1)
    BY <1>0, <1>2 DEF Sent, Raised
<1>8. ConnStep
    BY <1>0, <1>2, <1>7, SameStep, ReliableStays
<1>9. NewPDU(n, p)
    <2>1. PDUSound(n, p)'
        BY <1>2, <1>3, <1>4, <1>6 DEF PDUSound, TaskSound, Ids
    <2>2. OfTask(n, p)
        BY <1>2, <1>3, <1>6 DEF OfTask
    <2> QED
        BY <1>6, <2>1, <2>2 DEF NewPDU
<1>10. WireFlow(n, {p}) /\ Stays
    <2>1. CASE Sent(chan, n, PDU("DT", t.id, conn[n][t.id].remote, t.data))
        BY <1>0, <1>5, <1>6, <2>1, SentFlow
    <2>2. CASE chan' = chan
        BY <1>0, <2>2, SameWire
    <2> QED
        BY <1>2, <2>1, <2>2 DEF Raised
<1>11. StepAt(n, {p}, {})
    BY <1>2, <1>3, <1>8, <1>9, <1>10 DEF StepAt
<1>12. SameReceived
    BY <1>2 DEF SameReceived
<1>13. ASSUME Reliable'
       PROVE  Reliable /\ ConfirmsStay /\ Tracked
    <2>1. Reliable /\ failed' = failed
        BY <1>2, <1>7, <1>13, ReliableStays
    <2>2. \A m \in Nodes : Ids(m)' = Ids(m)
        BY <1>2 DEF Ids
    <2>3. ConfirmsStay
        BY <1>10, <2>2 DEF ConfirmsStay, Stays
(* Data are dropped only when the reader takes nothing any more.           *)
    <2>4. ASSUME NEW m \in Nodes, NEW u, Queued(m, u), u.kind = "data",
                 Other(m, u.id)'.state \in {"SYN_SENT", "ESTABLISHED"}
          PROVE  Queued(m, u)' \/ DataSent(m, u.id, u.data)'
        <3>1. CASE m # n \/ u # t
            BY <1>3, <2>4, <3>1, Peers
        <3>2. CASE m = n /\ u = t
            <4>1. CASE conn[n][t.id].state = "ESTABLISHED"
                <5>1. Sent(chan, n, PDU("DT", t.id, conn[n][t.id].remote, t.data))
                    <6>1. failed \in Nat
                        BY <1>0, TP4Assumption
                    <6> QED
                        BY <1>2, <2>1, <4>1, <6>1 DEF Raised
                <5>2. Sending(n, p)'
                    BY <1>0, <1>5, <1>6, <5>1, SentFlow
                <5> QED
                    BY <1>6, <3>2, <5>2 DEF DataSent
            <4>2. CASE conn[n][t.id].state = "FIN_WAIT"
                <5>1. Finished(n, t.id)
                    BY <1>4, <4>2 DEF Inv, TasksSound, ClosingFinished
                <5> QED
                    BY <1>3, <5>1 DEF Finished
            <4>3. CASE conn[n][t.id].state = "CLOSED"
                <5>1. Other(n, t.id).state \in {"FIN_WAIT", "CLOSED"}
                    BY <1>4, <2>1, <4>3 DEF Inv, Complete, BothClosing
                <5>2. Other(n, t.id)' = Other(n, t.id)
                    BY <1>2 DEF Other
                <5> QED
                    BY <2>4, <3>2, <5>1, <5>2
            <4> QED
                BY <1>4, <4>1, <4>2, <4>3 DEF Connections
        <3> QED
            BY <3>1, <3>2
    <2>5. ASSUME NEW m \in Nodes, NEW j \in Ids(m)
          PROVE  Len(conn[m][j].received) <= Len(conn'[m][j].received)
        <3>1. conn[m][j].received \in Seq(Nat)
            BY <1>0, IdsFacts, Receives
        <3> QED
            BY <1>2, <3>1
    <2>6. Tracked
        BY <1>2, <1>10, <2>4, <2>5 DEF Tracked, Stays
    <2> QED
        BY <2>1, <2>3, <2>6
<1>14. Calm
    BY <1>2, <1>12, <1>13 DEF Calm
<1> QED
    BY <1>0, <1>2, <1>7, <1>11, <1>14, CalmStep

LEMMA CloseConnectionInv ==
    ASSUME Inv, NEW n \in Nodes, CloseConnection(n)
    PROVE  Inv' /\ ConnStep
<1>0. /\ lost \in 0..MaxLost /\ failed \in 0..MaxFail
      /\ ConnTypes /\ ConnsSound /\ Links /\ ChanTypes /\ TaskTypes
      /\ failed < MaxFail => failed + 1 \in 0..MaxFail
    BY CountersType
<1>1. PICK t : t = tasks[n][Due(n)]
    OBVIOUS
<1>2. PICK c : c = conn[n][t.id]
    OBVIOUS
<1>3. /\ tasks[n] # <<>> /\ t.kind = "close" /\ Started(n) /\ UNCHANGED lost
      /\ \/ c.state = "CLOSED" /\ UNCHANGED <<conn, chan, failed>>
         \/ /\ c.state # "CLOSED"
            /\ Replace(n, t.id, [c EXCEPT !.state = "FIN_WAIT"])
            /\ Sent(chan, n, PDU("DR", t.id, c.remote, 0)) \/ Raised(chan)
    BY <1>1, <1>2 DEF CloseConnection, NeedsClose
<1>4. /\ QueueFlow(n, {}) /\ Queued(n, t) /\ t \in Tasks
      /\ \A u : Queued(n, u) => u = t \/ Queued(n, u)'
      /\ \A u : Queued(n, u)' => Before(tasks[n], t, u)
      /\ \A u : Queued(Peer(n), u) => Queued(Peer(n), u)'
    BY <1>0, <1>1, <1>3, StartedFlow
<1>5. /\ t.id \in Ids(n) /\ TaskSound(n, t) /\ c.remote # 0
      /\ c \in Connections /\ c.closing /\ ConnSound(c, failed)
    BY <1>0, <1>2, <1>3, <1>4, TaskEnds, IdsFacts DEF TaskSound, ConnsSound
<1>6. PICK p : p = PDU("DR", t.id, c.remote, 0)
    OBVIOUS
<1>7. p \in PDUs /\ p.type = "DR" /\ p.src = t.id /\ p.dst = c.remote
    <2>1. t.id \in Nat /\ c.remote \in Nat
        BY <1>0, <1>5, IdsFacts, Receives
    <2> QED
        BY <1>6, <2>1, TP4Assumption DEF PDU, PDUs, PDUTypes
<1>8. PICK d : d = [c EXCEPT !.state = "FIN_WAIT"]
    OBVIOUS
<1>9. failed' \in 0..MaxFail /\ (failed' = failed \/ failed' = failed + 1)
    BY <1>0, <1>3 DEF Sent, Raised
<1>10. c.state # "CLOSED" =>
        /\ d \in Connections /\ Evolves(c, d) /\ Keeps(c, d) /\ ConnSound(d, failed')
        /\ d.state = "FIN_WAIT" /\ d.written = c.written /\ d.closing = c.closing
    <2>1. ASSUME c.state # "CLOSED"
          PROVE  /\ d \in Connections /\ Evolves(c, d) /\ Keeps(c, d) /\ ConnSound(d, failed)
                 /\ d.state = "FIN_WAIT" /\ d.written = c.written /\ d.closing = c.closing
        BY <1>5, <1>8, <2>1, FinFacts
    <2>2. failed' = 0 => failed = 0
        BY <1>3, <1>9, ReliableStays
    <2> QED
        BY <2>1, <2>2, SameFacts
<1>11. ConnStep
    <2>1. failed' = 0 => failed = 0
        BY <1>3, <1>9, ReliableStays
    <2>2. CASE c.state = "CLOSED"
        BY <1>0, <1>3, <2>1, <2>2, SameStep
    <2>3. CASE c.state # "CLOSED"
        BY <1>0, <1>2, <1>3, <1>5, <1>8, <1>10, <2>1, <2>3, ReplaceStep DEF Keeps
    <2> QED
        BY <2>2, <2>3
<1>12. /\ \A m \in Nodes : Ids(m)' = Ids(m)
       /\ c.state # "CLOSED" => conn'[n][t.id] = d
       /\ c.state = "CLOSED" => conn' = conn
       /\ \A m \in Nodes : \A j \in Ids(m) : m # n \/ j # t.id => conn'[m][j] = conn[m][j]
    <2>1. CASE c.state = "CLOSED"
        BY <1>3, <2>1 DEF Ids
    <2>2. CASE c.state # "CLOSED"
        <3>1. Replace(n, t.id, d)
            BY <1>3, <1>8, <2>2
        <3> QED
            BY <1>0, <1>5, <1>10, <2>2, <3>1, ReplaceFacts
    <2> QED
        BY <2>1, <2>2
(* The close is the last task of its connection.                           *)
<1>13. ASSUME c.state # "CLOSED"
       PROVE  Finished(n, t.id)'
    <2>1. ASSUME NEW u, Queued(n, u)'
          PROVE  u.id # t.id
        BY <1>3, <1>4, <2>1 DEF Inv, TasksSound, CloseLast
    <2> QED
        BY <1>5, <1>10, <1>12, <1>13, <2>1 DEF Finished
<1>14. c.state # "CLOSED" => NewPDU(n, p)
    BY <1>2, <1>5, <1>7, <1>10, <1>12, <1>13 DEF NewPDU, PDUSound, Keeps
<1>15. /\ c.state # "CLOSED" => WireFlow(n, {p})
       /\ c.state = "CLOSED" => WireFlow(n, {})
       /\ Stays
    <2>1. CASE Sent(chan, n, PDU("DR", t.id, c.remote, 0)) /\ c.state # "CLOSED"
        BY <1>0, <1>6, <1>7, <2>1, SentFlow
    <2>2. CASE chan' = chan
        BY <1>0, <2>2, SameWire
    <2> QED
        BY <1>3, <2>1, <2>2 DEF Raised
<1>16. ASSUME NEW m \in Nodes, NEW j \in Ids(m)
       PROVE  /\ conn'[m][j].received = conn[m][j].received
              /\ conn'[m][j].written = conn[m][j].written
              /\ conn'[m][j].state = "CLOSED" => conn[m][j].state = "CLOSED"
              /\ conn'[m][j].state = "FIN_WAIT" =>
                    conn[m][j].state = "FIN_WAIT" \/ (c.state # "CLOSED" /\ m = n /\ j = t.id)
    BY <1>2, <1>10, <1>12 DEF Keeps
<1>17. PICK P : StepAt(n, P, {})
    <2>1. CASE c.state = "CLOSED"
        <3>1. StepAt(n, {}, {})
            BY <1>4, <1>11, <1>15, <1>16, <2>1 DEF StepAt
        <3> QED
            BY <3>1
    <2>2. CASE c.state # "CLOSED"
        <3>1. StepAt(n, {p}, {})
            BY <1>4, <1>11, <1>13, <1>14, <1>15, <1>16, <2>2 DEF StepAt
        <3> QED
            BY <3>1
    <2> QED
        BY <2>1, <2>2
<1>18. SameReceived
    BY <1>16 DEF SameReceived
<1>19. \A m \in Nodes : \A u : Queued(m, u) /\ u.kind = "data" => Queued(m, u)'
    BY <1>3, <1>4, Peers
<1>20. ConfirmsStay /\ Tracked
    BY <1>12, <1>15, <1>16, <1>18, <1>19, StaysTracked
<1>21. Calm
    BY <1>3, <1>9, <1>16, <1>18, <1>20, ReliableStays DEF Calm
<1> QED
    BY <1>0, <1>3, <1>9, <1>17, <1>21, CalmStep

-------------------------------------------------------------------------------
(* Receiving.                                                              *)

LEMMA ReceivingFacts ==
    ASSUME Inv, NEW n \in Nodes, NEW type, Receiving(n, type)
    PROVE  /\ chan[Peer(n)] # <<>> /\ Waiting(n).type = type
           /\ \A i \in Ids(n) : conn[n][i].handler = "none"
BY DEF Receiving, Dispatching

LEMMA TakenFacts ==
    ASSUME Inv, NEW n \in Nodes, NEW type, Receiving(n, type), chan' = Rest(n)
    PROVE  WireFlow(n, {}) /\ Takes(n)
<1>1. ChanTypes /\ chan[Peer(n)] # <<>>
    BY CountersType, ReceivingFacts
<1> QED
    BY <1>1, TakenFlow

(* What is taken is no datum and no CC, or the step says what became of it.*)
LEMMA OthersStay ==
    ASSUME NEW n \in Nodes, Takes(n), NEW m \in Nodes, NEW p, Sending(m, p),
           ~(m = Peer(n) /\ p = Waiting(n))
    PROVE  Sending(m, p)'
BY Peers DEF Takes

LEMMA RecvCRInv ==
    ASSUME Inv, NEW n \in Nodes, RecvCR(n)
    PROVE  Inv' /\ ConnStep
<1> DEFINE o == Peer(n)
<1>0. /\ lost \in 0..MaxLost /\ failed \in 0..MaxFail
      /\ ConnTypes /\ ConnsSound /\ Links /\ ChanTypes /\ TaskTypes
      /\ failed < MaxFail => failed + 1 \in 0..MaxFail
    BY CountersType
<1>1. PICK h : h = Waiting(n)
    OBVIOUS
<1>2. /\ chan[o] # <<>> /\ h.type = "CR" /\ o \in Nodes /\ Peer(o) = n /\ o # n
      /\ lost' = lost /\ tasks' = tasks
      /\ \A m \in Nodes : m = n \/ m = o
    BY <1>1, ReceivingFacts, Peers DEF RecvCR
<1>3. PICK i : i = Id(n)
    OBVIOUS
<1>4. i \in Nat /\ i # 0 /\ i \notin Ids(n)
    BY <1>0, <1>3, IdsFacts
<1>5. PICK p : p = PDU("CC", Id(n), h.src, 0)
    OBVIOUS
<1>6. PICK c : c = NewConn("ESTABLISHED", h.src, "none")
    OBVIOUS
<1>7. Adds(n, c) /\ (Sent(Rest(n), n, PDU("CC", Id(n), h.src, 0)) \/ Raised(Rest(n)))
    BY <1>1, <1>6 DEF RecvCR, Adds
<1>8. Takes(n)
    <2>1. CASE chan' = Rest(n)
        BY <1>0, <1>2, <2>1, TakenFlow
    <2>2. CASE Sent(Rest(n), n, PDU("CC", Id(n), h.src, 0))
        <3>1. Waiting(n) \in PDUs
            BY <1>0, <1>2, RestFacts
        <3>2. PDU("CC", Id(n), h.src, 0) \in PDUs
            BY <1>1, <1>3, <1>4, <3>1, TP4Assumption DEF PDU, PDUs, PDUTypes
        <3> QED
            BY <1>0, <1>2, <2>2, <3>2, AnsweredFlow
    <2> QED
        BY <1>7, <2>1, <2>2 DEF Raised
<1>9. h \in PDUs /\ Sending(o, h) /\ PDUSound(o, h)
    BY <1>1, <1>2, <1>8 DEF Takes, Inv, PDUsSound
<1>10. /\ h.src \in Ids(o) /\ conn[o][h.src].call # "none" /\ h.src \in Nat /\ h.src # 0
       /\ \A j \in Ids(n) : conn[n][j].call = "none" => conn[n][j].remote # h.src
    BY <1>0, <1>2, <1>9, IdsFacts DEF PDUSound
<1>11. p \in PDUs /\ p.type = "CC" /\ p.src = i /\ p.dst = h.src
    BY <1>3, <1>4, <1>5, <1>10, TP4Assumption DEF PDU, PDUs, PDUTypes
<1>12. /\ c \in Connections /\ c.state = "ESTABLISHED" /\ c.remote = h.src /\ c.call = "none"
       /\ Fresh(c) /\ \A f : ConnSound(c, f)
    BY <1>6, <1>10, NewConnFacts DEF Fresh
<1>13. failed' \in 0..MaxFail /\ (failed' = failed \/ failed' = failed + 1)
    BY <1>0, <1>7 DEF Sent, Raised
<1>14. ASSUME NEW q, Sending(o, q)', q.type = "CR"
       PROVE  q.src # h.src
    <2>1. Before(chan[o], h, q)
        BY <1>1, <1>8, <1>14 DEF Takes
    <2> QED
        BY <1>2, <1>14, <2>1 DEF Inv, PDUsSound, OneRequest
<1>15. ConnStep
    <2>1. failed' = 0 => failed = 0
        BY <1>2, <1>13, ReliableStays
    <2> QED
        BY <1>0, <1>7, <1>10, <1>12, <1>14, <2>1, AddsStep
<1>16. /\ Ids(n)' = Ids(n) \cup {i} /\ Ids(o)' = Ids(o)
       /\ conn'[n][i] = c
       /\ \A m \in Nodes : \A j \in Ids(m) : conn'[m][j] = conn[m][j]
    BY <1>0, <1>3, <1>7, <1>12, AddsFacts
<1>17. NewPDU(n, p)
    <2>1. PDUSound(n, p)'
        BY <1>10, <1>11, <1>12, <1>16 DEF PDUSound
    <2> QED
        BY <1>4, <1>11, <2>1 DEF NewPDU
<1>18. WireFlow(n, {p})
    <2>1. CASE chan' = Rest(n)
        BY <1>0, <1>2, <2>1, TakenFlow
    <2>2. CASE Sent(Rest(n), n, PDU("CC", Id(n), h.src, 0))
        BY <1>0, <1>2, <1>5, <1>11, <2>2, AnsweredFlow
    <2> QED
        BY <1>7, <2>1, <2>2 DEF Raised
<1>19. QueueFlow(n, {}) /\ StaysQueued
    BY <1>0, <1>2, SameQueue
<1>20. StepAt(n, {p}, {})
    BY <1>15, <1>16, <1>17, <1>18, <1>19 DEF StepAt
<1>21. SameReceived
    BY <1>16 DEF SameReceived
<1>22. ASSUME Reliable'
       PROVE  Reliable /\ ConfirmsStay /\ Tracked
    <2>1. Reliable /\ failed' = failed
        BY <1>2, <1>13, <1>22, ReliableStays
    <2>2. Sending(n, p)'
        <3>1. failed \in Nat
            BY <1>0, TP4Assumption
        <3>2. Sent(Rest(n), n, PDU("CC", Id(n), h.src, 0))
            BY <1>7, <2>1, <3>1 DEF Raised
        <3> QED
            BY <1>0, <1>2, <1>5, <1>11, <3>2, AnsweredFlow
    <2>3. \A m \in Nodes : \A q : Sending(m, q) /\ q.type # "CR" => Sending(m, q)'
        BY <1>1, <1>2, <1>8, OthersStay
    <2>4. ConfirmsStay
        BY <1>2, <1>11, <1>16, <2>2, <2>3 DEF ConfirmsStay
    <2>5. ASSUME NEW m \in Nodes, NEW j \in Ids(m)
          PROVE  Len(conn[m][j].received) <= Len(conn'[m][j].received)
        <3>1. conn[m][j].received \in Seq(Nat)
            BY <1>0, IdsFacts, Receives
        <3>2. Len(conn[m][j].received) <= Len(conn[m][j].received)
            BY <3>1
        <3> QED
            BY <1>16, <3>2
    <2>6. Tracked
        BY <1>16, <1>19, <2>3, <2>5 DEF Tracked, StaysQueued
    <2> QED
        BY <2>1, <2>4, <2>6
<1>23. Calm
    BY <1>16, <1>21, <1>22 DEF Calm
<1> QED
    BY <1>0, <1>2, <1>13, <1>20, <1>23, CalmStep

LEMMA RecvCCInv ==
    ASSUME Inv, NEW n \in Nodes, RecvCC(n)
    PROVE  Inv' /\ ConnStep
<1> DEFINE o == Peer(n)
<1>0. /\ lost \in 0..MaxLost /\ failed \in 0..MaxFail
      /\ ConnTypes /\ ConnsSound /\ Links /\ ChanTypes /\ TaskTypes
    BY CountersType
<1>1. PICK h : h = Waiting(n)
    OBVIOUS
<1>2. PICK i \in Ids(n) :
        /\ Receiving(n, "CC") /\ h.dst = i /\ conn[n][i].state = "SYN_SENT"
        /\ Replace(n, i, [conn[n][i] EXCEPT !.state = "ESTABLISHED", !.remote = h.src])
        /\ chan' = Rest(n) /\ UNCHANGED <<tasks, lost, failed>>
    BY <1>1 DEF RecvCC, For
<1>3. WireFlow(n, {}) /\ Takes(n) /\ h.type = "CC"
    BY <1>1, <1>2, TakenFacts, ReceivingFacts
<1>4. /\ o \in Nodes /\ Peer(o) = n /\ Sending(o, h) /\ h \in PDUs
      /\ h.src \in Ids(o) /\ conn[o][h.src].remote = i /\ PDUSound(o, h)
    BY <1>1, <1>2, <1>3, HeadEnds
<1>5. conn[o][h.src].call = "none" /\ h.src \in Nat \ {0}
    BY <1>0, <1>3, <1>4, IdsFacts DEF PDUSound
<1>6. PICK d : d = [conn[n][i] EXCEPT !.state = "ESTABLISHED", !.remote = h.src]
    OBVIOUS
<1>7. conn[n][i] \in Connections /\ ConnSound(conn[n][i], failed)
    BY <1>0, IdsFacts DEF ConnsSound
<1>8. /\ d \in Connections /\ Evolves(conn[n][i], d) /\ ConnSound(d, failed)
      /\ d.remote = h.src /\ d.received = conn[n][i].received
      /\ d.state = "ESTABLISHED" /\ d.written = conn[n][i].written
    <2>1. PICK r \in Nat \ {0} : r = h.src
        BY <1>5
    <2>2. PICK c \in Connections : c = conn[n][i]
        BY <1>7
    <2>3. d = ConfirmedBy(c, r)
        BY <1>6, <2>1, <2>2, Zenon DEF ConfirmedBy
    <2>4. c.state = "SYN_SENT" /\ ConnSound(c, failed)
        BY <1>2, <1>7, <2>2
    <2>5. /\ d \in Connections /\ Evolves(c, d) /\ ConnSound(d, failed)
          /\ d.remote = r /\ d.received = c.received
          /\ d.state = "ESTABLISHED" /\ d.written = c.written
        BY <2>3, <2>4, ConfirmedFacts
    <2> QED
        BY <2>1, <2>2, <2>5
<1>9. conn[n][i].call # "none"
    BY <1>2, <1>7 DEF ConnSound
<1>10. ConnStep
    <2>1. Binds(n, i, d.remote)
        BY <1>4, <1>5, <1>8, <1>9 DEF Binds
    <2> QED
        BY <1>0, <1>2, <1>6, <1>8, <2>1, ReplaceStep
<1>11. /\ \A m \in Nodes : Ids(m)' = Ids(m)
       /\ conn'[n][i] = d
       /\ \A m \in Nodes : \A j \in Ids(m) : m # n \/ j # i => conn'[m][j] = conn[m][j]
    BY <1>0, <1>2, <1>6, <1>8, ReplaceFacts
<1>12. \A m \in Nodes : \A j \in Ids(m) :
        /\ conn'[m][j].received = conn[m][j].received
        /\ conn'[m][j].written = conn[m][j].written
        /\ conn'[m][j].state # conn[m][j].state => conn'[m][j].state = "ESTABLISHED"
    BY <1>8, <1>11
<1>13. QueueFlow(n, {}) /\ StaysQueued
    BY <1>0, <1>2, SameQueue
<1>14. StepAt(n, {}, {})
    BY <1>3, <1>10, <1>12, <1>13 DEF StepAt
<1>15. ConfirmsStay /\ Tracked
    <2>1. ASSUME NEW m \in Nodes, NEW p, Sending(m, p), p.type = "CC"
          PROVE  Sending(m, p)' \/ conn'[Peer(m)][p.dst].state # "SYN_SENT"
        <3>1. CASE m = o /\ p = h
            BY <1>2, <1>4, <1>8, <1>11, <3>1
        <3>2. CASE ~(m = o /\ p = h)
            BY <1>1, <1>3, <2>1, <3>2, OthersStay
        <3> QED
            BY <3>1, <3>2
    <2>2. \A m \in Nodes : \A p : Sending(m, p) /\ p.type = "DT" => Sending(m, p)'
        BY <1>1, <1>3, OthersStay
    <2>3. ASSUME NEW m \in Nodes, NEW j \in Ids(m)
          PROVE  Len(conn[m][j].received) <= Len(conn'[m][j].received)
        <3>1. conn[m][j].received \in Seq(Nat)
            BY <1>0, IdsFacts, Receives
        <3>2. Len(conn[m][j].received) <= Len(conn[m][j].received)
            BY <3>1
        <3> QED
            BY <1>12, <3>2
    <2> QED
        BY <1>11, <1>12, <1>13, <2>1, <2>2, <2>3 DEF ConfirmsStay, Tracked, StaysQueued
<1>16. Calm
    BY <1>2, <1>12, <1>15, ReliableStays DEF Calm, SameReceived
<1> QED
    BY <1>0, <1>2, <1>14, <1>16, CalmStep

LEMMA RecvIgnoredInv ==
    ASSUME Inv, NEW n \in Nodes, RecvIgnored(n)
    PROVE  Inv' /\ ConnStep
<1> DEFINE o == Peer(n)
<1>0. /\ lost \in 0..MaxLost /\ failed \in 0..MaxFail
      /\ ConnTypes /\ ConnsSound /\ Links /\ ChanTypes /\ TaskTypes
    BY CountersType
<1>1. PICK h : h = Waiting(n)
    OBVIOUS
<1>2. /\ \/ h.type = "CC" /\ \A i \in Ids(n) : For(n, i) => conn[n][i].state # "SYN_SENT"
         \/ h.type = "DC"
         \/ h.type = "DT" /\ \A i \in Ids(n) : For(n, i) => conn[n][i].state # "ESTABLISHED"
         \/ h.type = "DR"
      /\ chan' = Rest(n) /\ UNCHANGED <<conn, tasks, lost, failed>>
      /\ \E type : Receiving(n, type)
    BY <1>1 DEF RecvIgnored, Receiving
<1>3. WireFlow(n, {}) /\ Takes(n)
    BY <1>2, TakenFacts
<1>4. ConnStep
    BY <1>0, <1>2, SameStep
<1>5. QueueFlow(n, {}) /\ StaysQueued
    BY <1>0, <1>2, SameQueue
<1>6. StepAt(n, {}, {})
    BY <1>2, <1>3, <1>4, <1>5 DEF StepAt
<1>7. SameReceived /\ \A m \in Nodes : Ids(m)' = Ids(m)
    BY <1>2 DEF SameReceived, Ids
<1>8. ASSUME Reliable'
      PROVE  Reliable /\ ConfirmsStay /\ Tracked
    <2>0. Reliable
        BY <1>2, <1>8, ReliableStays
    <2>1. ASSUME NEW m \in Nodes, NEW p, Sending(m, p), p.type = "CC"
          PROVE  Sending(m, p)' \/ conn'[Peer(m)][p.dst].state # "SYN_SENT"
        <3>1. CASE m = o /\ p = h
            <4>1. /\ Peer(o) = n /\ h.dst \in Ids(n)
                BY <1>1, <1>3, <2>1, <3>1, HeadEnds
            <4>2. conn[n][h.dst].state # "SYN_SENT"
                <5>1. For(n, h.dst) \/ ~conn[n][h.dst].listed
                    BY <1>1 DEF For
                <5>2. ~conn[n][h.dst].listed => conn[n][h.dst].state = "CLOSED"
                    BY <1>0, <4>1 DEF ConnsSound, ConnSound
                <5> QED
                    BY <1>2, <2>1, <3>1, <4>1, <5>1, <5>2
            <4> QED
                BY <1>2, <3>1, <4>1, <4>2
        <3>2. CASE ~(m = o /\ p = h)
            BY <1>1, <1>3, <2>1, <3>2, OthersStay
        <3> QED
            BY <3>1, <3>2
    <2>2. ASSUME NEW m \in Nodes, NEW p, Sending(m, p), p.type = "DT",
                 conn'[Peer(m)][p.dst].state \in {"SYN_SENT", "ESTABLISHED"}
          PROVE  Sending(m, p)'
        <3>1. CASE m = o /\ p = h
            <4>1. Peer(o) = n /\ h.dst \in Ids(n)
                BY <1>1, <1>3, <2>2, <3>1, HeadEnds
            <4>2. conn[n][h.dst].state # "SYN_SENT"
                BY <1>1, <1>3, <2>0, <2>2, <3>1, Confirmed DEF Inv, Complete
            <4>3. conn[n][h.dst].state # "ESTABLISHED"
                <5>1. For(n, h.dst) \/ ~conn[n][h.dst].listed
                    BY <1>1 DEF For
                <5>2. ~conn[n][h.dst].listed => conn[n][h.dst].state = "CLOSED"
                    BY <1>0, <4>1 DEF ConnsSound, ConnSound
                <5> QED
                    BY <1>2, <2>2, <3>1, <4>1, <5>1, <5>2
            <4> QED
                BY <1>2, <2>2, <3>1, <4>1, <4>2, <4>3
        <3>2. CASE ~(m = o /\ p = h)
            BY <1>1, <1>3, <2>2, <3>2, OthersStay
        <3> QED
            BY <3>1, <3>2
    <2>3. ASSUME NEW m \in Nodes, NEW j \in Ids(m)
          PROVE  Len(conn[m][j].received) <= Len(conn'[m][j].received)
        <3>1. conn[m][j].received \in Seq(Nat)
            BY <1>0, IdsFacts, Receives
        <3> QED
            BY <1>2, <3>1
    <2> QED
        BY <1>2, <1>5, <1>7, <2>0, <2>1, <2>2, <2>3 DEF ConfirmsStay, Tracked, StaysQueued
<1>9. Calm
    BY <1>2, <1>7, <1>8 DEF Calm
<1> QED
    BY <1>0, <1>2, <1>6, <1>9, CalmStep

LEMMA LoseInv ==
    ASSUME Inv, NEW n \in Nodes, Lose(n)
    PROVE  Inv' /\ ConnStep
<1>0. /\ lost \in 0..MaxLost /\ failed \in 0..MaxFail /\ lost \in Nat
      /\ ConnTypes /\ ConnsSound /\ Links /\ ChanTypes /\ TaskTypes
      /\ lost < MaxLost => lost + 1 \in 0..MaxLost
    BY CountersType, TP4Assumption
<1>1. lost < MaxLost /\ lost' = lost + 1 /\ UNCHANGED <<conn, tasks, failed>>
    BY DEF Lose
<1>2. WireFlow(n, {}) /\ QueueFlow(n, {})
    BY <1>0, <1>1, LostFlow, SameQueue
<1>3. ConnStep
    BY <1>0, <1>1, SameStep
<1>4. StepAt(n, {}, {})
    BY <1>1, <1>2, <1>3 DEF StepAt
<1>5. ~Reliable'
    BY <1>0, <1>1 DEF Reliable
<1>6. Calm
    BY <1>1, <1>5 DEF Calm, SameReceived
<1> QED
    BY <1>0, <1>1, <1>4, <1>6, CalmStep

(* A PDU that ends connection i of n.                                      *)
LEMMA EndingInv ==
    ASSUME Inv, NEW n \in Nodes, NEW i \in Ids(n), NEW d \in Connections, NEW P,
           Replace(n, i, d), Evolves(conn[n][i], d), Keeps(conn[n][i], d),
           ConnSound(d, failed'), d.state = "CLOSED", d.written = conn[n][i].written,
           d.closing = conn[n][i].closing,
           Takes(n), WireFlow(n, P), \A p \in P : NewPDU(n, p),
           Waiting(n).type \notin {"CC", "DT"},
           tasks' = tasks, lost' = lost, failed' \in 0..MaxFail,
           failed' = failed \/ failed' = failed + 1,
           Reliable /\ conn[n][i].state # "CLOSED" =>
                conn[n][i].remote # 0 /\ Other(n, i).state \in {"FIN_WAIT", "CLOSED"},
           Reliable /\ ~conn[n][i].eof /\ ~conn[n][i].closing =>
                /\ conn[n][i].remote # 0 /\ Other(n, i).closing
                /\ Len(conn[n][i].received) = Other(n, i).written
    PROVE  Inv' /\ ConnStep
<1>0. /\ lost \in 0..MaxLost /\ failed \in 0..MaxFail
      /\ ConnTypes /\ ConnsSound /\ Links /\ ChanTypes /\ TaskTypes
    BY CountersType
<1>1. failed' = 0 => failed = 0
    BY ReliableStays
<1>2. ConnStep
    BY <1>0, <1>1, ReplaceStep DEF Keeps
<1>3. /\ \A m \in Nodes : Ids(m)' = Ids(m)
      /\ conn'[n][i] = d
      /\ \A m \in Nodes : \A j \in Ids(m) : m # n \/ j # i => conn'[m][j] = conn[m][j]
    BY <1>0, ReplaceFacts
<1>4. \A m \in Nodes : \A j \in Ids(m) :
        /\ conn'[m][j].received = conn[m][j].received
        /\ conn'[m][j].written = conn[m][j].written
        /\ conn'[m][j].closing = conn[m][j].closing
        /\ m # n \/ j # i => conn'[m][j] = conn[m][j]
        /\ conn'[m][j].state = "FIN_WAIT" => conn[m][j].state = "FIN_WAIT"
    BY <1>3 DEF Keeps
<1>5. QueueFlow(n, {}) /\ StaysQueued
    BY <1>0, SameQueue
<1>6. StepAt(n, P, {})
    BY <1>2, <1>4, <1>5 DEF StepAt
<1>7. SameReceived
    BY <1>4 DEF SameReceived
<1>8. Ordered'
    BY <1>6, <1>7, OrderStep
<1>9. ASSUME Reliable'
      PROVE  (ConfirmFirst /\ BothClosing /\ NothingMissing /\ AllDelivered /\ NoGaps)'
    <2>1. Reliable /\ ConfirmFirst /\ BothClosing /\ NothingMissing /\ AllDelivered /\ NoGaps
        BY <1>9, ReliableStays DEF Inv, Complete
    <2>2. \A m \in Nodes : \A p : Sending(m, p) /\ p.type \in {"CC", "DT"} => Sending(m, p)'
        BY OthersStay
    <2>3. ConfirmsStay
        BY <1>3, <2>2 DEF ConfirmsStay
    <2>4. ASSUME NEW m \in Nodes, NEW j \in Ids(m)
          PROVE  Len(conn[m][j].received) <= Len(conn'[m][j].received)
        <3>1. conn[m][j].received \in Seq(Nat)
            BY <1>0, IdsFacts, Receives
        <3>2. Len(conn[m][j].received) <= Len(conn[m][j].received)
            BY <3>1
        <3> QED
            BY <1>4, <3>2
    <2>5. Tracked
        BY <1>4, <1>5, <2>2, <2>4 DEF Tracked, StaysQueued
    <2>6. BothEndings
        BY <1>3, <2>1 DEF BothEndings
    <2>7. Delivers
        BY <1>3, <1>4, <2>1 DEF Delivers
    <2>8. ConfirmFirst'
        BY <1>6, <2>1, <2>3, ConfirmStep
    <2>9. BothClosing'
        BY <1>2, <2>1, <2>6, BothStep
    <2>10. NothingMissing'
        BY <1>2, <2>1, <2>5, MissingStep
    <2>11. AllDelivered'
        BY <1>2, <2>1, <2>7, DeliveredStep
    <2>12. NoGaps'
        BY <1>2, <1>7, <2>1, GapsStep
    <2> QED
        BY <2>8, <2>9, <2>10, <2>11, <2>12
<1>10. Complete'
    BY <1>9 DEF Complete
<1> QED
    BY <1>0, <1>6, <1>8, <1>10, InvFrom

LEMMA RecvDRInv ==
    ASSUME Inv, NEW n \in Nodes, RecvDR(n)
    PROVE  Inv' /\ ConnStep
<1> DEFINE o == Peer(n)
<1>0. /\ lost \in 0..MaxLost /\ failed \in 0..MaxFail
      /\ ConnTypes /\ ConnsSound /\ Links /\ ChanTypes /\ TaskTypes
      /\ failed < MaxFail => failed + 1 \in 0..MaxFail
    BY CountersType
<1>1. PICK h : h = Waiting(n)
    OBVIOUS
<1>2. PICK i \in Ids(n) :
        \E b : b = ClosedBy(conn[n][i]) /\
            /\ Receiving(n, "DR") /\ h.dst = i
            /\ \/ /\ Sent(Rest(n), n, PDU("DC", i, b.remote, 0))
                  /\ \/ Replace(n, i, [b EXCEPT !.listed = FALSE])
                     \/ Replace(n, i, [b EXCEPT !.handler = "removing"])
               \/ Raised(Rest(n)) /\ Replace(n, i, b)
            /\ UNCHANGED <<tasks, lost>>
    BY <1>1 DEF RecvDR, For, ClosedBy
<1>3. PICK c : c = conn[n][i]
    OBVIOUS
<1>4. PICK b :
        /\ b = ClosedBy(c)
        /\ Receiving(n, "DR") /\ h.dst = i
        /\ \/ /\ Sent(Rest(n), n, PDU("DC", i, b.remote, 0))
              /\ \/ Replace(n, i, [b EXCEPT !.listed = FALSE])
                 \/ Replace(n, i, [b EXCEPT !.handler = "removing"])
           \/ Raised(Rest(n)) /\ Replace(n, i, b)
        /\ UNCHANGED <<tasks, lost>>
    BY <1>2, <1>3
<1>5. /\ chan[o] # <<>> /\ h.type = "DR" /\ c.handler = "none"
      /\ c \in Connections /\ ConnSound(c, failed) /\ i \in Nat /\ c.remote \in Nat
    BY <1>0, <1>1, <1>3, <1>4, ReceivingFacts, IdsFacts, Receives DEF ConnsSound
<1>6. failed' \in 0..MaxFail /\ (failed' = failed \/ failed' = failed + 1)
    BY <1>0, <1>4 DEF Sent, Raised
<1>7. PICK d : /\ Replace(n, i, d)
               /\ Removes(b, d) \/ (d = b /\ failed' # 0)
    <2>1. failed + 1 # 0
        BY <1>0, TP4Assumption
    <2> QED
        BY <1>4, <2>1 DEF Raised, Removes
<1>8. /\ d \in Connections /\ Evolves(c, d) /\ ConnSound(d, failed') /\ Keeps(c, d)
      /\ d.state = "CLOSED" /\ d.written = c.written /\ d.closing = c.closing
    <2>1. b = ClosedBy(c) /\ (Removes(b, d) \/ (d = b /\ failed' # 0))
        BY <1>4, <1>7
    <2>2. PICK g : g = failed'
        OBVIOUS
    <2>3. c \in Connections /\ ConnSound(c, failed) /\ c.handler = "none"
        BY <1>5
    <2>4. Removes(b, d) \/ (d = b /\ g # 0) \/ d = Disconnected(c)
        BY <2>1, <2>2
    <2>5. /\ d \in Connections /\ Evolves(c, d) /\ ConnSound(d, g) /\ Keeps(c, d)
          /\ d.state = "CLOSED" /\ d.written = c.written /\ d.closing = c.closing
        <3>1. b = ClosedBy(c)
            BY <2>1
        <3>2. CASE Removes(b, d)
            BY <2>3, <3>1, <3>2, ClosedFacts
        <3>3. CASE d = b /\ g # 0
            BY <2>3, <3>1, <3>3, ClosedFacts
        <3>4. CASE d = Disconnected(c)
            BY <2>3, <3>1, <3>4, ClosedFacts
        <3> QED
            BY <2>4, <3>2, <3>3, <3>4
    <2> QED
        BY <2>2, <2>5
<1>9. b.remote = c.remote
    BY <1>4, <1>5 DEF Connections, ClosedBy
<1>10. PICK p : p = PDU("DC", i, b.remote, 0)
    OBVIOUS
<1>11. p \in PDUs /\ p.type = "DC" /\ p.src = i /\ p.dst = c.remote
    BY <1>5, <1>9, <1>10, TP4Assumption DEF PDU, PDUs, PDUTypes
<1>12. WireFlow(n, {p}) /\ Takes(n)
    <2>1. CASE chan' = Rest(n)
        BY <1>0, <1>5, <2>1, TakenFlow
    <2>2. CASE Sent(Rest(n), n, PDU("DC", i, b.remote, 0))
        BY <1>0, <1>5, <1>10, <1>11, <2>2, AnsweredFlow
    <2> QED
        BY <1>4, <2>1, <2>2 DEF Raised
<1>13. NewPDU(n, p)
    <2>1. i \in Ids(n)' /\ conn'[n][i] = d
        BY <1>0, <1>7, <1>8, ReplaceFacts
    <2>2. PDUSound(n, p)'
        BY <1>8, <1>11, <2>1 DEF PDUSound, Keeps
    <2> QED
        BY <1>11, <2>2 DEF NewPDU
<1>14. /\ o \in Nodes /\ h.src \in Ids(o) /\ PDUSound(o, h)
       /\ c.remote # 0 => Other(n, i) = conn[o][h.src]
    BY <1>1, <1>3, <1>4, <1>5, <1>12, HeadEnds
(* The peer has sent DR: it closes, and CC was before it.                  *)
<1>15. ASSUME Reliable
       PROVE  /\ c.state # "SYN_SENT" /\ NothingMissing /\ NoGaps /\ BothClosing
              /\ c.state \in {"ESTABLISHED", "FIN_WAIT"} => c.remote # 0
    BY <1>1, <1>3, <1>4, <1>5, <1>12, <1>15, Confirmed DEF Inv, Complete, ConnSound
<1>16. ASSUME Reliable, c.state # "CLOSED"
       PROVE  c.remote # 0 /\ Other(n, i).state \in {"FIN_WAIT", "CLOSED"}
    <2>1. c.state \in {"ESTABLISHED", "FIN_WAIT"}
        BY <1>5, <1>15, <1>16 DEF Connections
    <2> QED
        BY <1>5, <1>14, <1>15, <1>16, <2>1 DEF PDUSound
<1>17. ASSUME Reliable, ~c.eof, ~c.closing
       PROVE  /\ c.remote # 0 /\ Other(n, i).closing
              /\ Len(c.received) = Other(n, i).written
    <2>1. c.state # "FIN_WAIT"
        BY <1>3, <1>17 DEF Inv, TasksSound, ClosingFinished, Finished
    <2>2. c.state = "ESTABLISHED"
        BY <1>5, <1>15, <1>17, <2>1 DEF Connections, ConnSound
    <2> QED
        BY <1>1, <1>3, <1>4, <1>5, <1>12, <1>15, <1>17, <2>2, AllBeforeDR
<1> QED
    BY <1>1, <1>3, <1>4, <1>5, <1>6, <1>7, <1>8, <1>12, <1>13, <1>16, <1>17, EndingInv

LEMMA RecvDCInv ==
    ASSUME Inv, NEW n \in Nodes, RecvDC(n)
    PROVE  Inv' /\ ConnStep
<1> DEFINE o == Peer(n)
<1>0. /\ lost \in 0..MaxLost /\ failed \in 0..MaxFail
      /\ ConnTypes /\ ConnsSound /\ Links /\ ChanTypes /\ TaskTypes
    BY CountersType
<1>1. PICK h : h = Waiting(n)
    OBVIOUS
<1>2. PICK i \in Ids(n) :
        /\ Receiving(n, "DC") /\ h.dst = i /\ conn[n][i].state = "FIN_WAIT"
        /\ Replace(n, i, Disconnected(conn[n][i]))
        /\ chan' = Rest(n) /\ UNCHANGED <<tasks, lost, failed>>
    BY <1>1 DEF RecvDC, For, AwaitsDC
<1>3. PICK c : c = conn[n][i]
    OBVIOUS
<1>4. WireFlow(n, {}) /\ Takes(n) /\ h.type = "DC"
    BY <1>1, <1>2, TakenFacts, ReceivingFacts
<1>5. /\ c \in Connections /\ ConnSound(c, failed) /\ i \in Nat /\ i # 0
      /\ c.handler = "none" /\ c.remote # 0
    BY <1>0, <1>2, <1>3, IdsFacts, ReceivingFacts DEF ConnsSound, ConnSound
<1>6. PICK d : d = Disconnected(c)
    OBVIOUS
<1>7. /\ d \in Connections /\ Evolves(c, d) /\ ConnSound(d, failed) /\ Keeps(c, d)
      /\ d.state = "CLOSED" /\ d.written = c.written /\ d.closing = c.closing
    <2>1. PICK b : b = ClosedBy(c)
        OBVIOUS
    <2> QED
        BY <1>5, <1>6, <2>1, ClosedFacts
(* The peer answered DR, and has closed.                                   *)
<1>8. Other(n, i).state = "CLOSED"
    <2>1. o \in Nodes /\ Peer(o) = n /\ Sending(o, h) /\ h.dst = i
        BY <1>1, <1>2, <1>4, Peers DEF Takes
    <2>2. h.src \in Ids(o) /\ conn[o][h.src].remote = i /\ conn[o][h.src].state = "CLOSED"
        BY <1>4, <1>5, <2>1 DEF Inv, PDUsSound, PDUSound
    <2>3. conn[n][i].remote = h.src
        <3>1. PICK j \in Ids(o) : j = h.src
            BY <2>2
        <3>2. conn[o][j].remote = i /\ Other(o, j) = conn[n][i]
            BY <2>1, <2>2, <3>1 DEF Other
        <3>3. Other(o, j).remote # 0 => Other(o, j).remote = j
            BY <1>5, <2>1, <3>2, Pairing
        <3> QED
            BY <1>3, <1>5, <3>1, <3>2, <3>3
    <2> QED
        BY <2>2, <2>3 DEF Other
<1>9. c.closing
    BY <1>2, <1>3 DEF Inv, TasksSound, ClosingFinished, Finished
<1>10. Replace(n, i, d) /\ Waiting(n).type \notin {"CC", "DT"}
    BY <1>1, <1>2, <1>3, <1>4, <1>6
<1>11. failed' \in 0..MaxFail /\ tasks' = tasks /\ lost' = lost /\ failed' = failed
    BY <1>0, <1>2
<1> QED
    <2>1. PICK P : P = {}
        OBVIOUS
    <2>2. WireFlow(n, P) /\ Takes(n) /\ \A p \in P : NewPDU(n, p)
        BY <1>4, <2>1
    <2>3. /\ Evolves(conn[n][i], d) /\ Keeps(conn[n][i], d) /\ d.written = conn[n][i].written
          /\ d.closing = conn[n][i].closing /\ conn[n][i].remote # 0 /\ conn[n][i].closing
          /\ ConnSound(d, failed') /\ d.state = "CLOSED" /\ d \in Connections
        BY <1>3, <1>5, <1>7, <1>9, <1>11
    <2> QED
        BY <1>8, <1>10, <1>11, <2>2, <2>3, EndingInv

LEMMA RecvDTInv ==
    ASSUME Inv, NEW n \in Nodes, RecvDT(n)
    PROVE  Inv' /\ ConnStep
<1> DEFINE o == Peer(n)
<1>0. /\ lost \in 0..MaxLost /\ failed \in 0..MaxFail
      /\ ConnTypes /\ ConnsSound /\ Links /\ ChanTypes /\ TaskTypes
    BY CountersType
<1>1. PICK h : h = Waiting(n)
    OBVIOUS
<1>2. PICK i \in Ids(n) :
        /\ Receiving(n, "DT") /\ h.dst = i /\ conn[n][i].state = "ESTABLISHED"
        /\ Replace(n, i, [conn[n][i] EXCEPT !.received = Append(@, h.data)])
        /\ chan' = Rest(n) /\ UNCHANGED <<tasks, lost, failed>>
    BY <1>1 DEF RecvDT, For
<1>3. PICK c : c = conn[n][i]
    OBVIOUS
<1>4. WireFlow(n, {}) /\ Takes(n) /\ h.type = "DT"
    BY <1>1, <1>2, TakenFacts, ReceivingFacts
<1>5. c \in Connections /\ ConnSound(c, failed) /\ c.received \in Seq(Nat)
    BY <1>0, <1>2, <1>3, IdsFacts, Receives DEF ConnsSound
<1>6. PICK x \in 1..MaxWrites : x = h.data
    <2>1. h.src \in Ids(o) /\ o \in Nodes /\ h.data \in 1..conn[o][h.src].written
        BY <1>1, <1>4, HeadEnds DEF PDUSound
    <2>2. conn[o][h.src].written \in 0..MaxWrites
        BY <1>0, <2>1, IdsFacts, Receives
    <2>3. h.data \in 1..MaxWrites
        BY <2>1, <2>2, TP4Assumption
    <2> QED
        BY <2>3
<1>7. PICK d : d = FedWith(c, x)
    OBVIOUS
<1>8. /\ d \in Connections /\ Evolves(c, d) /\ ConnSound(d, failed)
      /\ d.remote = c.remote /\ d.received = Append(c.received, x)
      /\ d.state = "ESTABLISHED" /\ d.written = c.written /\ d.closing = c.closing
      /\ d.eof = c.eof
    <2>1. c.state = "ESTABLISHED"
        BY <1>2, <1>3
    <2> QED
        BY <1>5, <1>7, <2>1, FedFacts
<1>9. Replace(n, i, d)
    BY <1>2, <1>3, <1>6, <1>7 DEF FedWith
<1>10. /\ \A m \in Nodes : Ids(m)' = Ids(m)
       /\ conn'[n][i] = d
       /\ \A m \in Nodes : \A j \in Ids(m) : m # n \/ j # i => conn'[m][j] = conn[m][j]
    BY <1>0, <1>8, <1>9, ReplaceFacts
<1>11. ConnStep
    BY <1>0, <1>2, <1>3, <1>8, <1>9, ReplaceStep
<1>12. QueueFlow(n, {}) /\ StaysQueued
    BY <1>0, <1>2, SameQueue
<1>13. \A m \in Nodes : \A j \in Ids(m) :
        /\ conn'[m][j].remote = conn[m][j].remote
        /\ conn'[m][j].written = conn[m][j].written
        /\ conn'[m][j].closing = conn[m][j].closing
        /\ conn'[m][j].state = conn[m][j].state
        /\ conn'[m][j].eof = conn[m][j].eof
        /\ m # n \/ j # i => conn'[m][j].received = conn[m][j].received
    BY <1>2, <1>3, <1>8, <1>10
<1>14. StepAt(n, {}, {})
    BY <1>4, <1>11, <1>12, <1>13 DEF StepAt
<1>15. Ordered'
    <2>1. Feeds(n, i)
        BY <1>1, <1>2, <1>3, <1>4, <1>6, <1>8, <1>10, <1>12, <1>13 DEF Feeds
    <2> QED
        BY <1>10, <1>11, <1>13, <2>1, FedStep, Peers
<1>16. ASSUME Reliable'
       PROVE  (ConfirmFirst /\ BothClosing /\ NothingMissing /\ AllDelivered /\ NoGaps)'
    <2>1. Reliable /\ ConfirmFirst /\ BothClosing /\ NothingMissing /\ AllDelivered /\ NoGaps
        BY <1>2, <1>16, ReliableStays DEF Inv, Complete
    <2>2. x = Len(c.received) + 1
        BY <1>1, <1>2, <1>3, <1>4, <1>6, <2>1, NextDatum
    <2>3. /\ Len(c.received) \in Nat /\ DOMAIN c.received = 1..Len(c.received)
          /\ Len(d.received) = x /\ DOMAIN d.received = 1..x
          /\ d.received[x] = x
          /\ \A k \in DOMAIN c.received : d.received[k] = c.received[k]
        BY <1>5, <1>6, <1>8, <2>2
    <2>4. \A m \in Nodes : \A p : Sending(m, p) => Sending(m, p)' \/ (m = o /\ p = h)
        BY <1>1, <1>4, OthersStay
    <2>5. ConfirmsStay
        BY <1>4, <1>10, <2>4 DEF ConfirmsStay
    <2>6. ASSUME NEW m \in Nodes, NEW j \in Ids(m)
          PROVE  Len(conn[m][j].received) <= Len(conn'[m][j].received)
        <3>1. CASE m = n /\ j = i
            BY <1>3, <1>10, <2>2, <2>3, <3>1
        <3>2. CASE m # n \/ j # i
            <4>1. conn[m][j].received \in Seq(Nat)
                BY <1>0, IdsFacts, Receives
            <4>2. Len(conn[m][j].received) <= Len(conn[m][j].received)
                BY <4>1
            <4> QED
                BY <1>13, <3>2, <4>2
        <3> QED
            BY <3>1, <3>2
    <2>7. Tracked
        <3>1. ASSUME NEW m \in Nodes, NEW p, Sending(m, p)
              PROVE  Sending(m, p)' \/ p.data <= Len(conn'[Peer(m)][p.dst].received)
            <4>1. CASE m = o /\ p = h
                <5>1. Peer(m) = n /\ p.dst = i /\ p.data = x
                    BY <1>2, <1>6, <4>1, Peers
                <5>2. x <= Len(d.received)
                    BY <2>2, <2>3
                <5> QED
                    BY <1>10, <5>1, <5>2
            <4> QED
                BY <2>4, <3>1, <4>1
        <3> QED
            BY <1>12, <1>13, <2>6, <3>1 DEF Tracked, StaysQueued
    <2>8. BothEndings
        BY <1>13 DEF BothEndings
    <2>9. Delivers
        BY <1>13 DEF Delivers
    <2>10. ConfirmFirst'
        BY <1>14, <2>1, <2>5, ConfirmStep
    <2>11. BothClosing'
        BY <1>11, <2>1, <2>8, BothStep
    <2>12. NothingMissing'
        BY <1>11, <2>1, <2>7, MissingStep
    <2>13. AllDelivered'
        BY <1>11, <2>1, <2>9, DeliveredStep
    <2>14. NoGaps'
        <3> SUFFICES ASSUME NEW m \in Nodes, NEW j \in Ids(m),
                            NEW k \in DOMAIN conn'[m][j].received
                     PROVE  conn'[m][j].received[k] = k
            BY <1>10 DEF NoGaps
        <3>1. CASE m = n /\ j = i
            <4>1. k \in 1..x /\ (k = x \/ k \in DOMAIN c.received)
                BY <1>10, <2>2, <2>3, <3>1
            <4>2. \A l \in DOMAIN c.received : c.received[l] = l
                BY <1>3, <2>1 DEF NoGaps
            <4> QED
                BY <1>10, <2>3, <3>1, <4>1, <4>2
        <3>2. CASE m # n \/ j # i
            BY <1>13, <2>1, <3>2 DEF NoGaps
        <3> QED
            BY <3>1, <3>2
    <2> QED
        BY <2>10, <2>11, <2>12, <2>13, <2>14
<1>17. Complete'
    BY <1>16 DEF Complete
<1> QED
    BY <1>0, <1>2, <1>14, <1>15, <1>17, InvFrom

-------------------------------------------------------------------------------
(* The invariant holds, and what follows from it.                          *)

LEMMA InitInv == Init => Inv
<1> SUFFICES ASSUME Init
             PROVE  Inv
    OBVIOUS
<1>1. \A m \in Nodes : conn[m] = <<>> /\ tasks[m] = <<>> /\ chan[m] = <<>>
    BY DEF Init
<1>2. /\ \A m \in Nodes : Ids(m) = {}
      /\ \A m \in Nodes : \A t : ~Queued(m, t)
      /\ \A m \in Nodes : \A p : ~Sending(m, p)
      /\ \A m \in Nodes : \A p, q : ~Before(chan[m], p, q) /\ ~Before(tasks[m], p, q)
    BY <1>1 DEF Ids, Queued, Sending, In, Before
<1>3. Types
    BY TP4Assumption DEF Init, Types, ConnTypes
<1>4. ConnsSound /\ Links
    BY <1>2 DEF ConnsSound, Links, AcceptorLinked, OpenerLinked, OneAcceptor
<1>5. TasksSound /\ PDUsSound
    BY <1>2 DEF TasksSound, CloseLast, ClosingFinished, PDUsSound, OneRequest, WireInOrder
<1>6. Ordered
    BY <1>2 DEF Ordered, ReceivedBeforeWire, WireBeforeQueue, ReceivedBeforeQueue,
                ReceivedWritten
<1>7. Complete
    BY <1>2 DEF Complete, ConfirmFirst, BothClosing, NothingMissing, AllDelivered, NoGaps
<1> QED
    BY <1>3, <1>4, <1>5, <1>6, <1>7 DEF Inv

LEMMA StutterInv ==
    ASSUME Inv, UNCHANGED vars
    PROVE  Inv'
<1>1. UNCHANGED <<conn, tasks, chan, lost, failed>>
    BY DEF vars
<1>2. Types' /\ ConnsSound' /\ Links'
    BY <1>1 DEF Inv, Types, ConnTypes, ConnsSound, Links, AcceptorLinked, OpenerLinked,
                OneAcceptor, Other, Ids
<1>3. TasksSound'
    BY <1>1 DEF Inv, TasksSound, CloseLast, ClosingFinished, Finished, TaskSound, Queued, Ids
<1>4. PDUsSound'
    BY <1>1 DEF Inv, PDUsSound, PDUSound, OneRequest, WireInOrder, Sending, Finished,
                Queued, Ids
<1>5. Ordered'
    BY <1>1 DEF Inv, Ordered, ReceivedBeforeWire, WireBeforeQueue, ReceivedBeforeQueue,
                ReceivedWritten, Sending, Queued, Other, Ids
<1>6. ASSUME Reliable
      PROVE  (ConfirmFirst /\ BothClosing /\ NothingMissing /\ AllDelivered /\ NoGaps)'
    <2>1. (ConfirmFirst /\ BothClosing)'
        BY <1>1, <1>6 DEF Inv, Complete, ConfirmFirst, BothClosing, Sending, Other, Ids
    <2>2. NothingMissing'
        BY <1>1, <1>6 DEF Inv, Complete, NothingMissing, DataSent, DataQueued, Sending,
                          Queued, Other, Ids
    <2>3. (AllDelivered /\ NoGaps)'
        BY <1>1, <1>6 DEF Inv, Complete, AllDelivered, NoGaps, Other, Ids
    <2> QED
        BY <2>1, <2>2, <2>3
<1>7. Complete'
    BY <1>1, <1>6 DEF Complete, Reliable
<1> QED
    BY <1>2, <1>3, <1>4, <1>5, <1>7 DEF Inv

LEMMA ActionInv ==
    ASSUME Inv, Next
    PROVE  Inv' /\ ConnStep
<1>1. ASSUME NEW n \in Nodes, Program(n)
      PROVE  Inv' /\ ConnStep
    BY <1>1, ConnectInv, WriteInv, CloseInv DEF Program
<1>2. ASSUME NEW n \in Nodes, Receive(n)
      PROVE  Inv' /\ ConnStep
    BY <1>2, RecvCRInv, RecvCCInv, RecvDRInv, RecvDCInv, RecvDTInv, RecvIgnoredInv
       DEF Receive
<1>3. ASSUME NEW n \in Nodes, Step(n)
      PROVE  Inv' /\ ConnStep
    BY <1>2, <1>3, PollInv, SendDataInv, CloseConnectionInv, HandlerResumesInv DEF Step
<1>4. ASSUME NEW n \in Nodes, Lose(n)
      PROVE  Inv' /\ ConnStep
    BY <1>4, LoseInv
<1> QED
    BY <1>1, <1>3, <1>4 DEF Next

(* The inductive invariant.                                                *)
THEOREM InvCorrect == Spec => []Inv
<1>1. Inv /\ [Next]_vars => Inv'
    BY ActionInv, StutterInv
<1> QED
    BY <1>1, InitInv, PTL DEF Spec

(* Every variable keeps its type, and a task, a send_data or close_connection *)
(* created and not started, is about a connection that exists.             *)
THEOREM TypeCorrect == Spec => []TypeOK
<1>1. Inv => TypeOK
    <2> SUFFICES ASSUME Inv
                 PROVE  TypeOK
        OBVIOUS
    <2>1. ASSUME NEW n \in Nodes, NEW k \in DOMAIN tasks[n]
          PROVE  tasks[n][k] \in [kind : {"data", "close"}, id : Ids(n), data : 0..MaxWrites]
        <3>1. tasks[n] \in Seq(Tasks)
            BY DEF Inv, Types
        <3>2. Queued(n, tasks[n][k]) /\ tasks[n][k] \in Tasks
            BY <3>1 DEF Queued, In
        <3>3. tasks[n][k].id \in Ids(n)
            BY <3>2 DEF Inv, TasksSound, TaskSound
        <3> QED
            BY <3>2, <3>3 DEF Tasks
    <2> QED
        BY <2>1 DEF Inv, Types, ConnTypes, TypeOK, PDUs, PDUTypes
<1> QED
    BY <1>1, InvCorrect, PTL

(* The reader of a connection is fed data in the order in which the peer   *)
(* wrote them and none twice, whatever is lost between the nodes and       *)
(* however a close, data and suspended handlers interleave; while nothing  *)
(* is lost and no send raises, without a gap.                              *)
THEOREM DataInOrder == Spec => []InOrder
<1>1. Inv => InOrder
    BY DEF Inv, Ordered, ReceivedWritten, Rising, Complete, NoGaps, InOrder
<1> QED
    BY <1>1, InvCorrect, PTL

(* The end of the stream is not announced before the last byte: a reader   *)
(* that sees it while its own side has not closed has all that the peer    *)
(* wrote before it closed.                                                 *)
THEOREM EOFComplete == Spec => []CompleteAtEOF
<1>1. Inv => CompleteAtEOF
    BY DEF Inv, Complete, AllDelivered, CompleteAtEOF
<1> QED
    BY <1>1, InvCorrect, PTL

(* A connection that left the dictionary is CLOSED; a CLOSED one has left  *)
(* it or its _handle_dr is about to remove it, unless a send has raised.   *)
THEOREM RetiredCorrect == Spec => []Retired
<1>1. Inv => Retired
    BY DEF Inv, ConnsSound, ConnSound, Retired
<1> QED
    BY <1>1, InvCorrect, PTL

(* feed_eof is the last that a reader hears: no step feeds a connection    *)
(* whose stream has ended, and none opens it again.                        *)
THEOREM EndFinal == Spec => EndIsFinal
<1>1. ASSUME Inv, [Next]_vars, NEW n \in Nodes, NEW i \in Ids(n), conn[n][i].eof
      PROVE  /\ conn'[n][i].state = "CLOSED"
             /\ conn'[n][i].received = conn[n][i].received
    <2>1. conn[n][i].state = "CLOSED"
        BY <1>1 DEF Inv, ConnsSound, ConnSound
    <2>2. CASE Next
        BY <1>1, <2>1, <2>2, ActionInv DEF ConnStep, Evolves
    <2>3. CASE UNCHANGED vars
        BY <2>1, <2>3 DEF vars
    <2> QED
        BY <1>1, <2>2, <2>3
<1>2. Inv /\ [Next]_vars =>
        [\A n \in Nodes : \A i \in Ids(n) : conn[n][i].eof =>
            /\ conn'[n][i].state = "CLOSED"
            /\ conn'[n][i].received = conn[n][i].received]_vars
    BY <1>1
<1> QED
    BY <1>2, InvCorrect, PTL DEF Spec, EndIsFinal
================================================================================

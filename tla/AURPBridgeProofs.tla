--------------------------- MODULE AURPBridgeProofs ---------------------------
(***************************************************************************)
(* As long as each bridge of a node is started while stopped and stopped   *)
(* before those below it, their hooks form a stack: they are restored, and *)
(* no call misses any of them or the node's own method.  What bridges send *)
(* is in one place in whatever order they start and stop.                  *)
(***************************************************************************)
EXTENDS AURPBridge, FiniteSetTheorems, TLAPS

(* The bridges started at n, in the order of their starts: the last one's  *)
(* hook is on the node, each has saved the one before it.                  *)
StackOf(n, s) ==
    /\ s \in Seq(Bridges)
    /\ \A i, j \in 1..Len(s) : s[i] = s[j] => i = j
    /\ \A b \in Bridges : (At[b] = n /\ Running(b)) <=> \E i \in 1..Len(s) : b = s[i]
    /\ hook[n] = IF Len(s) = 0 THEN Own ELSE s[Len(s)]
    /\ \A i \in 1..Len(s) : saved[s[i]] = IF i = 1 THEN Own ELSE s[i - 1]

Stacked == \A n \in Nodes : orderly[n] => \E s : StackOf(n, s)

(* Hooks are of bridges of the node they are on.                           *)
Local ==
    /\ \A n \in Nodes : hook[n] \in Bridges => At[hook[n]] = n
    /\ \A c \in Bridges : saved[c] \in Bridges => At[saved[c]] = At[c]

HookTypes ==
    /\ hook \in [Nodes -> Bridges \cup {Own}]
    /\ saved \in [Bridges -> Bridges \cup {Own, Nothing}]
    /\ transport \in [Bridges -> BOOLEAN]
    /\ orderly \in [Nodes -> BOOLEAN]

(* Pushing and popping.                                                    *)
LEMMA Pushed ==
    ASSUME NEW s \in Seq(Bridges), NEW b \in Bridges
    PROVE  /\ Append(s, b) \in Seq(Bridges) /\ Len(Append(s, b)) = Len(s) + 1
           /\ Append(s, b)[Len(s) + 1] = b
           /\ \A i \in 1..Len(s) : Append(s, b)[i] = s[i]
OBVIOUS

LEMMA Popped ==
    ASSUME NEW s \in Seq(Bridges), NEW m \in Nat, Len(s) = m + 1
    PROVE  /\ SubSeq(s, 1, m) \in Seq(Bridges) /\ Len(SubSeq(s, 1, m)) = m
           /\ \A i \in 1..m : SubSeq(s, 1, m)[i] = s[i]
<1>1. \A i \in 1..m : s[i] \in Bridges
    OBVIOUS
<1> QED
    BY <1>1

(* The stack is empty in the beginning.                                    *)
LEMMA InitStacked == Init => Stacked
<1> SUFFICES ASSUME Init, NEW n \in Nodes PROVE StackOf(n, <<>>)
    BY DEF Stacked
<1> QED
    BY DEF Init, StackOf, Running

(* A step that leaves hook, saved and the started bridges of n alone keeps *)
(* n's stack.                                                              *)
LEMMA StackKept ==
    ASSUME NEW n \in Nodes, NEW s, StackOf(n, s),
           hook'[n] = hook[n],
           \A b \in Bridges : At[b] = n => (Running(b)' <=> Running(b)) /\ saved'[b] = saved[b]
    PROVE  StackOf(n, s)'
<1>1. \A i \in 1..Len(s) : s[i] \in Bridges /\ At[s[i]] = n
    BY DEF StackOf
<1>2. \A i \in 1..Len(s) : saved'[s[i]] = saved[s[i]]
    BY <1>1
<1> QED
    BY <1>2 DEF StackOf

(* Started puts the bridge on top.                                         *)
LEMMA StartedStacked ==
    ASSUME HookTypes, Stacked, NEW b \in Bridges, Started(b)
    PROVE  Stacked'
<1> USE AURPAssumption
<1> SUFFICES ASSUME NEW n \in Nodes, orderly'[n] PROVE \E s : StackOf(n, s)'
    BY DEF Stacked
<1>o. orderly' = [orderly EXCEPT ![At[b]] = @ /\ ~Running(b)]
    BY DEF Started
<1>r. orderly[n] /\ (n = At[b] => ~Running(b))
    BY <1>o DEF HookTypes
<1> PICK s : StackOf(n, s)
    BY <1>r DEF Stacked
<1>0. /\ transport' = [transport EXCEPT ![b] = TRUE]
      /\ saved' = [saved EXCEPT ![b] = hook[At[b]]]
      /\ hook' = [hook EXCEPT ![At[b]] = b]
    BY DEF Started
<1>1. CASE n # At[b]
    <2>1. \A c \in Bridges : At[c] = n => (Running(c)' <=> Running(c)) /\ saved'[c] = saved[c]
        BY <1>0, <1>1 DEF HookTypes, Running
    <2>2. hook'[n] = hook[n]
        BY <1>0, <1>1 DEF HookTypes
    <2> QED
        BY <2>1, <2>2, StackKept
<1>2. CASE n = At[b]
    <2>0. s \in Seq(Bridges)
        BY DEF StackOf
    <2> PICK m \in Nat : Len(s) = m
        BY <2>0
    <2> DEFINE t == Append(s, b)
    <2>1. /\ t \in Seq(Bridges) /\ Len(t) = m + 1 /\ t[m + 1] = b
          /\ \A i \in 1..m : t[i] = s[i]
        BY <2>0, Pushed
    <2> HIDE DEF t
    <2>s. /\ \A i, j \in 1..m : s[i] = s[j] => i = j
          /\ \A i \in 1..m : saved[s[i]] = IF i = 1 THEN Own ELSE s[i - 1]
          /\ hook[n] = IF m = 0 THEN Own ELSE s[m]
        BY DEF StackOf
    <2>2. \A i \in 1..m : s[i] \in Bridges /\ s[i] # b
        <3>1. \A i \in 1..m : s[i] \in Bridges
            BY <2>0
        <3> QED
            BY <1>2, <1>r, <3>1 DEF StackOf
    <2>c. \A i \in 1..(m + 1) : i \in 1..m \/ i = m + 1
        OBVIOUS
    <2>3. ASSUME NEW i \in 1..Len(t), NEW j \in 1..Len(t), t[i] = t[j]
          PROVE  i = j
        <3>1. (i \in 1..m \/ i = m + 1) /\ (j \in 1..m \/ j = m + 1)
            BY <2>1, <2>c
        <3>2. i \in 1..m /\ j \in 1..m => s[i] = s[j]
            BY <2>1, <2>3
        <3>3. i = m + 1 => j \notin 1..m
            BY <2>1, <2>2, <2>3
        <3>4. j = m + 1 => i \notin 1..m
            BY <2>1, <2>2, <2>3
        <3> QED
            BY <2>s, <3>1, <3>2, <3>3, <3>4
    <2>4. \A c \in Bridges : Running(c)' <=> Running(c) \/ c = b
        BY <1>0 DEF HookTypes, Running
    <2>5. ASSUME NEW c \in Bridges
          PROVE  (At[c] = n /\ Running(c)') <=> \E i \in 1..Len(t) : c = t[i]
        <3>1. (\E i \in 1..Len(t) : c = t[i]) <=> c = b \/ \E i \in 1..m : c = s[i]
            <4>1. m + 1 \in 1..(m + 1) /\ \A i \in 1..m : i \in 1..(m + 1)
                OBVIOUS
            <4> QED
                BY <2>1, <2>c, <4>1
        <3> QED
            BY <1>2, <2>4, <3>1 DEF StackOf
    <2>6. hook'[n] = b
        BY <1>0, <1>2 DEF HookTypes
    <2>7. ASSUME NEW i \in 1..Len(t)
          PROVE  saved'[t[i]] = IF i = 1 THEN Own ELSE t[i - 1]
        <3>1. CASE i = m + 1
            <4>1. saved'[b] = hook[n]
                BY <1>0, <1>2 DEF HookTypes
            <4>2. m # 0 => m \in 1..m /\ i - 1 = m
                BY <3>1
            <4> QED
                BY <2>1, <2>s, <3>1, <4>1, <4>2
        <3>2. CASE i # m + 1
            <4>1. i \in 1..m
                BY <2>1, <2>c, <3>2
            <4>2. saved'[s[i]] = saved[s[i]]
                BY <1>0, <2>2, <4>1 DEF HookTypes
            <4>3. i # 1 => i - 1 \in 1..m
                BY <4>1
            <4> QED
                BY <2>1, <2>s, <4>1, <4>2, <4>3
        <3> QED
            BY <3>1, <3>2
    <2>8. Len(t) # 0 /\ t[Len(t)] = b
        BY <2>1
    <2>9. StackOf(n, t)'
        BY <2>1, <2>3, <2>5, <2>6, <2>7, <2>8 DEF StackOf
    <2> QED
        BY <2>9
<1> QED
    BY <1>1, <1>2

(* Stop takes it off again.                                                *)
LEMMA StopStacked ==
    ASSUME HookTypes, Stacked, NEW b \in Bridges, Stop(b)
    PROVE  Stacked'
<1> USE AURPAssumption
<1> SUFFICES ASSUME NEW n \in Nodes, orderly'[n] PROVE \E s : StackOf(n, s)'
    BY DEF Stacked
<1>o. orderly' = [orderly EXCEPT ![At[b]] = @ /\ hook[At[b]] = b]
    BY DEF Stop
<1>r. orderly[n] /\ (n = At[b] => hook[n] = b)
    BY <1>o DEF HookTypes
<1> PICK s : StackOf(n, s)
    BY <1>r DEF Stacked
<1>0. /\ transport' = [transport EXCEPT ![b] = FALSE]
      /\ saved' = [saved EXCEPT ![b] = Nothing]
      /\ hook' = [hook EXCEPT ![At[b]] = saved[b]]
      /\ Running(b)
    BY DEF Stop, Unhooked, Cleared
<1>1. CASE n # At[b]
    <2>1. \A c \in Bridges : At[c] = n => (Running(c)' <=> Running(c)) /\ saved'[c] = saved[c]
        BY <1>0, <1>1 DEF HookTypes, Running
    <2>2. hook'[n] = hook[n]
        BY <1>0, <1>1 DEF HookTypes
    <2> QED
        BY <2>1, <2>2, StackKept
<1>2. CASE n = At[b]
    <2>0. s \in Seq(Bridges) /\ Len(s) \in Nat
        BY DEF StackOf
    <2>1. Len(s) # 0 /\ s[Len(s)] = b
        BY <1>r, <1>2 DEF StackOf
    <2> PICK m \in Nat : Len(s) = m + 1
        <3> Len(s) - 1 \in Nat /\ Len(s) = (Len(s) - 1) + 1
            BY <2>0, <2>1
        <3> QED
            OBVIOUS
    <2> DEFINE t == SubSeq(s, 1, m)
    <2>2. /\ t \in Seq(Bridges) /\ Len(t) = m
          /\ \A i \in 1..m : t[i] = s[i]
        BY <2>0, Popped
    <2> HIDE DEF t
    <2>s. /\ \A i, j \in 1..(m + 1) : s[i] = s[j] => i = j
          /\ \A i \in 1..(m + 1) : saved[s[i]] = IF i = 1 THEN Own ELSE s[i - 1]
        BY DEF StackOf
    <2>3. \A i \in 1..m : s[i] \in Bridges /\ s[i] # b
        <3>1. \A i \in 1..m : s[i] \in Bridges
            BY <2>0
        <3>2. \A i \in 1..m : i \in 1..(m + 1) /\ m + 1 \in 1..(m + 1) /\ i # m + 1
            OBVIOUS
        <3> QED
            BY <2>1, <2>s, <3>1, <3>2
    <2>4. \A i, j \in 1..Len(t) : t[i] = t[j] => i = j
        BY <2>2, <2>s
    <2>5. \A c \in Bridges : Running(c)' <=> Running(c) /\ c # b
        BY <1>0 DEF HookTypes, Running
    <2>6. ASSUME NEW c \in Bridges
          PROVE  (At[c] = n /\ Running(c)') <=> \E i \in 1..Len(t) : c = t[i]
        <3>1. (\E i \in 1..Len(t) : c = t[i]) <=> c # b /\ \E i \in 1..Len(s) : c = s[i]
            <4>1. \A i \in 1..(m + 1) : i \in 1..m \/ i = m + 1
                OBVIOUS
            <4>2. \A i \in 1..m : i \in 1..(m + 1)
                OBVIOUS
            <4> QED
                BY <2>1, <2>2, <2>3, <4>1, <4>2
        <3> QED
            BY <1>2, <2>5, <3>1 DEF StackOf
    <2>7. hook'[n] = IF Len(t) = 0 THEN Own ELSE t[Len(t)]
        <3>1. hook'[n] = saved[s[m + 1]]
            BY <1>0, <1>2, <2>1 DEF HookTypes
        <3>2. saved[s[m + 1]] = IF m + 1 = 1 THEN Own ELSE s[m]
            <4>1. m + 1 \in 1..(m + 1) /\ (m + 1) - 1 = m
                OBVIOUS
            <4>2. saved[s[m + 1]] = IF m + 1 = 1 THEN Own ELSE s[(m + 1) - 1]
                BY <2>s, <4>1
            <4> QED
                BY <4>1, <4>2
        <3> QED
            BY <2>2, <3>1, <3>2
    <2>8. ASSUME NEW i \in 1..Len(t)
          PROVE  saved'[t[i]] = IF i = 1 THEN Own ELSE t[i - 1]
        <3>1. saved'[s[i]] = saved[s[i]]
            BY <1>0, <2>2, <2>3 DEF HookTypes
        <3>a. i \in 1..m /\ i \in 1..(m + 1) /\ (i # 1 => i - 1 \in 1..m)
            BY <2>2
        <3>2. t[i] = s[i] /\ (i # 1 => t[i - 1] = s[i - 1])
            BY <2>2, <3>a
        <3> QED
            BY <2>s, <3>a, <3>1, <3>2
    <2>9. StackOf(n, t)'
        BY <2>2, <2>4, <2>6, <2>7, <2>8 DEF StackOf
    <2> QED
        BY <2>9
<1> QED
    BY <1>1, <1>2

(* No other step touches hooks or started bridges.                         *)
LEMMA OtherStacked ==
    ASSUME HookTypes, Stacked, hook' = hook, saved' = saved, orderly' = orderly,
           \A b \in Bridges : Running(b)' <=> Running(b)
    PROVE  Stacked'
<1> SUFFICES ASSUME NEW n \in Nodes, orderly[n] PROVE \E s : StackOf(n, s)'
    BY DEF Stacked
<1> PICK s : StackOf(n, s)
    BY DEF Stacked
<1> QED
    BY StackKept

-------------------------------------------------------------------------------
(* Types.                                                                  *)
LEMMA InitTypes == Init => TypeOK
BY AURPAssumption DEF Init, TypeOK, Running

(* A call of send_datagram sends the packets of the numbers it adds.       *)
LEMMA SentFacts ==
    ASSUME TypeOK, NEW n \in Nodes, NEW call, SendDatagram(n, call)
    PROVE  /\ \A b \in Bridges : carried[b] \in Nat /\ carried'[b] \in Nat
           /\ \A b \in Bridges : carried[b] <= carried'[b]
           /\ \A x : x \in Sent <=>
                /\ x \in Packets /\ x.copy = 0 /\ x.to \in Peers[x.from]
                /\ x.num \in (carried[x.from] + 1)..carried'[x.from]
<1> USE AURPAssumption
<1>1. \A b \in Bridges : carried[b] \in Nat
    BY DEF TypeOK
<1>2. \A b \in Bridges : Passes(b) \in Nat
    BY DEF Passes
<1>3. \A b \in Bridges : carried'[b] = carried[b] \/ carried'[b] = carried[b] + Passes(b)
    BY DEF SendDatagram
<1>4. \A b \in Bridges : carried'[b] \in Nat /\ carried[b] <= carried'[b]
    <2> SUFFICES ASSUME NEW b \in Bridges PROVE carried'[b] \in Nat /\ carried[b] <= carried'[b]
        OBVIOUS
    <2> PICK k \in Nat : k = carried[b]
        BY <1>1
    <2> PICK l \in Nat : l = Passes(b)
        BY <1>2
    <2> QED
        BY <1>3
<1>5. ASSUME NEW x \in Sent
      PROVE  /\ x \in Packets /\ x.copy = 0 /\ x.to \in Peers[x.from]
             /\ x.num \in (carried[x.from] + 1)..carried'[x.from]
    <2> PICK b \in Bridges :
            x \in {Packet(b, k, p) : k \in (carried[b] + 1)..carried'[b], p \in Peers[b]}
        BY DEF Sent
    <2> PICK k \in (carried[b] + 1)..carried'[b], p \in Peers[b] : x = Packet(b, k, p)
        OBVIOUS
    <2>1. k \in Nat /\ p \in Bridges
        BY <1>1, <1>4
    <2> QED
        BY <2>1 DEF Packet, Packets
<1>6. ASSUME NEW x \in Packets, x.copy = 0, x.to \in Peers[x.from],
             x.num \in (carried[x.from] + 1)..carried'[x.from]
      PROVE  x \in Sent
    <2>1. x.from \in Bridges /\ x = Packet(x.from, x.num, x.to)
        BY <1>6 DEF Packets, Packet
    <2> QED
        BY <1>6, <2>1 DEF Sent
<1> QED
    BY <1>1, <1>4, <1>5, <1>6

LEMMA CallTypes ==
    ASSUME TypeOK, NEW n \in Nodes, NEW call \in Calls, SendDatagram(n, call)
    PROVE  /\ called' \in [Nodes -> Seq(Calls)] /\ out' \in [Nodes -> Seq(Calls)]
           /\ due' \in [Bridges -> Nat] /\ carried' \in [Bridges -> Nat]
           /\ Sent \subseteq Packets
<1>1. called' \in [Nodes -> Seq(Calls)] /\ out' \in [Nodes -> Seq(Calls)]
    <2>1. \A q \in Seq(Calls) : Append(q, call) \in Seq(Calls)
        OBVIOUS
    <2> QED
        BY <2>1 DEF TypeOK, SendDatagram
<1>2. due' \in [Bridges -> Nat]
    <2>1. \A b \in Bridges : due[b] + 1 \in Nat /\ due[b] \in Nat
        BY DEF TypeOK
    <2> QED
        BY <2>1 DEF TypeOK, SendDatagram
<1>3. carried' \in [Bridges -> Nat]
    <2>1. \A b \in Bridges : carried'[b] \in Nat
        BY SentFacts
    <2>2. carried' = [b \in Bridges |-> carried'[b]]
        BY DEF SendDatagram
    <2> QED
        BY <2>1, <2>2
<1>4. Sent \subseteq Packets
    BY SentFacts
<1> QED
    BY <1>1, <1>2, <1>3, <1>4

LEMMA NextTypes == TypeOK /\ [Next]_vars => TypeOK'
<1> USE AURPAssumption DEF hookVars, callVars
<1> SUFFICES ASSUME TypeOK, [Next]_vars PROVE TypeOK'
    OBVIOUS
<1>1. ASSUME NEW n \in Nodes, Send(n) PROVE TypeOK'
    <2> PICK protocol \in Protocols : SendDatagram(n, Call(protocol, {}))
        BY <1>1 DEF Send
    <2>1. Call(protocol, {}) \in Calls
        BY DEF Call, Calls
    <2>2. /\ called' \in [Nodes -> Seq(Calls)] /\ out' \in [Nodes -> Seq(Calls)]
          /\ due' \in [Bridges -> Nat] /\ carried' \in [Bridges -> Nat]
          /\ Sent \subseteq Packets
        BY <2>1, CallTypes
    <2>3. /\ UNCHANGED <<hookVars, tasks, dropped, copies>>
          /\ tunnel' = tunnel \cup Sent /\ sends' = [sends EXCEPT ![n] = @ + 1]
        BY <1>1 DEF Send
    <2> QED
        BY <2>2, <2>3 DEF TypeOK, Running
<1>2. ASSUME NEW n \in Nodes, Inject(n) PROVE TypeOK'
    <2>1. Head(tasks[n]) \in Packets /\ Tail(tasks[n]) \in Seq(Packets)
        BY <1>2 DEF Inject, TypeOK
    <2>2. Call("appletalk", {Head(tasks[n])}) \in Calls
        BY <2>1 DEF Call, Calls, Protocols
    <2>3. /\ called' \in [Nodes -> Seq(Calls)] /\ out' \in [Nodes -> Seq(Calls)]
          /\ due' \in [Bridges -> Nat] /\ carried' \in [Bridges -> Nat]
          /\ Sent \subseteq Packets
        BY <1>2, <2>2, CallTypes DEF Inject
    <2>4. tasks' \in [Nodes -> Seq(Packets)]
        BY <1>2, <2>1 DEF Inject, TypeOK
    <2>5. /\ UNCHANGED <<hookVars, sends, dropped, copies>>
          /\ tunnel' = tunnel \cup Sent
        BY <1>2 DEF Inject
    <2> QED
        BY <2>3, <2>4, <2>5 DEF TypeOK, Running
<1>3. ASSUME NEW b \in Bridges, Start(b) PROVE TypeOK'
    <2>1. opening' \in [Bridges -> Nat] /\ starts' \in [Bridges -> Nat]
        BY <1>3 DEF Start, TypeOK
    <2> QED
        BY <1>3, <2>1 DEF Start, TypeOK, Running
<1>4. ASSUME NEW b \in Bridges, Started(b) PROVE TypeOK'
    <2>1. hook[At[b]] \in Bridges \cup {Own} /\ hook[At[b]] # Nothing
        BY DEF TypeOK
    <2>2. /\ hook' \in [Nodes -> Bridges \cup {Own}]
          /\ saved' \in [Bridges -> Bridges \cup {Own, Nothing}]
          /\ transport' \in [Bridges -> BOOLEAN]
        BY <1>4, <2>1 DEF Started, TypeOK
    <2>3. opening' \in [Bridges -> Nat]
        BY <1>4 DEF Started, TypeOK
    <2>4. leaked' \in [Bridges -> BOOLEAN] /\ orderly' \in [Nodes -> BOOLEAN]
        <3>1. (leaked[b] \/ Running(b)) \in BOOLEAN /\ (orderly[At[b]] /\ ~Running(b)) \in BOOLEAN
            OBVIOUS
        <3> QED
            BY <1>4, <3>1 DEF Started, TypeOK
    <2>5. \A c \in Bridges : saved'[c] # Nothing <=> Running(c)'
        BY <1>4, <2>1 DEF Started, TypeOK, Running
    <2> QED
        BY <1>4, <2>2, <2>3, <2>4, <2>5 DEF Started, TypeOK
<1>5. ASSUME NEW b \in Bridges, Stop(b) PROVE TypeOK'
    <2>1. saved[b] \in Bridges \cup {Own}
        BY <1>5 DEF Stop, TypeOK
    <2>2. orderly' \in [Nodes -> BOOLEAN]
        <3>1. (orderly[At[b]] /\ hook[At[b]] = b) \in BOOLEAN
            OBVIOUS
        <3> QED
            BY <1>5, <3>1 DEF Stop, TypeOK
    <2>3. /\ hook' \in [Nodes -> Bridges \cup {Own}]
          /\ saved' \in [Bridges -> Bridges \cup {Own, Nothing}]
          /\ transport' \in [Bridges -> BOOLEAN]
        BY <1>5, <2>1 DEF Stop, Unhooked, Cleared, TypeOK
    <2>4. \A c \in Bridges : saved'[c] # Nothing <=> Running(c)'
        BY <1>5 DEF Stop, Cleared, TypeOK, Running
    <2> QED
        BY <1>5, <2>2, <2>3, <2>4 DEF Stop, TypeOK
<1>6. ASSUME NEW packet \in tunnel, Receive(packet) PROVE TypeOK'
    <2>1. packet \in Packets /\ packet.to \in Bridges
        BY DEF TypeOK, Packets
    <2>2. \A q \in Seq(Packets) : Append(q, packet) \in Seq(Packets)
        BY <2>1
    <2>3. tasks' \in [Nodes -> Seq(Packets)]
        BY <1>6, <2>1, <2>2 DEF Receive, Task, TypeOK
    <2> QED
        BY <1>6, <2>3 DEF Receive, TypeOK, Running
<1>7. ASSUME NEW packet \in tunnel, Lose(packet) PROVE TypeOK'
    BY <1>7 DEF Lose, TypeOK, Running
<1>8. ASSUME NEW packet \in tunnel, Duplicate(packet) PROVE TypeOK'
    <2> PICK c \in 1..MaxCopies :
            /\ tunnel' = tunnel \cup {[packet EXCEPT !.copy = c]}
            /\ copies' = copies \cup {[packet EXCEPT !.copy = c]}
        BY <1>8 DEF Duplicate
    <2>1. [packet EXCEPT !.copy = c] \in Packets
        <3>1. packet \in Packets /\ c \in Nat
            BY DEF TypeOK
        <3> QED
            BY <3>1 DEF Packets
    <2> QED
        BY <1>8, <2>1 DEF Duplicate, TypeOK, Running
<1>9. CASE UNCHANGED vars
    BY <1>9 DEF vars, TypeOK, Running
<1> QED
    BY <1>1, <1>2, <1>3, <1>4, <1>5, <1>6, <1>7, <1>8, <1>9 DEF Next

-------------------------------------------------------------------------------
(* The stacks.                                                             *)
LEMMA NextStacked == TypeOK /\ Stacked /\ [Next]_vars => Stacked'
<1> USE DEF hookVars
<1> SUFFICES ASSUME TypeOK, Stacked, [Next]_vars PROVE Stacked'
    OBVIOUS
<1>0. HookTypes
    BY DEF TypeOK, HookTypes
<1>1. ASSUME NEW b \in Bridges, Started(b) PROVE Stacked'
    BY <1>0, <1>1, StartedStacked
<1>2. ASSUME NEW b \in Bridges, Stop(b) PROVE Stacked'
    BY <1>0, <1>2, StopStacked
<1>3. ASSUME UNCHANGED <<hook, saved, transport, orderly>> PROVE Stacked'
    <2>1. \A c \in Bridges : Running(c)' <=> Running(c)
        BY <1>3 DEF Running
    <2> QED
        BY <1>0, <1>3, <2>1, OtherStacked
<1>4. ASSUME NEW b \in Bridges, Start(b) PROVE Stacked'
    BY <1>3, <1>4 DEF Start
<1>5. CASE \E n \in Nodes : Send(n) \/ Inject(n)
    BY <1>3, <1>5 DEF Send, Inject
<1>6. CASE \E packet \in tunnel : Receive(packet) \/ Lose(packet) \/ Duplicate(packet)
    BY <1>3, <1>6 DEF Receive, Lose, Duplicate
<1>7. CASE UNCHANGED vars
    BY <1>3, <1>7 DEF vars
<1> QED
    BY <1>1, <1>2, <1>4, <1>5, <1>6, <1>7 DEF Next

LEMMA StackRestored == TypeOK /\ Stacked => RestoredInOrder
<1> SUFFICES ASSUME TypeOK, Stacked, NEW n \in Nodes, orderly[n]
             PROVE  IF \E b \in Bridges : At[b] = n /\ Running(b)
                    THEN hook[n] \in Bridges /\ At[hook[n]] = n /\ Running(hook[n])
                    ELSE hook[n] = Own
    BY DEF RestoredInOrder
<1> PICK s : StackOf(n, s)
    BY DEF Stacked
<1>1. s \in Seq(Bridges) /\ Len(s) \in Nat
    BY DEF StackOf
<1>2. CASE Len(s) = 0
    <2>1. \A i \in 1..Len(s) : FALSE
        BY <1>2
    <2> QED
        BY <1>2, <2>1 DEF StackOf
<1>3. CASE Len(s) # 0
    <2>1. Len(s) \in 1..Len(s) /\ s[Len(s)] \in Bridges
        BY <1>1, <1>3
    <2> QED
        BY <1>3, <2>1 DEF StackOf
<1> QED
    BY <1>2, <1>3

-------------------------------------------------------------------------------
(* What a call passes.                                                     *)

LEMMA NextLocal == TypeOK /\ Local /\ [Next]_vars => Local'
<1> USE AURPAssumption DEF hookVars
<1> SUFFICES ASSUME TypeOK, Local, [Next]_vars PROVE Local'
    OBVIOUS
<1>1. ASSUME UNCHANGED <<hook, saved>> PROVE Local'
    BY <1>1 DEF Local
<1>2. ASSUME NEW b \in Bridges, Started(b) PROVE Local'
    BY <1>2 DEF Started, Local, TypeOK
<1>3. ASSUME NEW b \in Bridges, Stop(b) PROVE Local'
    BY <1>3 DEF Stop, Unhooked, Cleared, Local, TypeOK
<1>4. CASE \E b \in Bridges : Start(b)
    BY <1>1, <1>4 DEF Start
<1>5. CASE \E n \in Nodes : Send(n) \/ Inject(n)
    BY <1>1, <1>5 DEF Send, Inject
<1>6. CASE \E packet \in tunnel : Receive(packet) \/ Lose(packet) \/ Duplicate(packet)
    BY <1>1, <1>6 DEF Receive, Lose, Duplicate
<1>7. CASE UNCHANGED vars
    BY <1>1, <1>7 DEF vars
<1> QED
    BY <1>2, <1>3, <1>4, <1>5, <1>6, <1>7 DEF Next

(* At an orderly node what is saved, or on the node, belongs to a bridge   *)
(* that is started, and nothing that is saved is on the node.              *)
LEMMA StackFacts ==
    ASSUME TypeOK, Stacked, NEW n \in Nodes, orderly[n]
    PROVE  /\ hook[n] \in Bridges => Running(hook[n])
           /\ \A c \in Bridges : At[c] = n /\ saved[c] \in Bridges =>
                Running(saved[c]) /\ hook[n] # saved[c]
<1> PICK s : StackOf(n, s)
    BY DEF Stacked
<1>0. s \in Seq(Bridges) /\ Len(s) \in Nat
    BY DEF StackOf
<1>1. ASSUME hook[n] \in Bridges PROVE Running(hook[n])
    <2>1. Len(s) # 0 /\ hook[n] = s[Len(s)]
        BY <1>1, AURPAssumption DEF StackOf
    <2>2. Len(s) \in 1..Len(s)
        BY <1>0, <2>1
    <2> QED
        BY <1>1, <2>1, <2>2 DEF StackOf
<1>2. ASSUME NEW c \in Bridges, At[c] = n, saved[c] \in Bridges
      PROVE  Running(saved[c]) /\ hook[n] # saved[c]
    <2>1. Running(c)
        BY <1>2, AURPAssumption DEF TypeOK
    <2>2. PICK i \in 1..Len(s) : c = s[i]
        BY <1>2, <2>1 DEF StackOf
    <2>3. saved[c] = IF i = 1 THEN Own ELSE s[i - 1]
        BY <2>2 DEF StackOf
    <2>4. PICK j \in 1..Len(s) : saved[c] = s[j] /\ j < i
        <3>1. i # 1
            BY <1>2, <2>3, AURPAssumption
        <3>2. i - 1 \in 1..Len(s) /\ i - 1 < i
            BY <1>0, <3>1
        <3> QED
            BY <2>3, <3>1, <3>2
    <2>5. Running(saved[c])
        BY <1>2, <2>4 DEF StackOf
    <2>6. Len(s) \in 1..Len(s) /\ j # Len(s) /\ Len(s) # 0
        BY <1>0, <2>4
    <2>7. hook[n] = s[Len(s)] /\ s[Len(s)] # s[j]
        BY <2>4, <2>6 DEF StackOf
    <2> QED
        BY <2>4, <2>5, <2>7
<1> QED
    BY <1>1, <1>2

(* Whoever passes the hook of n and all that the passed bridges have saved *)
(* comes to the node's own method, and past every started bridge of n.     *)
ClosedFor(h, passed) ==
    passed \in SUBSET Bridges /\ HooksOf(h, passed) \cap Bridges \subseteq passed
Through(n, passed) ==
    /\ hook[n] = Own \/ \E c \in passed : saved[c] = Own
    /\ \A b \in Bridges : At[b] = n /\ Running(b) => b \in passed
Reached ==
    \A n \in Nodes : orderly[n] => \A passed : ClosedFor(hook[n], passed) => Through(n, passed)

LEMMA InitReached == Init => Reached
BY DEF Init, Reached, Through, Running

(* What happens at another node changes none of this.                      *)
LEMMA ReachedElsewhere ==
    ASSUME TypeOK, Local, Reached, NEW n \in Nodes, orderly[n],
           hook'[n] = hook[n],
           \A c \in Bridges : At[c] = n => saved'[c] = saved[c] /\ (Running(c)' <=> Running(c)),
           NEW passed, ClosedFor(hook[n], passed)'
    PROVE  Through(n, passed)'
<1> DEFINE here == {c \in passed : At[c] = n}
<1>1. passed \in SUBSET Bridges
    BY DEF ClosedFor
<1>2. \A c \in here : saved[c] \in Bridges => saved[c] \in here
    BY <1>1 DEF ClosedFor, HooksOf, Local
<1>3. hook[n] \in Bridges => hook[n] \in here
    BY DEF ClosedFor, HooksOf, Local
<1>4. ClosedFor(hook[n], here)
    BY <1>1, <1>2, <1>3 DEF ClosedFor, HooksOf
<1>5. Through(n, here)
    BY <1>4 DEF Reached
<1> QED
    BY <1>1, <1>5 DEF Through

LEMMA StartedReached ==
    ASSUME TypeOK, Stacked, Local, Reached, NEW b \in Bridges, Started(b)
    PROVE  Reached'
<1> USE AURPAssumption
<1>0. /\ transport' = [transport EXCEPT ![b] = TRUE]
      /\ saved' = [saved EXCEPT ![b] = hook[At[b]]]
      /\ hook' = [hook EXCEPT ![At[b]] = b]
      /\ orderly' = [orderly EXCEPT ![At[b]] = @ /\ ~Running(b)]
    BY DEF Started
<1>1. /\ saved'[b] = hook[At[b]] /\ \A c \in Bridges : c # b => saved'[c] = saved[c]
      /\ hook'[At[b]] = b /\ \A n \in Nodes : n # At[b] => hook'[n] = hook[n]
      /\ \A c \in Bridges : Running(c)' <=> Running(c) \/ c = b
    BY <1>0 DEF TypeOK, Running
<1>2. \A n \in Nodes : orderly'[n] => orderly[n] /\ (n = At[b] => ~Running(b))
    BY <1>0 DEF TypeOK
<1> SUFFICES ASSUME NEW n \in Nodes, orderly'[n], NEW passed, ClosedFor(hook[n], passed)'
             PROVE  Through(n, passed)'
    BY DEF Reached
<1>3. passed \in SUBSET Bridges
    BY DEF ClosedFor
<1>4. CASE n # At[b]
    BY <1>1, <1>2, <1>4, ReachedElsewhere
<1>5. CASE n = At[b]
    <2> DEFINE before == {c \in passed : At[c] = n /\ c # b}
    <2>1. orderly[n] /\ ~Running(b)
        BY <1>2, <1>5
    <2>2. hook[n] # b /\ \A c \in Bridges : At[c] = n => saved[c] # b
        BY <2>1, StackFacts
    <2>3. b \in passed
        BY <1>1, <1>5 DEF ClosedFor, HooksOf
    <2>4. \A c \in before : saved[c] \in Bridges => saved[c] \in before
        BY <1>1, <1>3, <2>2 DEF ClosedFor, HooksOf, Local
    <2>5. hook[n] \in Bridges => hook[n] \in before
        BY <1>1, <1>5, <2>2, <2>3 DEF ClosedFor, HooksOf, Local
    <2>6. ClosedFor(hook[n], before)
        BY <1>3, <2>4, <2>5 DEF ClosedFor, HooksOf
    <2>7. Through(n, before)
        BY <2>1, <2>6 DEF Reached
    <2>8. hook'[n] = Own \/ \E c \in passed : saved'[c] = Own
        BY <1>1, <1>3, <1>5, <2>3, <2>7 DEF Through
    <2>9. \A c \in Bridges : At[c] = n /\ Running(c)' => c \in passed
        BY <1>1, <2>3, <2>7 DEF Through
    <2> QED
        BY <2>8, <2>9 DEF Through
<1> QED
    BY <1>4, <1>5

LEMMA StopReached ==
    ASSUME TypeOK, Stacked, Local, Reached, NEW b \in Bridges, Stop(b)
    PROVE  Reached'
<1> USE AURPAssumption
<1>0. /\ transport' = [transport EXCEPT ![b] = FALSE]
      /\ saved' = [saved EXCEPT ![b] = Nothing]
      /\ hook' = [hook EXCEPT ![At[b]] = saved[b]]
      /\ orderly' = [orderly EXCEPT ![At[b]] = @ /\ hook[At[b]] = b]
    BY DEF Stop, Unhooked, Cleared
<1>1. /\ saved'[b] = Nothing /\ \A c \in Bridges : c # b => saved'[c] = saved[c]
      /\ hook'[At[b]] = saved[b] /\ \A n \in Nodes : n # At[b] => hook'[n] = hook[n]
      /\ \A c \in Bridges : Running(c)' <=> Running(c) /\ c # b
    BY <1>0 DEF TypeOK, Running
<1>2. \A n \in Nodes : orderly'[n] => orderly[n] /\ (n = At[b] => hook[n] = b)
    BY <1>0 DEF TypeOK
<1> SUFFICES ASSUME NEW n \in Nodes, orderly'[n], NEW passed, ClosedFor(hook[n], passed)'
             PROVE  Through(n, passed)'
    BY DEF Reached
<1>3. passed \in SUBSET Bridges
    BY DEF ClosedFor
<1>4. CASE n # At[b]
    BY <1>1, <1>2, <1>4, ReachedElsewhere
<1>5. CASE n = At[b]
    <2> DEFINE before == passed \cup {b}
    <2>0. orderly[n] /\ hook[n] = b
        BY <1>2, <1>5
    <2>1. saved[b] \in Bridges => saved[b] \in passed
        BY <1>1, <1>5 DEF ClosedFor, HooksOf
    <2>2. \A c \in before : saved[c] \in Bridges => saved[c] \in before
        BY <1>1, <1>3, <2>1 DEF ClosedFor, HooksOf
    <2>3. ClosedFor(hook[n], before)
        BY <1>3, <2>0, <2>2 DEF ClosedFor, HooksOf
    <2>4. Through(n, before)
        BY <2>0, <2>3 DEF Reached
    <2>5. PICK c \in before : saved[c] = Own
        BY <2>0, <2>4 DEF Through
    <2>6. hook'[n] = Own \/ \E d \in passed : saved'[d] = Own
        BY <1>1, <1>3, <1>5, <2>5
    <2>7. \A d \in Bridges : At[d] = n /\ Running(d)' => d \in passed
        BY <1>1, <2>4 DEF Through
    <2> QED
        BY <2>6, <2>7 DEF Through
<1> QED
    BY <1>4, <1>5

LEMMA NextReached == TypeOK /\ Stacked /\ Local /\ Reached /\ [Next]_vars => Reached'
<1> USE DEF hookVars
<1> SUFFICES ASSUME TypeOK, Stacked, Local, Reached, [Next]_vars PROVE Reached'
    OBVIOUS
<1>1. ASSUME UNCHANGED <<hook, saved, transport, orderly>> PROVE Reached'
    <2>1. \A h, passed : (ClosedFor(h, passed)' <=> ClosedFor(h, passed))
        BY <1>1 DEF ClosedFor, HooksOf
    <2>2. \A n, passed : (Through(n, passed)' <=> Through(n, passed))
        BY <1>1 DEF Through, Running
    <2> SUFFICES ASSUME NEW n \in Nodes, orderly[n], NEW passed, ClosedFor(hook[n], passed)
                 PROVE  Through(n, passed)
        BY <1>1, <2>1, <2>2 DEF Reached
    <2> QED
        BY DEF Reached
<1>2. CASE \E b \in Bridges : Start(b)
    BY <1>1, <1>2 DEF Start
<1>3. CASE \E n \in Nodes : Send(n) \/ Inject(n)
    BY <1>1, <1>3 DEF Send, Inject
<1>4. CASE \E packet \in tunnel : Receive(packet) \/ Lose(packet) \/ Duplicate(packet)
    BY <1>1, <1>4 DEF Receive, Lose, Duplicate
<1>5. CASE UNCHANGED vars
    BY <1>1, <1>5 DEF vars
<1> QED
    BY <1>2, <1>3, <1>4, <1>5, StartedReached, StopReached DEF Next

(* The chain of hooks of an orderly node therefore ends at its own method  *)
(* and has every started bridge in it, and none twice.                     *)
LEMMA ChainFacts ==
    ASSUME TypeOK, Reached, NEW n \in Nodes, orderly[n]
    PROVE  /\ Own \in Chain(hook[n])
           /\ \A b \in Bridges : At[b] = n /\ Running(b) => b \in Chain(hook[n])
<1> DEFINE least == {b \in Bridges : \A passed : ClosedFor(hook[n], passed) => b \in passed}
<1>1. Chain(hook[n]) = HooksOf(hook[n], least)
    BY DEF Chain, ClosedFor
<1>2. \A h \in HooksOf(hook[n], least) \cap Bridges : h \in least
    BY DEF ClosedFor, HooksOf
<1>3. ClosedFor(hook[n], least)
    BY <1>2 DEF ClosedFor
<1>4. Through(n, least)
    BY <1>3 DEF Reached
<1>5. least \in SUBSET Bridges
    OBVIOUS
<1> HIDE DEF least
<1>6. Own \in HooksOf(hook[n], least)
    BY <1>4 DEF Through, HooksOf
<1>7. ASSUME NEW b \in Bridges, At[b] = n, Running(b), b \notin HooksOf(hook[n], least)
      PROVE  FALSE
    <2>1. \A h \in HooksOf(hook[n], least \ {b}) : h \in HooksOf(hook[n], least)
        BY DEF HooksOf
    <2>2. ClosedFor(hook[n], least \ {b})
        BY <1>2, <1>5, <1>7, <2>1 DEF ClosedFor
    <2> QED
        BY <1>7, <2>2 DEF Reached, Through
<1> QED
    BY <1>1, <1>6, <1>7

LEMMA NoLoop ==
    ASSUME TypeOK, Stacked, NEW n \in Nodes, orderly[n], NEW b \in Bridges, At[b] = n, Running(b)
    PROVE  ~Loops(b)
<1> USE AURPAssumption
<1> PICK s : StackOf(n, s)
    BY DEF Stacked
<1>0. s \in Seq(Bridges) /\ Len(s) \in Nat
    BY DEF StackOf
<1> PICK i \in 1..Len(s) : b = s[i]
    BY DEF StackOf
<1> DEFINE below == {c \in Bridges : \E j \in 1..Len(s) : j < i /\ c = s[j]}
<1>1. ASSUME NEW j \in 1..Len(s), j <= i, saved[s[j]] \in Bridges PROVE saved[s[j]] \in below
    <2>1. saved[s[j]] = IF j = 1 THEN Own ELSE s[j - 1]
        BY DEF StackOf
    <2>2. j # 1
        BY <1>1, <2>1
    <2>3. j - 1 \in 1..Len(s) /\ j - 1 < i
        BY <1>0, <1>1, <2>2
    <2> QED
        BY <1>1, <2>1, <2>2, <2>3
<1>2. b \notin below
    <2> SUFFICES ASSUME NEW j \in 1..Len(s), j < i, b = s[j] PROVE FALSE
        OBVIOUS
    <2>1. \A k, l \in 1..Len(s) : s[k] = s[l] => k = l
        BY DEF StackOf
    <2>2. s[j] = s[i]
        OBVIOUS
    <2>3. j = i
        BY <2>1, <2>2
    <2> QED
        BY <1>0, <2>3
<1>3. saved[b] \in Bridges => saved[b] \in below
    <2>1. i <= i
        BY <1>0
    <2> QED
        BY <1>1, <2>1
<1>4. \A c \in below : saved[c] \in Bridges => saved[c] \in below
    <2> SUFFICES ASSUME NEW j \in 1..Len(s), j < i, saved[s[j]] \in Bridges
                 PROVE  saved[s[j]] \in below
        OBVIOUS
    <2>1. j <= i
        BY <1>0
    <2> QED
        BY <1>1, <2>1
<1>5. below \in SUBSET Bridges
    OBVIOUS
<1> HIDE DEF below
<1>6. HooksOf(saved[b], below) \cap Bridges \subseteq below
    BY <1>3, <1>4 DEF HooksOf
<1>7. ASSUME b \in Chain(saved[b]) PROVE FALSE
    <2> DEFINE least == {c \in Bridges : \A passed \in {passed \in SUBSET Bridges :
                            HooksOf(saved[b], passed) \cap Bridges \subseteq passed} : c \in passed}
    <2>1. least \subseteq below
        BY <1>5, <1>6
    <2>2. b \in HooksOf(saved[b], least)
        BY <1>7 DEF Chain
    <2> HIDE DEF least
    <2>3. HooksOf(saved[b], least) \subseteq HooksOf(saved[b], below)
        BY <2>1 DEF HooksOf
    <2> QED
        BY <1>2, <1>6, <2>2, <2>3
<1> QED
    BY <1>7 DEF Loops

LEMMA CallTransparent ==
    ASSUME TypeOK, Stacked, Reached, TransparentInOrder, orderly' = orderly,
           NEW n \in Nodes, NEW call, SendDatagram(n, call)
    PROVE  TransparentInOrder'
<1> USE AURPAssumption
<1> SUFFICES ASSUME NEW m \in Nodes, orderly[m]
             PROVE  /\ out'[m] = called'[m]
                    /\ \A b \in Bridges : At[b] = m => carried'[b] = due'[b]
    BY DEF TransparentInOrder
<1>0. out[m] = called[m] /\ \A b \in Bridges : At[b] = m => carried[b] = due[b]
    BY DEF TransparentInOrder
<1>1. out'[m] = called'[m]
    <2>1. CASE m = n
        <3>1. Own \in Chain(hook[n])
            BY <2>1, ChainFacts
        <3> QED
            BY <1>0, <2>1, <3>1 DEF SendDatagram, TypeOK
    <2>2. CASE m # n
        <3>1. called'[m] = called[m]
            BY <2>2 DEF SendDatagram, TypeOK
        <3>2. out'[m] = out[m]
            BY <2>2 DEF SendDatagram, TypeOK
        <3> QED
            BY <1>0, <3>1, <3>2
    <2> QED
        BY <2>1, <2>2
<1>2. ASSUME NEW b \in Bridges, At[b] = m PROVE carried'[b] = due'[b]
    <2>1. Running(b) => Passes(b) = 1
        BY <1>2, ChainFacts, NoLoop DEF Passes
    <2> QED
        BY <1>0, <1>2, <2>1 DEF SendDatagram
<1> QED
    BY <1>1, <1>2

LEMMA NextTransparent ==
    TypeOK /\ Stacked /\ Reached /\ TransparentInOrder /\ [Next]_vars => TransparentInOrder'
<1> USE DEF hookVars, callVars
<1> SUFFICES ASSUME TypeOK, Stacked, Reached, TransparentInOrder, [Next]_vars
             PROVE  TransparentInOrder'
    OBVIOUS
<1>1. ASSUME UNCHANGED callVars, \A n \in Nodes : orderly'[n] => orderly[n]
      PROVE  TransparentInOrder'
    BY <1>1 DEF TransparentInOrder
<1>2. ASSUME NEW n \in Nodes, Send(n) \/ Inject(n) PROVE TransparentInOrder'
    BY <1>2, CallTransparent DEF Send, Inject
<1>3. ASSUME NEW b \in Bridges, Started(b) PROVE TransparentInOrder'
    <2>1. \A n \in Nodes : orderly'[n] => orderly[n]
        BY <1>3 DEF Started, TypeOK
    <2> QED
        BY <1>1, <1>3, <2>1 DEF Started
<1>4. ASSUME NEW b \in Bridges, Stop(b) PROVE TransparentInOrder'
    <2>1. \A n \in Nodes : orderly'[n] => orderly[n]
        BY <1>4 DEF Stop, TypeOK
    <2> QED
        BY <1>1, <1>4, <2>1 DEF Stop
<1>5. ASSUME NEW b \in Bridges, Start(b) PROVE TransparentInOrder'
    BY <1>1, <1>5 DEF Start
<1>6. ASSUME NEW packet \in tunnel, Receive(packet) \/ Lose(packet) \/ Duplicate(packet)
      PROVE  TransparentInOrder'
    BY <1>1, <1>6 DEF Receive, Lose, Duplicate
<1>7. CASE UNCHANGED vars
    BY <1>1, <1>7 DEF vars
<1> QED
    BY <1>2, <1>3, <1>4, <1>5, <1>6, <1>7 DEF Next

-------------------------------------------------------------------------------
(* Where a packet is.                                                      *)

Before(x) ==
    \/ x.copy = 0 /\ x.to \in Peers[x.from] /\ x.num \in 1..carried[x.from]
    \/ x \in copies

(* Everything under way, lost, in a task or injected was sent or copied,   *)
(* tasks are at the node of the bridge they are for, and copies are told   *)
(* from what they are copies of.                                           *)
AllSent ==
    /\ \A x \in tunnel \cup dropped : Before(x)
    /\ \A n \in Nodes : \A i \in 1..Len(tasks[n]) :
        Before(tasks[n][i]) /\ At[tasks[n][i].to] = n
    /\ \A n \in Nodes : \A i \in 1..Len(called[n]) : \A x \in called[n][i].via : Before(x)
    /\ \A x \in copies : x.copy # 0

InTasks(x, i) == i \in 1..Len(tasks[At[x.to]]) /\ tasks[At[x.to]][i] = x
InCalls(x, i) == i \in 1..Len(called[At[x.to]]) /\ x \in called[At[x.to]][i].via

OneTask(x) == \E i : InTasks(x, i) /\ \A j : InTasks(x, j) => j = i
OneCall(x) == \E i : InCalls(x, i) /\ \A j : InCalls(x, j) => j = i
NoTask(x) == \A i : ~InTasks(x, i)
NoCall(x) == \A i : ~InCalls(x, i)

UnderWay(x) == x \in tunnel /\ x \notin dropped /\ NoTask(x) /\ NoCall(x)
Lost(x) == x \in dropped /\ x \notin tunnel /\ NoTask(x) /\ NoCall(x)
Waiting(x) == x \notin tunnel /\ x \notin dropped /\ OneTask(x) /\ NoCall(x)
Done(x) == x \notin tunnel /\ x \notin dropped /\ NoTask(x) /\ OneCall(x)
Placed(x) == UnderWay(x) \/ Lost(x) \/ Waiting(x) \/ Done(x)

AllPlaced == AllSent /\ \A x \in Packets : Before(x) => Placed(x)

LEMMA PlacesOne ==
    ASSUME TypeOK, AllPlaced
    PROVE  OnePlace
<1> USE AURPAssumption
<1>0. ASSUME NEW b \in Bridges, NEW k \in 1..carried[b], NEW p \in Peers[b]
      PROVE  Packet(b, k, p) \in Packets /\ Before(Packet(b, k, p))
    BY DEF TypeOK, Packet, Packets, Before
<1>c. \A x \in copies : x \in Packets /\ Before(x)
    BY DEF TypeOK, Before
<1> SUFFICES ASSUME NEW x \in Packets, Before(x) PROVE Cardinality(Places(x)) = 1
    BY <1>0, <1>c DEF OnePlace
<1> DEFINE n == At[x.to]
           T == {<<"task", i>> : i \in {i \in DOMAIN tasks[n] : tasks[n][i] = x}}
           C == {<<"call", i>> : i \in {i \in DOMAIN called[n] : x \in called[n][i].via}}
           D == {<<"dropped", 0>> : d \in dropped \cap {x}}
           U == {<<"tunnel", 0>> : d \in tunnel \cap {x}}
<1>1. n \in Nodes
    BY DEF Packets
<1>2. Placed(x)
    BY DEF AllPlaced
<1>3. Places(x) = ((T \cup C) \cup D) \cup U
    BY DEF Places
<1>4. tasks[n] \in Seq(Packets) /\ called[n] \in Seq(Calls)
    BY <1>1 DEF TypeOK
<1>5. DOMAIN tasks[n] = 1..Len(tasks[n]) /\ DOMAIN called[n] = 1..Len(called[n])
    BY <1>4
<1>6. /\ NoTask(x) => T = {}
      /\ NoCall(x) => C = {}
      /\ x \notin dropped => D = {}
      /\ x \notin tunnel => U = {}
    BY <1>5 DEF NoTask, NoCall, InTasks, InCalls
<1>7. /\ OneTask(x) => \E y : T = {y}
      /\ OneCall(x) => \E y : C = {y}
      /\ x \in dropped => \E y : D = {y}
      /\ x \in tunnel => \E y : U = {y}
    <2>1. ASSUME OneTask(x) PROVE \E y : T = {y}
        <3> PICK i : InTasks(x, i) /\ \A j : InTasks(x, j) => j = i
            BY <2>1 DEF OneTask
        <3>1. {j \in DOMAIN tasks[n] : tasks[n][j] = x} = {i}
            BY <1>5 DEF InTasks
        <3>2. T = {<<"task", i>>}
            BY <3>1, Zenon
        <3> QED
            BY <3>2
    <2>2. ASSUME OneCall(x) PROVE \E y : C = {y}
        <3> PICK i : InCalls(x, i) /\ \A j : InCalls(x, j) => j = i
            BY <2>2 DEF OneCall
        <3>1. {j \in DOMAIN called[n] : x \in called[n][j].via} = {i}
            BY <1>5 DEF InCalls
        <3>2. C = {<<"call", i>>}
            BY <3>1, Zenon
        <3> QED
            BY <3>2
    <2>3. x \in dropped => D = {<<"dropped", 0>>}
        OBVIOUS
    <2>4. x \in tunnel => U = {<<"tunnel", 0>>}
        OBVIOUS
    <2> QED
        BY <2>1, <2>2, <2>3, <2>4
<1> HIDE DEF T, C, D, U
<1>8. \E y : Places(x) = {y}
    <2>1. CASE UnderWay(x)
        BY <1>3, <1>6, <1>7, <2>1 DEF UnderWay
    <2>2. CASE Lost(x)
        BY <1>3, <1>6, <1>7, <2>2 DEF Lost
    <2>3. CASE Waiting(x)
        BY <1>3, <1>6, <1>7, <2>3 DEF Waiting
    <2>4. CASE Done(x)
        BY <1>3, <1>6, <1>7, <2>4 DEF Done
    <2> QED
        BY <1>2, <2>1, <2>2, <2>3, <2>4 DEF Placed
<1>9. \A y : Cardinality({y}) = 1
    BY FS_Singleton
<1> QED
    BY <1>8, <1>9

LEMMA InitPlaces == Init => AllPlaced
<1> SUFFICES ASSUME Init PROVE AllPlaced
    OBVIOUS
<1>1. AllSent
    BY DEF Init, AllSent
<1>2. ASSUME NEW x \in Packets PROVE ~Before(x)
    <2>1. carried[x.from] = 0
        BY DEF Init, Packets
    <2> QED
        BY <2>1 DEF Init, Before
<1> QED
    BY <1>1, <1>2 DEF AllPlaced

(* What is new has not been anywhere.                                      *)
LEMMA NewNowhere ==
    ASSUME TypeOK, AllSent, NEW x \in Packets, ~Before(x)
    PROVE  x \notin tunnel /\ x \notin dropped /\ NoTask(x) /\ NoCall(x)
<1>1. At[x.to] \in Nodes
    BY AURPAssumption DEF Packets
<1> QED
    BY <1>1 DEF AllSent, NoTask, NoCall, InTasks, InCalls

(* Numbers only grow, and what a call sends is new.                        *)
LEMMA SentNew ==
    ASSUME TypeOK, AllSent, NEW n \in Nodes, NEW call, SendDatagram(n, call), copies' = copies
    PROVE  /\ \A x \in Packets : Before(x) => Before(x)' /\ x \notin Sent
           /\ \A x \in Sent : x \in Packets /\ Before(x)'
           /\ \A x \in Packets : Before(x)' => Before(x) \/ x \in Sent
<1>0. \A b \in Bridges : carried[b] \in Nat /\ carried'[b] \in Nat /\ carried[b] <= carried'[b]
    BY SentFacts
<1>1. ASSUME NEW x \in Packets, Before(x) PROVE Before(x)' /\ x \notin Sent
    <2>1. CASE x \in copies
        <3>1. x \notin Sent
            BY <2>1, SentFacts DEF AllSent
        <3> QED
            BY <2>1, <3>1 DEF Before
    <2>2. CASE x \notin copies
        <3>1. x.from \in Bridges /\ x.num \in 1..carried[x.from]
            BY <1>1, <2>2 DEF Before, Packets
        <3>2. x.num \in 1..carried'[x.from] /\ x.num \notin (carried[x.from] + 1)..carried'[x.from]
            BY <1>0, <3>1
        <3>3. x \notin Sent
            BY <3>2, SentFacts
        <3> QED
            BY <1>1, <2>2, <3>2, <3>3 DEF Before
    <2> QED
        BY <2>1, <2>2
<1>2. ASSUME NEW x \in Sent PROVE x \in Packets /\ Before(x)'
    <2>1. /\ x \in Packets /\ x.copy = 0 /\ x.to \in Peers[x.from]
          /\ x.num \in (carried[x.from] + 1)..carried'[x.from]
        BY SentFacts
    <2>2. x.from \in Bridges
        BY <2>1 DEF Packets
    <2>3. x.num \in 1..carried'[x.from]
        BY <1>0, <2>1, <2>2
    <2> QED
        BY <2>1, <2>3 DEF Before
<1>3. ASSUME NEW x \in Packets, Before(x)', ~Before(x) PROVE x \in Sent
    <2>1. /\ x.copy = 0 /\ x.to \in Peers[x.from]
          /\ x.num \in 1..carried'[x.from] /\ x.num \notin 1..carried[x.from]
        BY <1>3 DEF Before
    <2>2. x.from \in Bridges
        BY DEF Packets
    <2>3. x.num \in (carried[x.from] + 1)..carried'[x.from]
        BY <1>0, <2>1, <2>2
    <2> QED
        BY <2>1, <2>3, SentFacts
<1> QED
    BY <1>1, <1>2, <1>3

(* What a call sends is under way, and what was sent before stays.         *)
LEMMA CallPlaces ==
    ASSUME TypeOK, TypeOK', AllPlaced, NEW n \in Nodes, NEW call \in Calls, SendDatagram(n, call),
           tunnel' = tunnel \cup Sent, dropped' = dropped, copies' = copies,
           \A x \in call.via : Before(x),
           \A m \in Nodes : \A i \in 1..Len(tasks'[m]) :
                \E j \in 1..Len(tasks[m]) : tasks'[m][i] = tasks[m][j],
           \A x \in Packets : Before(x) /\ Placed(x) => Placed(x)'
    PROVE  AllPlaced'
<1> USE AURPAssumption
<1>1. AllSent /\ \A x \in Packets : Before(x) => Placed(x)
    BY DEF AllPlaced
<1>2. \A x \in Packets : Before(x) => Before(x)' /\ x \notin Sent
    BY <1>1, SentNew
<1>3. \A x \in Sent : x \in Packets /\ Before(x)'
    BY <1>1, SentNew
<1>4. /\ called[n] \in Seq(Calls) /\ called'[n] = Append(called[n], call)
      /\ \A m \in Nodes : m # n => called'[m] = called[m]
    BY DEF SendDatagram, TypeOK
<1>5. /\ Len(called'[n]) = Len(called[n]) + 1 /\ Len(called[n]) \in Nat
      /\ called'[n][Len(called[n]) + 1] = call
      /\ \A i \in 1..Len(called[n]) : called'[n][i] = called[n][i]
    BY <1>4
<1>6. AllSent'
    <2>1. \A x \in tunnel' \cup dropped' : Before(x)'
        BY <1>1, <1>2, <1>3 DEF AllSent, TypeOK
    <2>2. ASSUME NEW m \in Nodes, NEW i \in 1..Len(tasks'[m])
          PROVE  Before(tasks[m][i])' /\ At[tasks'[m][i].to] = m
        <3>1. PICK j \in 1..Len(tasks[m]) : tasks'[m][i] = tasks[m][j]
            OBVIOUS
        <3>2. tasks[m] \in Seq(Packets)
            BY DEF TypeOK
        <3>3. tasks[m][j] \in Packets
            BY <3>2
        <3>4. Before(tasks[m][j]) /\ At[tasks[m][j].to] = m
            BY <1>1 DEF AllSent
        <3>5. \A x \in Packets : Before(x) => Before(x)'
            BY <1>2
        <3> QED
            BY <3>1, <3>3, <3>4, <3>5 DEF Before
    <2>3. ASSUME NEW m \in Nodes, NEW i \in 1..Len(called'[m]), NEW x \in called'[m][i].via
          PROVE  Before(x)'
        <3>1. called'[m] \in Seq(Calls)
            BY DEF TypeOK
        <3>2. called'[m][i] \in Calls
            BY <3>1
        <3>3. x \in Packets
            BY <3>2 DEF Calls
        <3>4. Before(x)
            <4>1. CASE m = n /\ i = Len(called[n]) + 1
                BY <1>5, <4>1
            <4>2. CASE ~(m = n /\ i = Len(called[n]) + 1)
                <5>1. i \in 1..Len(called[m]) /\ called'[m][i] = called[m][i]
                    <6>1. CASE m = n
                        BY <1>5, <4>2, <6>1
                    <6>2. CASE m # n
                        BY <1>4, <6>2
                    <6> QED
                        BY <6>1, <6>2
                <5> QED
                    BY <1>1, <5>1 DEF AllSent
            <4> QED
                BY <4>1, <4>2
        <3> QED
            BY <1>2, <3>3, <3>4
    <2>4. \A x \in copies' : x.copy # 0
        BY <1>1 DEF AllSent
    <2> QED
        BY <2>1, <2>2, <2>3, <2>4 DEF AllSent
<1>7. ASSUME NEW x \in Packets, Before(x)', ~Before(x) PROVE Placed(x)'
    <2>1. x \in Packets /\ x.from \in Bridges /\ x.num \in Nat /\ At[x.to] \in Nodes
        BY DEF Packets
    <2>3. x \in Sent
        BY <1>1, <1>7, SentNew
    <2>4. x \notin tunnel /\ x \notin dropped /\ NoTask(x) /\ NoCall(x)
        BY <1>1, <1>7, <2>1, NewNowhere
    <2>5. NoTask(x)'
        <3> SUFFICES ASSUME NEW i, InTasks(x, i)' PROVE FALSE
            BY DEF NoTask
        <3>1. PICK j \in 1..Len(tasks[At[x.to]]) : tasks'[At[x.to]][i] = tasks[At[x.to]][j]
            BY <2>1 DEF InTasks
        <3> QED
            BY <2>4, <3>1 DEF NoTask, InTasks
    <2>6. NoCall(x)'
        <3> SUFFICES ASSUME NEW i, InCalls(x, i)' PROVE FALSE
            BY DEF NoCall
        <3>1. x \notin call.via
            BY <1>7
        <3>2. i \in 1..Len(called[At[x.to]]) /\ called'[At[x.to]][i] = called[At[x.to]][i]
            <4>1. CASE At[x.to] = n
                BY <1>5, <3>1, <4>1 DEF InCalls
            <4>2. CASE At[x.to] # n
                BY <1>4, <2>1, <4>2 DEF InCalls
            <4> QED
                BY <4>1, <4>2
        <3> QED
            BY <2>4, <3>2 DEF NoCall, InCalls
    <2>7. x \in tunnel' /\ x \notin dropped'
        BY <2>3, <2>4
    <2> QED
        BY <2>5, <2>6, <2>7 DEF Placed, UnderWay
<1> QED
    BY <1>1, <1>6, <1>7 DEF AllPlaced

(* The program's own calls inject nothing.                                 *)
LEMMA SendPlaces ==
    ASSUME TypeOK, TypeOK', AllPlaced, NEW n \in Nodes, Send(n)
    PROVE  AllPlaced'
<1> USE AURPAssumption
<1>0. AllSent
    BY DEF AllPlaced
<1>1. PICK call \in Calls : SendDatagram(n, call) /\ call.via = {}
    <2>1. PICK protocol \in Protocols : SendDatagram(n, Call(protocol, {}))
        BY DEF Send
    <2>2. Call(protocol, {}) \in Calls /\ Call(protocol, {}).via = {}
        BY DEF Call, Calls
    <2> QED
        BY <2>1, <2>2
<1>2. tunnel' = tunnel \cup Sent /\ UNCHANGED <<dropped, tasks, copies>>
    BY DEF Send
<1>3. /\ called[n] \in Seq(Calls) /\ called'[n] = Append(called[n], call)
      /\ \A m \in Nodes : m # n => called'[m] = called[m]
    BY <1>1 DEF SendDatagram, TypeOK
<1>4. /\ Len(called'[n]) = Len(called[n]) + 1 /\ Len(called[n]) \in Nat
      /\ called'[n][Len(called[n]) + 1] = call
      /\ \A i \in 1..Len(called[n]) : called'[n][i] = called[n][i]
    BY <1>3
<1>5. ASSUME NEW x \in Packets, Before(x), Placed(x) PROVE Placed(x)'
    <2>1. x \in Packets /\ At[x.to] \in Nodes
        BY DEF Packets
    <2>2. x \notin Sent
        BY <1>0, <1>1, <1>2, <1>5, SentNew
    <2>3. \A i : InTasks(x, i)' <=> InTasks(x, i)
        BY <1>2 DEF InTasks
    <2>4. ASSUME NEW i PROVE InCalls(x, i)' <=> InCalls(x, i)
        <3>1. CASE At[x.to] = n
            <4>1. PICK last \in Nat : last = Len(called[n])
                BY <1>4
            <4>2. \A l : l \in 1..(last + 1) <=> l \in 1..last \/ l = last + 1
                BY ONLY <4>1
            <4>3. x \notin called'[n][last + 1].via
                BY <1>1, <1>4, <4>1
            <4>4. /\ InCalls(x, i)' <=> i \in 1..(last + 1) /\ x \in called'[n][i].via
                  /\ InCalls(x, i) <=> i \in 1..last /\ x \in called[n][i].via
                BY <1>4, <3>1, <4>1 DEF InCalls
            <4>5. i \in 1..last => called'[n][i] = called[n][i]
                BY <1>4, <4>1
            <4> QED
                BY <4>2, <4>3, <4>4, <4>5
        <3>2. CASE At[x.to] # n
            BY <1>3, <2>1, <3>2 DEF InCalls
        <3> QED
            BY <3>1, <3>2
    <2>5. (x \in tunnel' <=> x \in tunnel) /\ (x \in dropped' <=> x \in dropped)
        BY <1>2, <2>2
    <2> QED
        BY <1>5, <2>3, <2>4, <2>5
        DEF Placed, UnderWay, Lost, Waiting, Done, OneTask, OneCall, NoTask, NoCall
<1>6. /\ \A x \in call.via : Before(x)
      /\ \A m \in Nodes : \A i \in 1..Len(tasks'[m]) :
            \E j \in 1..Len(tasks[m]) : tasks'[m][i] = tasks[m][j]
    BY <1>1, <1>2
<1> QED
    BY <1>1, <1>2, <1>5, <1>6, CallPlaces

(* An injection takes the first task of its node.                          *)
LEMMA InjectPlaces ==
    ASSUME TypeOK, TypeOK', AllPlaced, NEW n \in Nodes, Inject(n)
    PROVE  AllPlaced'
<1> USE AURPAssumption
<1>0. AllSent
    BY DEF AllPlaced
<1> DEFINE h == Head(tasks[n])
           call == Call("appletalk", {h})
<1>1. /\ tasks[n] # <<>> /\ SendDatagram(n, call)
      /\ tunnel' = tunnel \cup Sent /\ UNCHANGED <<dropped, copies>>
      /\ tasks' = [tasks EXCEPT ![n] = Tail(@)]
    BY DEF Inject
<1>2. tasks[n] \in Seq(Packets) /\ Len(tasks[n]) \in Nat
    BY DEF TypeOK
<1>3. /\ h \in Packets /\ h = tasks[n][1] /\ 1 \in 1..Len(tasks[n])
      /\ tasks'[n] = Tail(tasks[n]) /\ \A m \in Nodes : m # n => tasks'[m] = tasks[m]
    BY <1>1, <1>2 DEF TypeOK
<1>4. PICK k \in Nat : Len(tasks[n]) = k + 1
    <2> Len(tasks[n]) - 1 \in Nat /\ Len(tasks[n]) = (Len(tasks[n]) - 1) + 1
        BY <1>2, <1>3
    <2> QED
        OBVIOUS
<1>5. /\ Len(tasks'[n]) = k
      /\ \A i \in 1..k : i + 1 \in 1..(k + 1) /\ tasks'[n][i] = tasks[n][i + 1]
    <2>1. /\ Len(Tail(tasks[n])) = k
          /\ \A i \in 1..k : i + 1 \in 1..(k + 1) /\ Tail(tasks[n])[i] = tasks[n][i + 1]
        BY <1>1, <1>2, <1>4
    <2> QED
        BY <1>3, <2>1
<1>6. call \in Calls /\ call.via = {h}
    BY <1>3 DEF Call, Calls, Protocols
<1>7. Before(h) /\ At[h.to] = n
    BY <1>3 DEF AllPlaced, AllSent
<1> HIDE DEF h, call
<1>8. /\ called[n] \in Seq(Calls) /\ called'[n] = Append(called[n], call)
      /\ \A m \in Nodes : m # n => called'[m] = called[m]
    BY <1>1 DEF SendDatagram, TypeOK
<1>9. PICK last \in Nat :
        /\ Len(called[n]) = last /\ Len(called'[n]) = last + 1
        /\ called'[n][last + 1] = call
        /\ \A i \in 1..last : called'[n][i] = called[n][i]
    <2>0. Len(called[n]) \in Nat
        BY ONLY <1>8
    <2>1. PICK last \in Nat : last = Len(called[n])
        BY <2>0, Zenon
    <2>2. /\ Len(Append(called[n], call)) = last + 1
          /\ Append(called[n], call)[last + 1] = call
          /\ \A i \in 1..last : Append(called[n], call)[i] = called[n][i]
        BY <1>6, <1>8, <2>1
    <2> QED
        BY <1>8, <2>1, <2>2
<1>10. ASSUME NEW x \in Packets, Before(x), Placed(x) PROVE Placed(x)'
    <2>1. x \in Packets /\ At[x.to] \in Nodes
        BY DEF Packets
    <2>2. x \notin Sent
        BY <1>0, <1>1, <1>10, SentNew
    <2>3. (x \in tunnel' <=> x \in tunnel) /\ (x \in dropped' <=> x \in dropped)
        BY <1>1, <2>2
    <2>4. CASE x = h
        <3>1. InTasks(x, 1)
            BY <1>3, <1>7, <2>4 DEF InTasks
        <3>2. Waiting(x)
            BY <1>10, <3>1 DEF Placed, UnderWay, Lost, Done, NoTask
        <3>3. \A i : InTasks(x, i) => i = 1
            BY <3>1, <3>2 DEF Waiting, OneTask
        <3>4. NoTask(x)'
            <4> SUFFICES ASSUME NEW i, InTasks(x, i)' PROVE FALSE
                BY DEF NoTask
            <4>1. i \in 1..k /\ tasks[n][i + 1] = x
                BY <1>5, <1>7, <2>4 DEF InTasks
            <4>2. InTasks(x, i + 1)
                BY <1>4, <1>5, <1>7, <2>4, <4>1 DEF InTasks
            <4>3. i + 1 = 1
                BY <3>3, <4>2
            <4> QED
                BY <4>1, <4>3
        <3>5. InCalls(x, last + 1)'
            BY <1>6, <1>7, <1>9, <2>4 DEF InCalls
        <3>6. ASSUME NEW i, InCalls(x, i)' PROVE i = last + 1
            <4>1. i \in 1..(last + 1) /\ x \in called'[n][i].via
                BY <1>7, <1>9, <2>4, <3>6 DEF InCalls
            <4>2. ASSUME i \in 1..last PROVE FALSE
                <5>1. InCalls(x, i)
                    BY <1>7, <1>9, <2>4, <4>1, <4>2 DEF InCalls
                <5> QED
                    BY <3>2, <5>1 DEF Waiting, NoCall
            <4> QED
                BY <4>1, <4>2
        <3> QED
            BY <2>3, <3>2, <3>4, <3>5, <3>6 DEF Placed, Waiting, Done, OneCall
    <2>5. CASE x # h
        <3>1. ASSUME NEW i PROVE InCalls(x, i)' <=> InCalls(x, i)
            <4>1. CASE At[x.to] = n
                BY <1>6, <1>9, <2>5, <4>1 DEF InCalls
            <4>2. CASE At[x.to] # n
                BY <1>8, <2>1, <4>2 DEF InCalls
            <4> QED
                BY <4>1, <4>2
        <3>2. NoTask(x) => NoTask(x)'
            <4> SUFFICES ASSUME NEW i, InTasks(x, i)' PROVE \E j : InTasks(x, j)
                BY DEF NoTask
            <4>1. CASE At[x.to] = n
                <5>1. i \in 1..k /\ tasks[n][i + 1] = x
                    BY <1>5, <4>1 DEF InTasks
                <5> QED
                    BY <1>4, <1>5, <4>1, <5>1 DEF InTasks
            <4>2. CASE At[x.to] # n
                BY <1>3, <2>1, <4>2 DEF InTasks
            <4> QED
                BY <4>1, <4>2
        <3>3. OneTask(x) => OneTask(x)'
            <4> SUFFICES ASSUME NEW i, InTasks(x, i), \A j : InTasks(x, j) => j = i
                         PROVE  OneTask(x)'
                BY DEF OneTask
            <4>1. CASE At[x.to] = n
                <5>1. i \in 1..(k + 1) /\ tasks[n][i] = x /\ i # 1
                    BY <1>3, <1>4, <2>5, <4>1 DEF InTasks
                <5>2. PICK j \in 1..k : i = j + 1
                    <6> i - 1 \in 1..k /\ i = (i - 1) + 1
                        BY <5>1
                    <6> QED
                        OBVIOUS
                <5>3. InTasks(x, j)'
                    BY <1>5, <4>1, <5>1, <5>2 DEF InTasks
                <5>4. ASSUME NEW l, InTasks(x, l)' PROVE l = j
                    <6>1. l \in 1..k /\ tasks[n][l + 1] = x
                        BY <1>5, <4>1, <5>4 DEF InTasks
                    <6>2. InTasks(x, l + 1)
                        BY <1>4, <1>5, <4>1, <6>1 DEF InTasks
                    <6>3. l + 1 = j + 1
                        BY <5>2, <6>2
                    <6> QED
                        BY <5>2, <6>1, <6>3
                <5> QED
                    BY <5>3, <5>4 DEF OneTask
            <4>2. CASE At[x.to] # n
                <5>1. \A j : InTasks(x, j)' <=> InTasks(x, j)
                    BY <1>3, <2>1, <4>2 DEF InTasks
                <5> QED
                    BY <5>1 DEF OneTask
            <4> QED
                BY <4>1, <4>2
        <3> QED
            BY <1>10, <2>3, <3>1, <3>2, <3>3
            DEF Placed, UnderWay, Lost, Waiting, Done, OneCall, NoCall
    <2> QED
        BY <2>4, <2>5
<1>11. ASSUME NEW m \in Nodes, NEW i \in 1..Len(tasks'[m])
       PROVE  \E j \in 1..Len(tasks[m]) : tasks'[m][i] = tasks[m][j]
    <2>1. CASE m = n
        BY <1>4, <1>5, <2>1
    <2>2. CASE m # n
        BY <1>3, <2>2
    <2> QED
        BY <2>1, <2>2
<1>12. \A x \in call.via : Before(x)
    BY <1>6, <1>7
<1> QED
    BY <1>1, <1>6, <1>10, <1>11, <1>12, CallPlaces

(* A packet arrives: it goes from the tunnel to the last task of its node. *)
LEMMA ReceivePlaces ==
    ASSUME TypeOK, AllPlaced, NEW packet \in tunnel, Receive(packet)
    PROVE  AllPlaced'
<1> USE AURPAssumption
<1>1. packet \in Packets /\ At[packet.to] \in Nodes
    BY DEF TypeOK, Packets
<1>2. PICK n \in Nodes : n = At[packet.to]
    BY <1>1
<1>3. /\ tunnel' = tunnel \ {packet} /\ UNCHANGED <<dropped, called, carried, copies>>
      /\ tasks' = [tasks EXCEPT ![n] = Append(@, packet)]
    BY <1>2 DEF Receive, Task, callVars
<1>4. tasks[n] \in Seq(Packets) /\ tasks'[n] = Append(tasks[n], packet)
      /\ \A m \in Nodes : m # n => tasks'[m] = tasks[m]
    BY <1>3 DEF TypeOK
<1>5. PICK last \in Nat :
        /\ Len(tasks[n]) = last /\ Len(tasks'[n]) = last + 1
        /\ tasks'[n][last + 1] = packet
        /\ \A i \in 1..last : tasks'[n][i] = tasks[n][i]
    <2>1. PICK last \in Nat : last = Len(tasks[n])
        BY <1>4
    <2>2. /\ Len(Append(tasks[n], packet)) = last + 1
          /\ Append(tasks[n], packet)[last + 1] = packet
          /\ \A i \in 1..last : Append(tasks[n], packet)[i] = tasks[n][i]
        BY <1>1, <1>4, <2>1
    <2> QED
        BY <1>4, <2>1, <2>2
<1>6. AllSent /\ Before(packet)
    BY DEF AllPlaced, AllSent
<1>7. AllSent'
    <2>1. \A x : Before(x)' <=> Before(x)
        BY <1>3 DEF Before
    <2>2. ASSUME NEW m \in Nodes, NEW i \in 1..Len(tasks'[m])
          PROVE  Before(tasks'[m][i]) /\ At[tasks'[m][i].to] = m
        <3>1. CASE m = n /\ i = last + 1
            BY <1>2, <1>5, <1>6, <3>1
        <3>2. CASE m = n /\ i # last + 1
            <4>1. i \in 1..last
                BY <1>5, <3>2
            <4> QED
                BY <1>5, <1>6, <3>2, <4>1 DEF AllSent
        <3>3. CASE m # n
            BY <1>4, <1>6, <3>3 DEF AllSent
        <3> QED
            BY <3>1, <3>2, <3>3
    <2>3. \A x \in tunnel' \cup dropped' : Before(x)
        BY <1>3, <1>6 DEF AllSent
    <2>4. \A m \in Nodes : \A i \in 1..Len(called'[m]) :
            \A x \in called'[m][i].via : Before(x)
        BY <1>3, <1>6 DEF AllSent
    <2>5. \A x \in copies' : x.copy # 0
        BY <1>3, <1>6 DEF AllSent
    <2>6. ASSUME NEW m \in Nodes, NEW i \in 1..Len(tasks'[m]) PROVE Before(tasks[m][i])'
        BY <1>3, <2>2 DEF Before
    <2>7. \A x \in tunnel' \cup dropped' : Before(x)'
        BY <2>1, <2>3
    <2>8. \A m \in Nodes : \A i \in 1..Len(called'[m]) : \A x \in called'[m][i].via : Before(x)'
        BY <2>1, <2>4
    <2> QED
        BY <2>2, <2>5, <2>6, <2>7, <2>8 DEF AllSent
<1>8. ASSUME NEW x \in Packets, Placed(x) PROVE Placed(x)'
    <2>1. x \in Packets /\ At[x.to] \in Nodes
        BY DEF Packets
    <2>2. \A i : InCalls(x, i)' <=> InCalls(x, i)
        BY <1>3 DEF InCalls
    <2>3. CASE x = packet
        <3>1. UnderWay(x)
            BY <1>8, <2>3 DEF Placed, Lost, Waiting, Done
        <3>2. InTasks(x, last + 1)'
            BY <1>2, <1>5, <2>3 DEF InTasks
        <3>3. ASSUME NEW i, InTasks(x, i)' PROVE i = last + 1
            <4>1. i \in 1..(last + 1) /\ tasks'[n][i] = x
                BY <1>2, <1>5, <2>3, <3>3 DEF InTasks
            <4>2. ASSUME i \in 1..last PROVE FALSE
                <5>1. InTasks(x, i)
                    BY <1>2, <1>5, <2>3, <4>1, <4>2 DEF InTasks
                <5> QED
                    BY <3>1, <5>1 DEF UnderWay, NoTask
            <4> QED
                BY <4>1, <4>2
        <3> QED
            BY <1>3, <2>2, <2>3, <3>1, <3>2, <3>3
            DEF Placed, UnderWay, Waiting, OneTask, NoCall
    <2>4. CASE x # packet
        <3>1. ASSUME NEW i PROVE InTasks(x, i)' <=> InTasks(x, i)
            <4>1. CASE At[x.to] = n
                BY <1>5, <2>4, <4>1 DEF InTasks
            <4>2. CASE At[x.to] # n
                BY <1>4, <2>1, <4>2 DEF InTasks
            <4> QED
                BY <4>1, <4>2
        <3>2. (x \in tunnel' <=> x \in tunnel) /\ (x \in dropped' <=> x \in dropped)
            BY <1>3, <2>4
        <3> QED
            BY <1>8, <2>2, <3>1, <3>2
            DEF Placed, UnderWay, Lost, Waiting, Done, OneTask, OneCall, NoTask, NoCall
    <2> QED
        BY <2>3, <2>4
<1>9. \A x : Before(x)' <=> Before(x)
    BY <1>3 DEF Before
<1> QED
    BY <1>7, <1>8, <1>9 DEF AllPlaced

(* A packet is lost.                                                       *)
LEMMA LosePlaces ==
    ASSUME TypeOK, AllPlaced, NEW packet \in tunnel, Lose(packet)
    PROVE  AllPlaced'
<1>1. /\ tunnel' = tunnel \ {packet} /\ dropped' = dropped \cup {packet}
      /\ UNCHANGED <<tasks, called, carried, copies>>
    BY DEF Lose, callVars
<1>2. \A x : Before(x)' <=> Before(x)
    BY <1>1 DEF Before
<1>3. AllSent'
    BY <1>1 DEF AllPlaced, AllSent, Before
<1>4. ASSUME NEW x \in Packets, Placed(x) PROVE Placed(x)'
    <2>1. \A i : (InCalls(x, i)' <=> InCalls(x, i)) /\ (InTasks(x, i)' <=> InTasks(x, i))
        BY <1>1 DEF InCalls, InTasks
    <2>2. /\ x # packet => (x \in tunnel' <=> x \in tunnel) /\ (x \in dropped' <=> x \in dropped)
          /\ x = packet => x \notin tunnel' /\ x \in dropped' /\ x \in tunnel
        BY <1>1
    <2> QED
        BY <1>4, <2>1, <2>2
        DEF Placed, UnderWay, Lost, Waiting, Done, OneTask, OneCall, NoTask, NoCall
<1> QED
    BY <1>2, <1>3, <1>4 DEF AllPlaced

(* A packet is copied: the copy was nowhere.                               *)
LEMMA DuplicatePlaces ==
    ASSUME TypeOK, AllPlaced, NEW packet \in tunnel, Duplicate(packet)
    PROVE  AllPlaced'
<1>1. PICK c \in 1..MaxCopies :
        /\ [packet EXCEPT !.copy = c] \notin copies
        /\ tunnel' = tunnel \cup {[packet EXCEPT !.copy = c]}
        /\ copies' = copies \cup {[packet EXCEPT !.copy = c]}
    BY DEF Duplicate
<1>2. PICK copy \in Packets : copy = [packet EXCEPT !.copy = c] /\ copy.copy # 0
    <2>1. packet \in Packets /\ c \in Nat /\ c # 0
        BY DEF TypeOK
    <2>2. [packet EXCEPT !.copy = c] \in Packets /\ [packet EXCEPT !.copy = c].copy = c
        BY <2>1 DEF Packets
    <2> QED
        BY <2>1, <2>2
<1>3. /\ tunnel' = tunnel \cup {copy} /\ copies' = copies \cup {copy} /\ copy \notin copies
      /\ UNCHANGED <<tasks, called, carried, dropped>>
    BY <1>1, <1>2 DEF Duplicate, callVars
<1>4. AllSent
    BY DEF AllPlaced
<1>5. ~Before(copy)
    BY <1>2, <1>3 DEF Before
<1>6. \A x : Before(x)' <=> Before(x) \/ x = copy
    BY <1>3 DEF Before
<1>7. AllSent'
    <2>1. \A x \in tunnel' \cup dropped' : Before(x)'
        BY <1>3, <1>4, <1>6 DEF AllSent
    <2>2. \A n \in Nodes : \A i \in 1..Len(tasks[n]) :
            Before(tasks[n][i])' /\ At[tasks[n][i].to] = n
        BY <1>3, <1>4 DEF AllSent, Before
    <2>3. \A n \in Nodes : \A i \in 1..Len(called[n]) : \A x \in called[n][i].via : Before(x)'
        BY <1>4, <1>6 DEF AllSent
    <2>4. \A x \in copies' : x.copy # 0
        BY <1>2, <1>3, <1>4 DEF AllSent
    <2> QED
        BY <1>3, <2>1, <2>2, <2>3, <2>4 DEF AllSent, Before
<1>8. ASSUME NEW x \in Packets, Before(x)' PROVE Placed(x)'
    <2>1. \A i : (InCalls(x, i)' <=> InCalls(x, i)) /\ (InTasks(x, i)' <=> InTasks(x, i))
        BY <1>3 DEF InCalls, InTasks
    <2>2. CASE x = copy
        <3>1. x \notin dropped /\ NoTask(x) /\ NoCall(x)
            BY <1>4, <1>5, <2>2, NewNowhere
        <3> QED
            BY <1>3, <2>1, <2>2, <3>1 DEF Placed, UnderWay, NoTask, NoCall
    <2>3. CASE x # copy
        <3>1. Placed(x)
            BY <1>6, <1>8, <2>3 DEF AllPlaced
        <3>2. (x \in tunnel' <=> x \in tunnel) /\ (x \in dropped' <=> x \in dropped)
            BY <1>3, <2>3
        <3> QED
            BY <2>1, <3>1, <3>2
            DEF Placed, UnderWay, Lost, Waiting, Done, OneTask, OneCall, NoTask, NoCall
    <2> QED
        BY <2>2, <2>3
<1> QED
    BY <1>7, <1>8 DEF AllPlaced

LEMMA NextPlaces == TypeOK /\ TypeOK' /\ AllPlaced /\ [Next]_vars => AllPlaced'
<1> USE DEF hookVars, callVars
<1> SUFFICES ASSUME TypeOK, TypeOK', AllPlaced, [Next]_vars PROVE AllPlaced'
    OBVIOUS
<1>1. ASSUME UNCHANGED <<tunnel, dropped, copies, tasks, called, carried>> PROVE AllPlaced'
    BY <1>1 DEF AllPlaced, AllSent, Before, Placed, UnderWay, Lost, Waiting, Done, OneTask,
        OneCall, NoTask, NoCall, InTasks, InCalls
<1>2. ASSUME NEW b \in Bridges, Start(b) \/ Started(b) \/ Stop(b) PROVE AllPlaced'
    BY <1>1, <1>2 DEF Start, Started, Stop
<1>3. ASSUME NEW n \in Nodes, Send(n) \/ Inject(n) PROVE AllPlaced'
    BY <1>3, SendPlaces, InjectPlaces
<1>4. ASSUME NEW packet \in tunnel, Receive(packet) \/ Lose(packet) \/ Duplicate(packet)
      PROVE  AllPlaced'
    BY <1>4, ReceivePlaces, LosePlaces, DuplicatePlaces
<1> QED
    BY <1>1, <1>2, <1>3, <1>4 DEF Next, vars

-------------------------------------------------------------------------------
(* A bridge alone on its node and started once keeps the node orderly: it  *)
(* is not started while it starts or is started, and its hook is on top.   *)
OnceAlone ==
    /\ \A b, c \in Bridges : At[b] = At[c] => b = c
    /\ \A b \in Bridges : MaxStarts[b] <= 1

StartedOnce ==
    /\ \A n \in Nodes : orderly[n]
    /\ \A b \in Bridges :
        /\ starts[b] <= 1
        /\ starts[b] = 0 => opening[b] = 0 /\ ~Running(b)
        /\ opening[b] > 0 => opening[b] = 1 /\ ~Running(b)

LEMMA NextStartedOnce ==
    OnceAlone => (TypeOK /\ RestoredInOrder /\ StartedOnce /\ [Next]_vars => StartedOnce')
<1> USE AURPAssumption DEF hookVars
<1> SUFFICES ASSUME OnceAlone, TypeOK, RestoredInOrder, StartedOnce, [Next]_vars
             PROVE  StartedOnce'
    OBVIOUS
<1>t. /\ starts \in [Bridges -> Nat] /\ opening \in [Bridges -> Nat]
      /\ transport \in [Bridges -> BOOLEAN] /\ orderly \in [Nodes -> BOOLEAN]
    BY DEF TypeOK
<1>1. ASSUME UNCHANGED <<starts, opening, transport, orderly>> PROVE StartedOnce'
    BY <1>1 DEF StartedOnce, Running
<1>2. ASSUME NEW b \in Bridges, Start(b) PROVE StartedOnce'
    <2>1. starts[b] = 0 /\ opening[b] = 0 /\ ~Running(b)
        BY <1>2, <1>t DEF Start, OnceAlone, StartedOnce
    <2>2. /\ starts' = [starts EXCEPT ![b] = @ + 1] /\ opening' = [opening EXCEPT ![b] = @ + 1]
          /\ UNCHANGED <<transport, orderly>>
        BY <1>2 DEF Start
    <2>3. starts'[b] = 1 /\ opening'[b] = 1
        BY <1>t, <2>1, <2>2
    <2> QED
        BY <1>t, <2>1, <2>2, <2>3 DEF StartedOnce, Running
<1>3. ASSUME NEW b \in Bridges, Started(b) PROVE StartedOnce'
    <2>1. opening[b] = 1 /\ ~Running(b) /\ starts[b] # 0
        BY <1>3, <1>t DEF Started, StartedOnce
    <2>2. /\ opening' = [opening EXCEPT ![b] = @ - 1] /\ transport' = [transport EXCEPT ![b] = TRUE]
          /\ orderly' = [orderly EXCEPT ![At[b]] = @ /\ ~Running(b)] /\ starts' = starts
        BY <1>3 DEF Started
    <2>3. opening'[b] = 0 /\ orderly' = orderly
        BY <1>t, <2>1, <2>2
    <2> QED
        BY <1>t, <2>1, <2>2, <2>3 DEF StartedOnce, Running
<1>4. ASSUME NEW b \in Bridges, Stop(b) PROVE StartedOnce'
    <2>1. Running(b) /\ orderly[At[b]]
        BY <1>4 DEF Stop, StartedOnce
    <2>2. hook[At[b]] \in Bridges /\ At[hook[At[b]]] = At[b]
        BY <2>1 DEF RestoredInOrder
    <2>3. hook[At[b]] = b
        BY <2>2 DEF OnceAlone
    <2>4. /\ transport' = [transport EXCEPT ![b] = FALSE] /\ UNCHANGED <<opening, starts>>
          /\ orderly' = [orderly EXCEPT ![At[b]] = @ /\ hook[At[b]] = b]
        BY <1>4 DEF Stop
    <2>5. orderly' = orderly
        BY <1>t, <2>1, <2>3, <2>4
    <2> QED
        BY <1>t, <2>4, <2>5 DEF StartedOnce, Running
<1>5. CASE \E n \in Nodes : Send(n) \/ Inject(n)
    BY <1>1, <1>5 DEF Send, Inject
<1>6. CASE \E packet \in tunnel : Receive(packet) \/ Lose(packet) \/ Duplicate(packet)
    BY <1>1, <1>6 DEF Receive, Lose, Duplicate
<1>7. CASE UNCHANGED vars
    BY <1>1, <1>7 DEF vars
<1> QED
    BY <1>2, <1>3, <1>4, <1>5, <1>6, <1>7 DEF Next

-------------------------------------------------------------------------------
(* Every variable keeps its type, and a bridge has a saved method exactly  *)
(* while it is started, in whatever order bridges start and stop (aurp.py, *)
(* start and stop).                                                        *)
THEOREM BridgeTypes == Spec => []TypeOK
BY InitTypes, NextTypes, PTL DEF Spec

(* At a node where each bridge is started only while stopped and stopped   *)
(* before those it was started after, with datagrams, injections and       *)
(* losses in between: with all bridges stopped the node has its own        *)
(* send_datagram again (aurp.py, stop), and with any started the hook of a *)
(* started one.  What happens at other nodes does not matter.              *)
THEOREM BridgesRestore == Spec => []RestoredInOrder
<1>1. Init => TypeOK /\ Stacked
    BY InitTypes, InitStacked
<1>2. TypeOK /\ Stacked /\ [Next]_vars => (TypeOK /\ Stacked)'
    BY NextTypes, NextStacked
<1>3. TypeOK /\ Stacked => RestoredInOrder
    BY StackRestored
<1> QED
    BY <1>1, <1>2, <1>3, PTL DEF Spec

(* What stop's comment says (aurp.py:97) holds where one bridge is alone   *)
(* on its node and started once, as in the tests: with it stopped the node *)
(* has its own send_datagram again.                                        *)
THEOREM LoneBridgesRestore == OnceAlone /\ Spec => []Restored
<1>1. Init => TypeOK /\ Stacked /\ StartedOnce
    BY InitTypes, InitStacked, AURPAssumption DEF Init, StartedOnce, Running
<1>2. TypeOK /\ Stacked => RestoredInOrder
    BY StackRestored
<1>3. OnceAlone => (TypeOK /\ Stacked /\ StartedOnce /\ [Next]_vars
                        => (TypeOK /\ Stacked /\ StartedOnce)')
    BY <1>2, NextTypes, NextStacked, NextStartedOnce
<1>4. RestoredInOrder /\ StartedOnce => Restored
    BY DEF RestoredInOrder, StartedOnce, Restored
<1>5. ASSUME OnceAlone PROVE Spec => []Restored
    <2>1. TypeOK /\ Stacked /\ StartedOnce /\ [Next]_vars => (TypeOK /\ Stacked /\ StartedOnce)'
        BY <1>3, <1>5
    <2> QED
        BY <1>1, <1>2, <1>4, <2>1, PTL DEF Spec
<1> QED
    BY <1>5

(* At a node where bridges go in the reverse of the order in which they    *)
(* came, each started only while stopped, the node does not notice: every  *)
(* call of send_datagram reaches the node's own method, once and in order, *)
(* and every AppleTalk call each started bridge, once (aurp.py,            *)
(* _outbound_hook).                                                        *)
THEOREM BridgesTransparent == Spec => []TransparentInOrder
<1>1. Init => TypeOK /\ Stacked /\ Local /\ Reached /\ TransparentInOrder
    BY InitTypes, InitStacked, InitReached, AURPAssumption DEF Init, Local, TransparentInOrder
<1>2. TypeOK /\ Stacked /\ Local /\ Reached /\ TransparentInOrder /\ [Next]_vars
        => (TypeOK /\ Stacked /\ Local /\ Reached /\ TransparentInOrder)'
    BY NextTypes, NextStacked, NextLocal, NextReached, NextTransparent
<1> QED
    BY <1>1, <1>2, PTL DEF Spec

(* Every packet a bridge has sent to a peer, and every copy UDP has made   *)
(* of one, is in exactly one place: under way, lost, in one task of the    *)
(* peer's node, or injected there by one call (aurp.py,                    *)
(* datagram_received), in whatever order bridges start and stop and        *)
(* whoever is whose peer.                                                  *)
THEOREM PacketsInOnePlace == Spec => []OnePlace
<1>1. Init => TypeOK /\ AllPlaced
    BY InitTypes, InitPlaces
<1>2. TypeOK /\ AllPlaced /\ [Next]_vars => (TypeOK /\ AllPlaced)'
    BY NextTypes, NextPlaces
<1>3. TypeOK /\ AllPlaced => OnePlace
    BY PlacesOne
<1> QED
    BY <1>1, <1>2, <1>3, PTL DEF Spec
===============================================================================

---------------------------- MODULE AppleTalkProofs ----------------------------
(***************************************************************************)
(* The name binding protocol, for any services, lookups and number of      *)
(* nodes: it uses switch and nodes as SwitchNode says, so that what is     *)
(* proved of them holds under it, and its replies are faithful.            *)
(***************************************************************************)
EXTENDS AppleTalk, SwitchNodeProofs, FiniteSetTheorems

-------------------------------------------------------------------------------
(* A step of the protocol is a step of switch and nodes, or changes        *)
(* nothing of theirs.                                                      *)

LEMMA HandlingInbox ==
    ASSUME NetworkInv, NEW n \in Nodes, phase[n] = "handling"
    PROVE  LET m == inbox[n] IN
           /\ m \in Messages /\ m.from \in Conns /\ m.num \in Nat
           /\ m.num \in 1..Len(sent[m.from]) /\ sent[m.from][m.num] = n
           /\ Owner(m.from) \in Nodes
<1>1. inbox[n] \in Messages
    BY DEF NetworkInv, InboxSent
<1> QED
    BY <1>1, FlowTypes, ConnParts DEF NetworkInv, InboxSent

LEMMA StepNetwork ==
    NetworkInv /\ [Next]_vars => [SwitchNext]_networkVars
<1> SUFFICES ASSUME NetworkInv, [Next]_vars PROVE [SwitchNext]_networkVars
    OBVIOUS
<1>1. ASSUME NEW n \in Nodes, Lookup(n) PROVE SwitchNext
    <2>1. PICK l \in Lookups : Send(n, l[2])
        BY <1>1 DEF Lookup
    <2>2. l[2] \in Addresses
        BY AppleTalkAssumption
    <2> QED
        BY <2>1, <2>2 DEF SwitchNext
<1>2. ASSUME NEW n \in Nodes, HandleLookup(n) PROVE SwitchNext
    <2>1. Owner(inbox[n].from) \in Addresses
        BY <1>2, HandlingInbox DEF HandleLookup, Addresses
    <2> QED
        BY <1>2, <2>1 DEF HandleLookup, SwitchNext
<1>3. ASSUME NEW n \in Nodes, HandleSilently(n) PROVE SwitchNext
    BY <1>3 DEF HandleSilently, SwitchNext
<1>4. ASSUME NEW n \in Nodes, Users(n) PROVE SwitchNext \/ UNCHANGED networkVars
    BY <1>1, <1>4 DEF Users, RegisterService, Die, SwitchNext
<1>5. CASE Underway
    BY <1>2, <1>3, <1>5 DEF Underway, Handle, SwitchNext
<1>6. CASE UNCHANGED vars
    BY <1>6 DEF vars
<1> QED
    BY <1>4, <1>5, <1>6 DEF Next

LEMMA NetworkUnderneath == Spec => SwitchSpec /\ []NetworkInv
<1>1. Init => SwitchInit /\ NetworkInv
    BY InitNetwork DEF Init
<1>2. NetworkInv /\ [Next]_vars => NetworkInv' /\ [SwitchNext]_networkVars
    BY StepNetwork, NextNetwork
<1> QED
    BY <1>1, <1>2, PTL DEF Spec, SwitchSpec

-------------------------------------------------------------------------------
(* Registries and packets.                                                 *)

LEMMA RepliesFacts ==
    ASSUME NEW ps \in Seq(Patterns), NEW s \in SUBSET Services
    PROVE  /\ Replies(ps, s) \subseteq Nat \X Services
           /\ \A u \in SUBSET Services : s \subseteq u => Replies(ps, s) \subseteq Replies(ps, u)
<1>1. DOMAIN ps \subseteq Nat
    OBVIOUS
<1> QED
    BY <1>1 DEF Replies

PacketTypes ==
    /\ registry \in [Nodes -> SUBSET Services]
    /\ \A n \in Nodes : registry[n] \subseteq Offers[n]
    /\ packets \in [Conns -> Seq(Packets)]
    /\ \A c \in Conns : Len(packets[c]) = Len(sent[c])

(* What a packet says of those before it.                                  *)
ReplyKept(c, k) ==
    packets[c][k].function = "LkUpReply" =>
        LET p == packets[c][k]
            q == packets[p.question.from][p.question.num]
        IN  /\ p.tuples # {} /\ Fits(p.tuples)
            /\ p.question.num \in 1..Len(packets[p.question.from])
            /\ q.function = "LkUp"
            /\ sent[c][k] = Owner(p.question.from)
            /\ sent[p.question.from][p.question.num] = Owner(c)
            /\ p.tuples \subseteq Replies(q.tuples, Offers[Owner(c)])
            /\ Number(c) = q.table[Owner(c)] => q.due \subseteq p.tuples

(* A lookup is owed what the node asked offered when it was sent, as long  *)
(* as the same run of that node goes on.                                   *)
LookupOwed(c, k) ==
    packets[c][k].function = "LkUp" =>
        \A n \in Nodes : sent[c][k] = n =>
            LET p == packets[c][k]
            IN  /\ p.table[n] <= life[n]
                /\ p.table[n] # 0 /\ p.table[n] = life[n] /\ phase[n] # "idle" =>
                    p.due \subseteq Replies(p.tuples, registry[n])

PacketInv ==
    /\ PacketTypes
    /\ \A c \in Conns : \A k \in 1..Len(packets[c]) : ReplyKept(c, k) /\ LookupOwed(c, k)

LEMMA PacketFacts ==
    ASSUME PacketTypes
    PROVE  \A c \in Conns :
            /\ packets[c] \in Seq(Packets) /\ Len(packets[c]) \in Nat
            /\ DOMAIN packets[c] = 1..Len(packets[c])
            /\ \A k \in 1..Len(packets[c]) :
                /\ packets[c][k] \in Packets
                /\ packets[c][k].function \in {"LkUp", "LkUpReply"}
                /\ packets[c][k].function = "LkUp" =>
                    /\ packets[c][k].tuples \in Seq(Patterns)
                    /\ packets[c][k].table \in [Nodes -> 0..MaxLife]
                /\ packets[c][k].function = "LkUpReply" =>
                    /\ packets[c][k].question \in Messages
                    /\ packets[c][k].tuples \in SUBSET (Nat \X Services)
<1> SUFFICES ASSUME NEW c \in Conns
             PROVE  /\ packets[c] \in Seq(Packets) /\ Len(packets[c]) \in Nat
                    /\ DOMAIN packets[c] = 1..Len(packets[c])
                    /\ \A k \in 1..Len(packets[c]) :
                        /\ packets[c][k] \in Packets
                        /\ packets[c][k].function \in {"LkUp", "LkUpReply"}
                        /\ packets[c][k].function = "LkUp" =>
                            /\ packets[c][k].tuples \in Seq(Patterns)
                            /\ packets[c][k].table \in [Nodes -> 0..MaxLife]
                        /\ packets[c][k].function = "LkUpReply" =>
                            /\ packets[c][k].question \in Messages
                            /\ packets[c][k].tuples \in SUBSET (Nat \X Services)
    OBVIOUS
<1>1. packets[c] \in Seq(Packets)
    BY DEF PacketTypes
<1>2. \A q \in Seq(Packets) : /\ Len(q) \in Nat /\ DOMAIN q = 1..Len(q)
                             /\ \A k \in 1..Len(q) : q[k] \in Packets
    OBVIOUS
<1>3. \A p \in Packets :
        /\ p.function \in {"LkUp", "LkUpReply"}
        /\ p.function = "LkUp" =>
            p.tuples \in Seq(Patterns) /\ p.table \in [Nodes -> 0..MaxLife]
        /\ p.function = "LkUpReply" =>
            p.question \in Messages /\ p.tuples \in SUBSET (Nat \X Services)
    BY DEF Packets
<1> QED
    BY <1>1, <1>2, <1>3

(* Runs are counted, and none begins but with Run.                         *)
LEMMA RunFacts ==
    ASSUME TypeInv, [SwitchNext]_networkVars, NEW n \in Nodes
    PROVE  /\ life[n] \in Nat /\ life'[n] \in Nat /\ life[n] <= life'[n]
           /\ life'[n] = life[n] /\ phase'[n] # "idle" => phase[n] # "idle"
<1>t. /\ life \in [Nodes -> 0..MaxLife] /\ life[n] \in Nat /\ MaxLife \in Nat
      /\ phase \in [Nodes -> {"idle", "connecting", "reading", "handling", "draining"}]
    BY SwitchNodeAssumption DEF TypeInv, NetworkTypeOK
<1>1. ASSUME NEW m \in Nodes, Run(m)
      PROVE  /\ life'[n] \in Nat /\ life[n] <= life'[n]
             /\ life'[n] = life[n] /\ phase'[n] # "idle" => phase[n] # "idle"
    <2>1. CASE m = n
        BY <1>1, <1>t, <2>1 DEF Run
    <2>2. CASE m # n
        BY <1>1, <1>t, <2>2 DEF Run
    <2> QED
        BY <2>1, <2>2
<1>2. ASSUME NEW m \in Nodes,
             Connected(m) \/ ConnectFails(m) \/ Replied(m) \/ Handled(m) \/ Receive(m)
               \/ ReadEnds(m) \/ Dropped(m) \/ Stop(m) \/ Disconnect(m) \/ Crash(m)
      PROVE  life' = life /\ (phase'[n] # "idle" => phase[n] # "idle")
    BY <1>2, <1>t DEF Connected, ConnectFails, Replied, Handled, Receive, ReadEnds, Dropped,
                      Stop, Disconnect, Crash, Leave
<1>3. ASSUME NEW m \in Nodes, NEW d \in Addresses, Send(m, d) \/ Reply(m, d)
      PROVE  life' = life /\ (phase'[n] # "idle" => phase[n] # "idle")
    BY <1>3, <1>t DEF Send, Reply, nodeVars
<1>4. ASSUME NEW c \in Conns, SwitchStep(c)
      PROVE  life' = life /\ phase' = phase
    BY <1>4 DEF SwitchStep, HandleRegister, Drop, Forward, Drained, ForwardFails,
                DrainFails, LoopEnds, Closed, HandlerReturns, nodeVars
<1>5. CASE NetworkStep
    <2>1. CASE \E c \in Conns : SwitchStep(c)
        BY <1>4, <1>t, <2>1
    <2>2. CASE \E m \in Nodes : NodeStep(m)
        BY <1>2, <1>t, <2>2 DEF NodeStep
    <2> QED
        BY <1>5, <2>1, <2>2 DEF NetworkStep
<1>6. CASE \E m \in Nodes : Program(m) \/ Handled(m) \/ Crash(m)
    BY <1>1, <1>2, <1>t, <1>6 DEF Program
<1>7. CASE \E m \in Nodes : \E d \in Addresses : Send(m, d) \/ Reply(m, d)
    BY <1>3, <1>t, <1>7
<1>8. CASE UNCHANGED networkVars
    BY <1>t, <1>8 DEF networkVars, nodeVars
<1> QED
    BY <1>5, <1>6, <1>7, <1>8, <1>t DEF SwitchNext

(* Steps that send nothing.                                                *)
LEMMA PacketFrame ==
    ASSUME NetworkInv, PacketInv, [SwitchNext]_networkVars, UNCHANGED <<sent, packets>>,
           registry' \in [Nodes -> SUBSET Services],
           \A n \in Nodes : registry'[n] \subseteq Offers[n],
           \A n \in Nodes : phase'[n] # "idle" => registry[n] \subseteq registry'[n]
    PROVE  PacketInv'
<1>1. PacketTypes'
    BY DEF PacketInv, PacketTypes
<1> SUFFICES ASSUME NEW c \in Conns, NEW k \in 1..Len(packets[c])
             PROVE  ReplyKept(c, k)' /\ LookupOwed(c, k)'
    BY <1>1 DEF PacketInv
<1>2. ReplyKept(c, k) /\ LookupOwed(c, k)
    BY DEF PacketInv
<1>3. ReplyKept(c, k)'
    BY <1>2 DEF ReplyKept
<1>4. LookupOwed(c, k)'
    <2> DEFINE p == packets[c][k]
    <2> SUFFICES ASSUME p.function = "LkUp", NEW n \in Nodes, sent[c][k] = n
                 PROVE  /\ p.table[n] <= life'[n]
                        /\ p.table[n] # 0 /\ p.table[n] = life'[n] /\ phase'[n] # "idle" =>
                            p.due \subseteq Replies(p.tuples, registry'[n])
        BY DEF LookupOwed
    <2>1. p.tuples \in Seq(Patterns) /\ p.table[n] \in 0..MaxLife
        BY PacketFacts DEF PacketInv
    <2>2. /\ life[n] \in Nat /\ life'[n] \in Nat /\ life[n] <= life'[n]
          /\ life'[n] = life[n] /\ phase'[n] # "idle" => phase[n] # "idle"
        BY RunFacts DEF NetworkInv
    <2>3. /\ p.table[n] <= life[n]
          /\ p.table[n] # 0 /\ p.table[n] = life[n] /\ phase[n] # "idle" =>
                p.due \subseteq Replies(p.tuples, registry[n])
        BY <1>2 DEF LookupOwed
    <2>4. p.table[n] <= life'[n]
        BY <2>1, <2>2, <2>3, SwitchNodeAssumption
    <2>5. ASSUME p.table[n] # 0, p.table[n] = life'[n], phase'[n] # "idle"
          PROVE  p.due \subseteq Replies(p.tuples, registry'[n])
        <3>1. life'[n] = life[n]
            BY <2>1, <2>2, <2>3, <2>5, SwitchNodeAssumption
        <3>2. p.due \subseteq Replies(p.tuples, registry[n])
            BY <2>2, <2>3, <2>5, <3>1
        <3>3. registry[n] \in SUBSET Services /\ registry'[n] \in SUBSET Services
              /\ registry[n] \subseteq registry'[n]
            BY <2>5 DEF PacketInv, PacketTypes
        <3> QED
            BY <2>1, <3>2, <3>3, RepliesFacts
    <2> QED
        BY <2>4, <2>5
<1> QED
    BY <1>3, <1>4

(* A node sends: the old datagrams stay as they are.                       *)
LEMMA CarryFacts ==
    ASSUME NetworkInv, PacketTypes, NEW n \in Nodes, NEW d \in Addresses, Sending(n, d),
           NEW p \in Packets, Carry(n, p)
    PROVE  LET z == Current(n)
           IN  /\ z \in Conns /\ Owner(z) = n /\ Number(z) = life[n]
               /\ packets' \in [Conns -> Seq(Packets)]
               /\ \A c \in Conns : Len(packets'[c]) = Len(sent'[c])
               /\ \A c \in Conns : \A i \in 1..Len(packets[c]) :
                    /\ i \in 1..Len(packets'[c])
                    /\ packets'[c][i] = packets[c][i] /\ sent'[c][i] = sent[c][i]
               /\ \A c \in Conns : \A i \in 1..Len(packets'[c]) :
                    \/ i \in 1..Len(packets[c])
                    \/ c = z /\ packets'[c][i] = p /\ sent'[c][i] = d
<1> DEFINE z == Current(n)
<1>1. z \in Conns /\ Owner(z) = n /\ Number(z) = life[n]
    <2>1. life[n] # 0
        BY DEF Sending, CanSend, NetworkInv, TypeInv, HasRun
    <2> QED
        BY <2>1, CurrentConn DEF NetworkInv
<1>2. /\ packets \in [Conns -> Seq(Packets)] /\ packets[z] \in Seq(Packets)
      /\ packets' = [packets EXCEPT ![z] = Append(@, p)]
      /\ sent \in [Conns -> Seq(Addresses)] /\ sent[z] \in Seq(Addresses)
      /\ sent' = [sent EXCEPT ![z] = Append(@, d)]
    BY <1>1 DEF PacketTypes, Carry, Sending, NetworkInv, TypeInv, NetworkTypeOK
<1> HIDE DEF z
<1>3. PICK l \in Nat : Len(packets[z]) = l /\ Len(sent[z]) = l
    BY <1>1, <1>2, SeqFacts DEF PacketTypes
<1>4. /\ Append(packets[z], p) \in Seq(Packets) /\ Len(Append(packets[z], p)) = l + 1
      /\ Append(packets[z], p)[l + 1] = p
      /\ \A i \in 1..l : Append(packets[z], p)[i] = packets[z][i]
    <2>1. \A q \in Seq(Packets) :
            /\ Append(q, p) \in Seq(Packets) /\ Len(Append(q, p)) = Len(q) + 1
            /\ Append(q, p)[Len(q) + 1] = p
            /\ \A i \in 1..Len(q) : Append(q, p)[i] = q[i]
        BY SeqFacts
    <2> QED
        BY <1>2, <1>3, <2>1
<1>5. /\ Len(Append(sent[z], d)) = l + 1 /\ Append(sent[z], d)[l + 1] = d
      /\ \A i \in 1..l : Append(sent[z], d)[i] = sent[z][i]
    BY <1>2, <1>3, SeqFacts
<1>6. /\ packets'[z] = Append(packets[z], p) /\ sent'[z] = Append(sent[z], d)
      /\ \A c \in Conns : c # z => packets'[c] = packets[c] /\ sent'[c] = sent[c]
    BY <1>1, <1>2
<1>7. packets' \in [Conns -> Seq(Packets)]
    BY <1>2, <1>4
<1>8. \A i \in 1..(l + 1) : i \in 1..l \/ i = l + 1
    OBVIOUS
<1>9. \A c \in Conns : Len(packets'[c]) = Len(sent'[c])
    <2> SUFFICES ASSUME NEW c \in Conns PROVE Len(packets'[c]) = Len(sent'[c])
        OBVIOUS
    <2>1. CASE c = z
        BY <1>4, <1>5, <1>6, <2>1
    <2>2. CASE c # z
        BY <1>6, <2>2 DEF PacketTypes
    <2> QED
        BY <2>1, <2>2
<1>10. ASSUME NEW c \in Conns, NEW i \in 1..Len(packets[c])
       PROVE  /\ i \in 1..Len(packets'[c])
              /\ packets'[c][i] = packets[c][i] /\ sent'[c][i] = sent[c][i]
    <2>1. CASE c = z
        <3>1. i \in 1..l /\ i \in 1..(l + 1)
            BY <1>3, <1>10, <2>1
        <3> QED
            BY <1>4, <1>5, <1>6, <2>1, <3>1
    <2>2. CASE c # z
        BY <1>6, <1>10, <2>2
    <2> QED
        BY <2>1, <2>2
<1>11. ASSUME NEW c \in Conns, NEW i \in 1..Len(packets'[c])
       PROVE  \/ i \in 1..Len(packets[c])
              \/ c = z /\ packets'[c][i] = p /\ sent'[c][i] = d
    <2>1. CASE c = z
        BY <1>3, <1>4, <1>5, <1>6, <1>8, <1>11, <2>1
    <2>2. CASE c # z
        BY <1>6, <1>11, <2>2
    <2> QED
        BY <2>1, <2>2
<1> QED
    BY <1>1, <1>7, <1>9, <1>10, <1>11 DEF z

(* A node sends a packet of which what PacketInv says is true.             *)
LEMMA CarryPacket ==
    ASSUME NetworkInv, PacketInv, UNCHANGED registry,
           NEW n \in Nodes, NEW d \in Addresses, Send(n, d) \/ Reply(n, d),
           NEW p \in Packets, Carry(n, p),
           p.function = "LkUpReply" =>
                LET q == packets[p.question.from][p.question.num]
                IN  /\ p.tuples # {} /\ Fits(p.tuples)
                    /\ p.question \in Messages
                    /\ p.question.num \in 1..Len(packets[p.question.from])
                    /\ q.function = "LkUp"
                    /\ d = Owner(p.question.from)
                    /\ sent[p.question.from][p.question.num] = n
                    /\ p.tuples \subseteq Replies(q.tuples, Offers[n])
                    /\ life[n] = q.table[n] => q.due \subseteq p.tuples,
           p.function = "LkUp" =>
                \A m \in Nodes : d = m =>
                    /\ p.table[m] <= life[m]
                    /\ p.table[m] # 0 /\ p.table[m] = life[m] /\ phase[m] # "idle" =>
                        p.due \subseteq Replies(p.tuples, registry[m])
    PROVE  PacketInv'
<1> DEFINE z == Current(n)
<1>0. Sending(n, d) /\ life' = life
    BY DEF Send, Reply, nodeVars
<1>1. /\ z \in Conns /\ Owner(z) = n /\ Number(z) = life[n]
      /\ packets' \in [Conns -> Seq(Packets)]
      /\ \A c \in Conns : Len(packets'[c]) = Len(sent'[c])
      /\ \A c \in Conns : \A i \in 1..Len(packets[c]) :
            /\ i \in 1..Len(packets'[c])
            /\ packets'[c][i] = packets[c][i] /\ sent'[c][i] = sent[c][i]
      /\ \A c \in Conns : \A i \in 1..Len(packets'[c]) :
            \/ i \in 1..Len(packets[c])
            \/ c = z /\ packets'[c][i] = p /\ sent'[c][i] = d
    <2>1. PacketTypes
        BY DEF PacketInv
    <2> QED
        BY <1>0, <2>1, CarryFacts, SMTT(30)
<1>2. PacketTypes'
    BY <1>1 DEF PacketInv, PacketTypes
<1>3. \A m \in Nodes : phase'[m] # "idle" => phase[m] # "idle"
    BY DEF Send, Reply, nodeVars, NetworkInv, TypeInv, NetworkTypeOK
<1>4. \A m \in Messages : m.from \in Conns
    BY FlowTypes DEF NetworkInv
<1> HIDE DEF z
<1> SUFFICES ASSUME NEW c \in Conns, NEW k \in 1..Len(packets'[c])
             PROVE  ReplyKept(c, k)' /\ LookupOwed(c, k)'
    BY <1>2 DEF PacketInv
<1>5. CASE k \in 1..Len(packets[c])
    <2>1. ReplyKept(c, k) /\ LookupOwed(c, k)
        BY <1>5 DEF PacketInv
    <2>2. packets'[c][k] = packets[c][k] /\ sent'[c][k] = sent[c][k]
        BY <1>1, <1>5
    <2>3. ReplyKept(c, k)'
        <3> DEFINE r == packets[c][k]
                   f == r.question.from
                   i == r.question.num
        <3> SUFFICES ASSUME r.function = "LkUpReply"
                     PROVE  LET q == packets'[f][i]
                            IN  /\ r.tuples # {} /\ Fits(r.tuples)
                                /\ i \in 1..Len(packets'[f])
                                /\ q.function = "LkUp"
                                /\ sent'[c][k] = Owner(f)
                                /\ sent'[f][i] = Owner(c)
                                /\ r.tuples \subseteq Replies(q.tuples, Offers[Owner(c)])
                                /\ Number(c) = q.table[Owner(c)] => q.due \subseteq r.tuples
            BY <2>2 DEF ReplyKept
        <3>1. f \in Conns
            BY <1>4, <1>5, PacketFacts DEF PacketInv
        <3>2. i \in 1..Len(packets[f])
            BY <2>1 DEF ReplyKept
        <3>3. /\ i \in 1..Len(packets'[f])
              /\ packets'[f][i] = packets[f][i] /\ sent'[f][i] = sent[f][i]
            BY <1>1, <3>1, <3>2
        <3> QED
            BY <2>1, <2>2, <3>3 DEF ReplyKept
    <2>4. LookupOwed(c, k)'
        BY <1>0, <1>3, <2>1, <2>2 DEF LookupOwed
    <2> QED
        BY <2>3, <2>4
<1>6. CASE c = z /\ packets'[c][k] = p /\ sent'[c][k] = d
    <2>1. ReplyKept(c, k)'
        <3> DEFINE f == p.question.from
                   i == p.question.num
        <3> SUFFICES ASSUME p.function = "LkUpReply"
                     PROVE  LET q == packets'[f][i]
                            IN  /\ p.tuples # {} /\ Fits(p.tuples)
                                /\ i \in 1..Len(packets'[f])
                                /\ q.function = "LkUp"
                                /\ d = Owner(f)
                                /\ sent'[f][i] = Owner(c)
                                /\ p.tuples \subseteq Replies(q.tuples, Offers[Owner(c)])
                                /\ Number(c) = q.table[Owner(c)] => q.due \subseteq p.tuples
            BY <1>6 DEF ReplyKept
        <3>1. f \in Conns /\ i \in 1..Len(packets[f])
            BY <1>4
        <3>2. /\ i \in 1..Len(packets'[f])
              /\ packets'[f][i] = packets[f][i] /\ sent'[f][i] = sent[f][i]
            BY <1>1, <3>1
        <3>3. Owner(c) = n /\ Number(c) = life[n]
            BY <1>1, <1>6
        <3> QED
            BY <3>2, <3>3
    <2>2. LookupOwed(c, k)'
        BY <1>0, <1>3, <1>6 DEF LookupOwed
    <2> QED
        BY <2>1, <2>2
<1> QED
    BY <1>1, <1>5, <1>6

LEMMA InitPackets == Init => PacketInv
<1> SUFFICES ASSUME Init PROVE PacketInv
    OBVIOUS
<1>1. PacketTypes
    <2>1. \A n \in Nodes : registry[n] = {}
        BY DEF Init
    <2>2. registry \in [Nodes -> SUBSET Services]
        BY DEF Init
    <2>3. packets \in [Conns -> Seq(Packets)]
        BY EmptyFacts DEF Init
    <2>4. \A c \in Conns : packets[c] = <<>> /\ sent[c] = <<>>
        BY DEF Init, SwitchInit
    <2> QED
        BY <2>1, <2>2, <2>3, <2>4 DEF PacketTypes
<1>2. \A c \in Conns : 1..Len(packets[c]) = {}
    BY EmptyFacts DEF Init
<1> QED
    BY <1>1, <1>2 DEF PacketInv

(* A program looks a service up.                                           *)
LEMMA LookupPackets ==
    ASSUME NetworkInv, PacketInv, NEW n \in Nodes, Lookup(n)
    PROVE  PacketInv'
<1> DEFINE table == [nodes EXCEPT ![n] = 0]
<1>1. PICK l \in Lookups :
        LET asked == {d \in Nodes : d = l[2] /\ table[d] # 0}
        IN  /\ l[1] = n /\ Send(n, l[2])
            /\ Carry(n, Request(l[3], table, UNION {Replies(l[3], registry[d]) : d \in asked}))
            /\ UNCHANGED registry
    BY DEF Lookup
<1> DEFINE asked == {d \in Nodes : d = l[2] /\ table[d] # 0}
           due == UNION {Replies(l[3], registry[d]) : d \in asked}
           p == Request(l[3], table, due)
<1>2. l[2] \in Addresses /\ l[3] \in Seq(Patterns)
    BY AppleTalkAssumption
<1>3. nodes \in [Nodes -> 0..MaxLife] /\ table \in [Nodes -> 0..MaxLife]
      /\ life \in [Nodes -> 0..MaxLife]
    BY SwitchNodeAssumption DEF NetworkInv, TypeInv, NetworkTypeOK
<1>4. \A d \in Nodes : registry[d] \in SUBSET Services
    BY DEF PacketInv, PacketTypes
<1>5. due \subseteq Nat \X Services
    BY <1>2, <1>4, RepliesFacts
<1>6. /\ p.function = "LkUp" /\ p.tuples = l[3] /\ p.table = table /\ p.due = due
      /\ p \in Packets
    <2> HIDE DEF due, table
    <2>1. p = [function |-> "LkUp", tuples |-> l[3], table |-> table, due |-> due]
        BY DEF Request
    <2>2. due \in SUBSET (Nat \X Services)
        BY <1>5
    <2> HIDE DEF p
    <2>3. p \in Packets
        BY <1>2, <1>3, <2>1, <2>2 DEF Packets
    <2> QED
        BY <2>1, <2>3
<1>7. \A m \in Nodes : nodes[m] <= life[m]
    <2>0. \A m \in Nodes : 0 <= life[m]
        BY <1>3, SwitchNodeAssumption
    <2> SUFFICES ASSUME NEW m \in Nodes, nodes[m] # 0 PROVE nodes[m] <= life[m]
        BY <2>0
    <2> DEFINE c == <<m, nodes[m]>>
    <2>1. c \in named
        BY DEF NetworkInv, Names, Directory
    <2>2. c \in Conns /\ Owner(c) = m /\ Number(c) = nodes[m]
        BY <1>3, ConnParts, SwitchNodeAssumption
    <2>3. ~NotYet(c)
        BY <2>1, <2>2 DEF NetworkInv, Fresh
    <2> QED
        BY <1>3, <2>2, <2>3, SwitchNodeAssumption DEF NotYet
<1>8. \A m \in Nodes : table[m] <= life[m]
    <2> SUFFICES ASSUME NEW m \in Nodes PROVE table[m] <= life[m]
        OBVIOUS
    <2>1. life[m] \in Nat
        BY <1>3, SwitchNodeAssumption
    <2>2. table[m] = 0 \/ table[m] = nodes[m]
        BY <1>3
    <2> HIDE DEF table
    <2> QED
        BY <1>7, <2>1, <2>2
<1>9. \A m \in Nodes : l[2] = m /\ table[m] # 0 => due \subseteq Replies(l[3], registry[m])
    OBVIOUS
<1>10. Send(n, l[2]) /\ Carry(n, p) /\ UNCHANGED registry
    BY <1>1
<1> HIDE DEF p, due, table
<1> QED
    BY <1>2, <1>6, <1>8, <1>9, <1>10, CarryPacket

(* The plugin answers.                                                     *)
LEMMA HandlePackets ==
    ASSUME NetworkInv, PacketInv, NEW n \in Nodes, HandleLookup(n)
    PROVE  PacketInv'
<1> DEFINE m == inbox[n]
           q == packets[m.from][m.num]
           p == LkUpReply(m, Answer(n))
           d == Owner(m.from)
<1>1. /\ phase[n] = "handling" /\ q.function = "LkUp" /\ Reply(n, d) /\ Carry(n, p)
      /\ Answer(n) # {} /\ Fits(Answer(n)) /\ UNCHANGED registry
    BY DEF HandleLookup, Asked, Question, Answerable
<1>2. /\ m \in Messages /\ m.from \in Conns /\ m.num \in 1..Len(sent[m.from])
      /\ sent[m.from][m.num] = n /\ d \in Nodes
    BY <1>1, HandlingInbox
<1>3. m.num \in 1..Len(packets[m.from])
    BY <1>2 DEF PacketInv, PacketTypes
<1>4. q.tuples \in Seq(Patterns) /\ LookupOwed(m.from, m.num)
    BY <1>1, <1>2, <1>3, PacketFacts DEF PacketInv
<1>5. Answer(n) = Replies(q.tuples, registry[n])
    BY DEF Answer, Question
<1>6. /\ registry[n] \in SUBSET Services /\ Offers[n] \in SUBSET Services
      /\ registry[n] \subseteq Offers[n]
    BY AppleTalkAssumption DEF PacketInv, PacketTypes
<1>7. Answer(n) \subseteq Nat \X Services /\ Answer(n) \subseteq Replies(q.tuples, Offers[n])
    <2> HIDE DEF q
    <2>1. q.tuples \in Seq(Patterns)
        BY <1>4
    <2>2. /\ Replies(q.tuples, registry[n]) \subseteq Nat \X Services
          /\ Replies(q.tuples, registry[n]) \subseteq Replies(q.tuples, Offers[n])
        BY <1>6, <2>1, RepliesFacts
    <2> QED
        BY <1>5, <2>2
<1>8. /\ p.function = "LkUpReply" /\ p.question = m /\ p.tuples = Answer(n)
      /\ p \in Packets
    BY <1>2, <1>7 DEF LkUpReply, Packets
<1>9. life[n] = q.table[n] => q.due \subseteq Answer(n)
    <2>1. life[n] # 0
        BY <1>1 DEF NetworkInv, TypeInv, HasRun
    <2> QED
        BY <1>1, <1>2, <1>4, <1>5, <2>1 DEF LookupOwed
<1>10. d \in Addresses
    BY <1>2 DEF Addresses
<1> HIDE DEF p, q, m, d
<1>11. /\ p.function # "LkUp" /\ p.question.from = m.from /\ p.question.num = m.num
    BY <1>8
<1>12. p.question \in Messages /\ packets[p.question.from][p.question.num] = q
       /\ d = Owner(p.question.from)
    BY <1>2, <1>8 DEF q, d
<1>13. LET r == packets[p.question.from][p.question.num]
       IN  /\ p.tuples # {} /\ Fits(p.tuples)
           /\ p.question \in Messages
           /\ p.question.num \in 1..Len(packets[p.question.from])
           /\ r.function = "LkUp"
           /\ d = Owner(p.question.from)
           /\ sent[p.question.from][p.question.num] = n
           /\ p.tuples \subseteq Replies(r.tuples, Offers[n])
           /\ life[n] = r.table[n] => r.due \subseteq p.tuples
    BY <1>1, <1>2, <1>3, <1>7, <1>8, <1>9, <1>11, <1>12
<1>14. p \in Packets /\ Carry(n, p) /\ UNCHANGED registry /\ Reply(n, d)
    BY <1>1, <1>8
<1> QED
    BY <1>10, <1>11, <1>13, <1>14, CarryPacket

LEMMA NextPackets == NetworkInv /\ PacketInv /\ [Next]_vars => PacketInv'
<1> SUFFICES ASSUME NetworkInv, PacketInv, [Next]_vars PROVE PacketInv'
    OBVIOUS
<1>0. [SwitchNext]_networkVars
    BY StepNetwork
<1>r. /\ registry \in [Nodes -> SUBSET Services]
      /\ \A n \in Nodes : registry[n] \subseteq Offers[n]
    BY DEF PacketInv, PacketTypes
<1>1. CASE UNCHANGED <<sent, registry, packets>>
    BY <1>0, <1>1, <1>r, PacketFrame
<1>2. ASSUME NEW n \in Nodes, RegisterService(n) PROVE PacketInv'
    <2>1. PICK s \in Offers[n] \ registry[n] :
            registry' = [registry EXCEPT ![n] = @ \cup {s}]
        BY <1>2 DEF RegisterService
    <2>2. UNCHANGED <<sent, packets>>
        BY <1>2 DEF RegisterService, networkVars, historyVars
    <2>3. Offers[n] \in SUBSET Services
        BY AppleTalkAssumption
    <2>4. registry' \in [Nodes -> SUBSET Services]
        BY <1>r, <2>1, <2>3
    <2>5. \A m \in Nodes : registry'[m] \subseteq Offers[m] /\ registry[m] \subseteq registry'[m]
        BY <1>r, <2>1
    <2> QED
        BY <1>0, <2>2, <2>4, <2>5, PacketFrame
<1>3. ASSUME NEW n \in Nodes, Die(n) PROVE PacketInv'
    <2>1. /\ registry' = [registry EXCEPT ![n] = {}] /\ UNCHANGED <<sent, packets>>
          /\ phase' = [phase EXCEPT ![n] = "idle"]
        BY <1>3 DEF Die, Crash, Leave, historyVars
    <2>2. phase \in [Nodes -> {"idle", "connecting", "reading", "handling", "draining"}]
        BY DEF NetworkInv, TypeInv, NetworkTypeOK
    <2>3. registry' \in [Nodes -> SUBSET Services]
        BY <1>r, <2>1
    <2>4. \A m \in Nodes : registry'[m] \subseteq Offers[m]
        BY <1>r, <2>1
    <2>6. \A m \in Nodes : phase'[m] # "idle" => registry[m] \subseteq registry'[m]
        BY <1>r, <2>1, <2>2
    <2>5. UNCHANGED <<sent, packets>>
        BY <2>1
    <2> QED
        BY <1>0, <2>3, <2>4, <2>5, <2>6, PacketFrame
<1>4. ASSUME NEW n \in Nodes, Program(n) /\ UNCHANGED appleVars
      PROVE  UNCHANGED <<sent, registry, packets>>
    BY <1>4 DEF Program, Run, ConnectFails, Stop, Disconnect, appleVars, historyVars
<1>5. ASSUME NEW n \in Nodes, Users(n) PROVE PacketInv'
    BY <1>1, <1>2, <1>3, <1>4, <1>5, LookupPackets DEF Users
<1>6. ASSUME NetworkStep, UNCHANGED appleVars PROVE UNCHANGED <<sent, registry, packets>>
    <2>1. ASSUME NEW n \in Nodes, NodeStep(n) PROVE UNCHANGED sent
        BY <2>1 DEF NodeStep, Connected, Receive, Replied, ReadEnds, Dropped, historyVars
    <2>2. ASSUME NEW c \in Conns, SwitchStep(c) PROVE UNCHANGED sent
        BY <2>2 DEF SwitchStep, HandleRegister, Drop, Forward, Drained, ForwardFails,
                    DrainFails, LoopEnds, Closed, HandlerReturns, historyVars
    <2> QED
        BY <1>6, <2>1, <2>2 DEF NetworkStep, appleVars
<1>7. ASSUME NEW n \in Nodes, HandleSilently(n) PROVE UNCHANGED <<sent, registry, packets>>
    BY <1>7 DEF HandleSilently, Handled, appleVars, historyVars
<1>8. CASE Underway
    BY <1>1, <1>6, <1>7, <1>8, HandlePackets DEF Underway, Handle
<1>9. CASE UNCHANGED vars
    BY <1>1, <1>9 DEF vars, networkVars, historyVars, appleVars
<1> QED
    BY <1>5, <1>8, <1>9 DEF Next

-------------------------------------------------------------------------------
(* The specification.                                                      *)

LEMMA NamesInvariant == Spec => []PacketInv
<1>1. Init => PacketInv
    BY InitPackets
<1> QED
    BY <1>1, NextPackets, NetworkUnderneath, PTL DEF Spec

(* Every variable keeps its type, every datagram has its contents, and no  *)
(* reply has more tuples than its header can say: plugin.py:80-116.        *)
THEOREM NamesTypes == Spec => []TypeOK
<1>1. ASSUME NetworkInv, PacketInv PROVE TypeOK
    <2>1. NetworkTypeOK /\ PacketTypes
        BY <1>1 DEF NetworkInv, TypeInv, PacketInv
    <2>2. \A c \in Conns : \A k \in 1..Len(packets[c]) : ReplyKept(c, k)
        BY <1>1 DEF PacketInv
    <2>3. \A c \in Conns : DOMAIN packets[c] = 1..Len(packets[c])
        BY <2>1, PacketFacts
    <2>4. \A c \in Conns : \A k \in DOMAIN packets[c] :
            packets[c][k].function = "LkUpReply" =>
                packets[c][k].tuples # {} /\ Fits(packets[c][k].tuples)
        BY <2>2, <2>3 DEF ReplyKept
    <2> QED
        BY <2>1, <2>4 DEF PacketTypes, TypeOK
<1> QED
    BY <1>1, NamesInvariant, NetworkUnderneath, PTL

(* Replies go back to the asker and name what was asked for, and all of it *)
(* that was there when the lookup was sent: plugin.py:51-119.              *)
THEOREM RepliesFaithful == Spec => []ReplyFaithful
<1>1. ASSUME PacketInv PROVE ReplyFaithful
    <2>1. \A c \in Conns : DOMAIN packets[c] = 1..Len(packets[c])
        BY <1>1, PacketFacts DEF PacketInv
    <2>2. \A c \in Conns : \A k \in DOMAIN packets[c] : ReplyKept(c, k)
        BY <1>1, <2>1 DEF PacketInv
    <2> QED
        BY <2>2 DEF ReplyKept, ReplyFaithful
<1> QED
    BY <1>1, NamesInvariant, PTL

(* Under the name binding protocol, too: the switch's table is right,      *)
(* listeners stay, and datagrams are neither invented, repeated,           *)
(* misdelivered nor reordered.                                             *)
THEOREM NamesTableRight == Spec => []Directory
BY NetworkUnderneath, TableRight, PTL

THEOREM NamesListenersStay == Spec => []ListenerStays
BY NetworkUnderneath, ListenersKeepTheirPlace, PTL

THEOREM NamesOverDatagrams == Spec => DatagramSpec
BY NetworkUnderneath, SwitchImplementsDatagrams, PTL

-------------------------------------------------------------------------------
(* Rest.  A handler that drains at rest drains into a connection whose own *)
(* handler drains, while the node there waits to go on with a reply.       *)

WaitsFor(c, s) ==
    LET t == target[c]
    IN  /\ handler[c] = "draining" /\ t \in s /\ Full(down[t])
        /\ phase[Owner(t)] = "draining" /\ Full(up[t])

Circle == \E s \in SUBSET Conns : s # {} /\ \A c \in s : WaitsFor(c, s)

Draining == {c \in Conns : handler[c] = "draining"}

(* A full queue is not empty.                                              *)
LEMMA FullFacts ==
    ASSUME TypeInv, NEW c \in Conns
    PROVE  (Full(up[c]) => up[c] # <<>>) /\ (Full(down[c]) => down[c] # <<>>)
<1>1. Len(up[c]) \in Nat /\ Len(down[c]) \in Nat
    BY FlowTypes
<1>2. ~Full(<<>>)
    BY EmptyFacts, SwitchNodeAssumption DEF Full
<1> QED
    BY <1>2

(* At rest a connection open at the node is open at the switch, and is     *)
(* read to the end unless its handler drains.                              *)
LEMMA OpenAtRest ==
    ASSUME NetworkInv, AtRest, NEW c \in Conns, client[c] = "open"
    PROVE  /\ Owner(c) \in Nodes /\ c = Current(Owner(c))
           /\ server[c] = "open" /\ phase[Owner(c)] \in {"reading", "draining"}
           /\ \/ handler[c] = "reading" /\ up[c] = <<>>
              \/ handler[c] = "draining"
           /\ phase[Owner(c)] = "reading" => down[c] = <<>>
           /\ phase[Owner(c)] = "draining" => Full(up[c])
<1> DEFINE n == Owner(c)
<1>1. /\ n \in Nodes /\ Number(c) = life[n] /\ c = <<n, Number(c)>> /\ phase[n] # "idle"
      /\ Number(c) \in 1..MaxLife
    BY ConnParts DEF NetworkInv, EndsAgree
<1>2. c = Current(n) /\ life[n] # 0
    BY <1>1 DEF Current
<1> HIDE DEF n
<1>3. websocket[n]
    BY <1>1, <1>2 DEF NetworkInv, EndsOpen, WebsocketOpen
<1>4. NodeRests(n) /\ SwitchRests(c)
    BY <1>1 DEF AtRest
<1>5. server[c] # "closed"
    BY <1>2, <1>3, <1>4 DEF NodeRests
<1>6. handler[c] # "ended"
    BY <1>5 DEF NetworkInv, EndsAgree
<1>7. server[c] = "open"
    BY <1>6 DEF NetworkInv, EndsOpen, HandlerOpen
<1>8. phase[n] # "connecting"
    <2>1. NotYet(c) => client[c] = "none"
        BY DEF NetworkInv, Fresh
    <2> QED
        BY <1>1, <2>1 DEF NotYet, n
<1>9. handler[c] # "none"
    BY DEF NetworkInv, Fresh
<1>10. /\ handler[c] \in {"none", "reading", "draining", "ended"}
       /\ phase[n] \in {"idle", "connecting", "reading", "handling", "draining"}
    BY <1>1 DEF NetworkInv, TypeInv, NetworkTypeOK
<1>11. /\ phase[n] # "handling"
       /\ phase[n] = "reading" => down[c] = <<>>
       /\ phase[n] = "draining" => Full(up[c])
    BY <1>2, <1>4 DEF NodeRests
<1>12. handler[c] = "reading" => up[c] = <<>>
    BY <1>4 DEF SwitchRests
<1> QED
    BY <1>1, <1>2, <1>6, <1>7, <1>8, <1>9, <1>10, <1>11, <1>12 DEF n

(* At rest a connection that the node has left, or was dropped from, is    *)
(* ended unless its handler drains.                                        *)
LEMMA ClosedAtRest ==
    ASSUME NetworkInv, AtRest, NEW c \in Conns, client[c] # "open"
    PROVE  /\ server[c] # "open"
           /\ handler[c] \in {IF client[c] = "none" THEN "none" ELSE "ended", "draining"}
<1>1. /\ client[c] \in {"none", "open", "left", "dropped"}
      /\ handler[c] \in {"none", "reading", "draining", "ended"}
      /\ server[c] \in {"none", "open", "closed"}
    BY DEF NetworkInv, TypeInv, NetworkTypeOK
<1>2. SwitchRests(c)
    BY DEF AtRest
<1>3. CASE client[c] = "none"
    <2>1. handler[c] = "none"
        BY <1>3 DEF NetworkInv, EndsOpen, HandlerOpen
    <2>2. server[c] = "none"
        BY <2>1 DEF NetworkInv, Fresh
    <2> QED
        BY <1>3, <2>1, <2>2
<1>4. CASE client[c] # "none"
    <2>1. handler[c] # "none" /\ server[c] # "none"
        BY <1>4 DEF NetworkInv, Fresh
    <2>2. client[c] = "left" => server[c] # "open"
        BY <1>2 DEF SwitchRests
    <2>3. client[c] = "dropped" => server[c] = "closed"
        BY DEF NetworkInv, EndsAgree
    <2>4. server[c] = "closed"
        BY <1>1, <1>4, <2>1, <2>2, <2>3
    <2>5. handler[c] # "reading"
        BY <1>2, <2>4 DEF SwitchRests
    <2> QED
        BY <1>1, <1>4, <2>1, <2>4, <2>5
<1> QED
    BY <1>3, <1>4

LEMMA DrainingWaits ==
    ASSUME NetworkInv, AtRest, NEW c \in Draining
    PROVE  WaitsFor(c, Draining)
<1> DEFINE t == target[c]
<1>1. c \in Conns /\ handler[c] = "draining" /\ SwitchRests(c) /\ t \in Conns
    BY DEF Draining, AtRest, NetworkInv, TypeInv, NetworkTypeOK
<1>2. server[t] = "open" /\ Full(down[t])
    BY <1>1 DEF SwitchRests
<1> HIDE DEF t
<1>3. client[t] = "open"
    BY <1>1, <1>2, ClosedAtRest
<1>4. down[t] # <<>>
    BY <1>1, <1>2, FullFacts DEF NetworkInv
<1>5. phase[Owner(t)] = "draining" /\ Full(up[t])
    BY <1>1, <1>3, <1>4, OpenAtRest
<1>6. up[t] # <<>>
    BY <1>1, <1>5, FullFacts DEF NetworkInv
<1>7. t \in Draining
    BY <1>1, <1>3, <1>6, OpenAtRest DEF Draining
<1> QED
    BY <1>1, <1>2, <1>5, <1>7 DEF WaitsFor, t

LEMMA RestQuiet ==
    ASSUME NetworkInv, AtRest, Draining = {}
    PROVE  Quiet
<1>0. \A c \in Conns : handler[c] # "draining"
    BY DEF Draining
<1>1. ASSUME NEW c \in Conns
      PROVE  /\ handler[c] = IF client[c] = "open" THEN "reading"
                             ELSE IF client[c] = "none" THEN "none" ELSE "ended"
             /\ server[c] = "open" => up[c] = <<>> /\ down[c] = <<>>
    <2>1. CASE client[c] = "open"
        <3>1. handler[c] = "reading" /\ up[c] = <<>>
            BY <1>0, <1>1, <2>1, OpenAtRest
        <3>2. phase[Owner(c)] = "reading"
            BY <1>1, <2>1, <3>1, OpenAtRest, FullFacts DEF NetworkInv
        <3>3. down[c] = <<>>
            BY <1>1, <2>1, <3>2, OpenAtRest
        <3> QED
            BY <2>1, <3>1, <3>3
    <2>2. CASE client[c] # "open"
        BY <1>0, <1>1, <2>2, ClosedAtRest
    <2> QED
        BY <2>1, <2>2
<1>2. ASSUME NEW n \in Nodes PROVE phase[n] \in {"idle", "reading"}
    <2>1. phase[n] \in {"idle", "connecting", "reading", "handling", "draining"} /\ NodeRests(n)
        BY <1>2 DEF NetworkInv, TypeInv, NetworkTypeOK, AtRest
    <2>2. phase[n] # "handling"
        BY <2>1 DEF NodeRests
    <2>3. phase[n] # "connecting"
        <3> SUFFICES ASSUME phase[n] = "connecting" PROVE FALSE
            OBVIOUS
        <3>1. PICK k \in 1..(life[n] - 1) : handler[<<n, k>>] = "reading" /\ <<n, k>> \notin named
            BY <2>1 DEF NodeRests
        <3>2. life[n] \in 0..MaxLife
            BY <1>2 DEF NetworkInv, TypeInv, NetworkTypeOK
        <3>3. k \in 1..MaxLife
            BY <3>2, SwitchNodeAssumption
        <3>4. <<n, k>> \in Conns
            BY <3>3, ConnParts
        <3>5. up[<<n, k>>] # <<>>
            BY <3>1, <3>4 DEF NetworkInv, Names, RegisterFirst
        <3> QED
            BY <3>1, <3>4, <3>5 DEF AtRest, SwitchRests
    <2>4. phase[n] # "draining"
        <3> SUFFICES ASSUME phase[n] = "draining" PROVE FALSE
            OBVIOUS
        <3>1. client[Current(n)] = "open" /\ Full(up[Current(n)])
            BY <2>1 DEF NodeRests
        <3>2. Current(n) \in Conns
            BY <1>2, CurrentConn DEF NetworkInv, TypeInv, HasRun
        <3>3. up[Current(n)] # <<>>
            BY <3>1, <3>2, FullFacts DEF NetworkInv
        <3> QED
            BY <1>0, <3>1, <3>2, <3>3, OpenAtRest
    <2> QED
        BY <2>1, <2>2, <2>3, <2>4
<1> QED
    BY <1>1, <1>2 DEF Quiet

(* Whatever the queues, lookups and restarts: when nothing goes on of      *)
(* itself any more and all is not done, handlers of the switch wait in a   *)
(* circle, each for a node to read that waits for one of these handlers to *)
(* read its reply: switch.py:34 and node.py:97-106.                        *)
THEOREM StuckOnlyInCircle == Spec => [](AtRest => Quiet \/ Circle)
<1>1. ASSUME NetworkInv, AtRest, Draining # {} PROVE Circle
    <2>1. Draining \in SUBSET Conns
        BY DEF Draining
    <2>2. \A c \in Draining : WaitsFor(c, Draining)
        BY <1>1, DrainingWaits
    <2> QED
        BY <1>1, <2>1, <2>2 DEF Circle
<1>2. NetworkInv => (AtRest => Quiet \/ Circle)
    BY <1>1, RestQuiet
<1> QED
    BY <1>2, NetworkUnderneath, PTL

(* Who asks and who answers: a reply that waits is an answer, and a lookup *)
(* is one that a program makes.                                            *)

Answering ==
    \A n \in Nodes : phase[n] = "draining" =>
        \E k \in 1..Len(packets[Current(n)]) :
            packets[Current(n)][k].function = "LkUpReply"

Asking ==
    \A c \in Conns : \A k \in 1..Len(packets[c]) : packets[c][k].function = "LkUp" =>
        \E l \in Lookups : l[1] = Owner(c) /\ l[2] = sent[c][k]

Roles == Answering /\ Asking

LEMMA InitRoles == Init => Roles
<1> SUFFICES ASSUME Init PROVE Roles
    OBVIOUS
<1>1. /\ \A n \in Nodes : phase[n] = "idle"
      /\ \A c \in Conns : packets[c] = <<>>
    BY DEF Init, SwitchInit
<1> QED
    BY <1>1, EmptyFacts DEF Roles, Answering, Asking

(* Only a reply begins to wait; it goes on in its run.                     *)
LEMMA DrainingFacts ==
    ASSUME TypeInv, NEW n \in Nodes, phase'[n] = "draining",
           \/ NetworkStep
           \/ \E m \in Nodes : Program(m) \/ Handled(m) \/ Crash(m)
                                \/ \E d \in Addresses : Send(m, d)
           \/ UNCHANGED networkVars
    PROVE  phase[n] = "draining" /\ Current(n)' = Current(n)
<1>t. phase \in [Nodes -> {"idle", "connecting", "reading", "handling", "draining"}]
      /\ life \in [Nodes -> 0..MaxLife]
    BY DEF TypeInv, NetworkTypeOK
<1>1. ASSUME NEW m \in Nodes,
             Run(m) \/ Connected(m) \/ ConnectFails(m) \/ Replied(m) \/ Handled(m) \/ Receive(m)
               \/ ReadEnds(m) \/ Dropped(m) \/ Stop(m) \/ Disconnect(m) \/ Crash(m)
      PROVE  phase[n] = "draining" /\ life'[n] = life[n]
    <2>1. CASE Run(m)
        BY <1>t, <2>1 DEF Run
    <2>2. CASE Connected(m) \/ ConnectFails(m) \/ Replied(m) \/ Handled(m)
        BY <1>t, <2>2 DEF Connected, ConnectFails, Replied, Handled
    <2>3. CASE Receive(m) \/ ReadEnds(m) \/ Crash(m)
        BY <1>t, <2>3 DEF Receive, ReadEnds, Crash, Leave
    <2>4. CASE Dropped(m) \/ Stop(m) \/ Disconnect(m)
        BY <2>4 DEF Dropped, Stop, Disconnect
    <2> QED
        BY <1>1, <2>1, <2>2, <2>3, <2>4
<1>2. ASSUME NEW m \in Nodes, NEW d \in Addresses, Send(m, d)
      PROVE  phase' = phase /\ life' = life
    BY <1>2 DEF Send, nodeVars
<1>3. ASSUME NEW c \in Conns, SwitchStep(c) PROVE phase' = phase /\ life' = life
    BY <1>3 DEF SwitchStep, HandleRegister, Drop, Forward, Drained, ForwardFails,
                DrainFails, LoopEnds, Closed, HandlerReturns, nodeVars
<1>4. UNCHANGED networkVars => phase' = phase /\ life' = life
    BY DEF networkVars, nodeVars
<1>5. phase[n] = "draining" /\ life'[n] = life[n]
    BY <1>1, <1>2, <1>3, <1>4 DEF NetworkStep, NodeStep, Program
<1> QED
    BY <1>5 DEF Current

LEMMA RolesFrame ==
    ASSUME TypeInv, Roles, UNCHANGED <<sent, packets>>,
           \/ NetworkStep
           \/ \E m \in Nodes : Program(m) \/ Handled(m) \/ Crash(m)
           \/ UNCHANGED networkVars
    PROVE  Roles'
<1>1. Answering'
    <2> SUFFICES ASSUME NEW n \in Nodes, phase'[n] = "draining"
                 PROVE  \E k \in 1..Len(packets'[Current(n)']) :
                            packets'[Current(n)'][k].function = "LkUpReply"
        BY DEF Answering
    <2>1. phase[n] = "draining" /\ Current(n)' = Current(n)
        BY DrainingFacts
    <2> QED
        BY <2>1 DEF Roles, Answering
<1>2. Asking'
    BY DEF Roles, Asking
<1> QED
    BY <1>1, <1>2 DEF Roles

(* A node sends a packet of which what Roles says is true.                 *)
LEMMA CarryRoles ==
    ASSUME NetworkInv, PacketTypes, Roles, NEW n \in Nodes, NEW d \in Addresses,
           NEW p \in Packets, Carry(n, p),
           \/ /\ Send(n, d) /\ p.function = "LkUp"
              /\ \E l \in Lookups : l[1] = n /\ l[2] = d
           \/ Reply(n, d) /\ p.function = "LkUpReply"
    PROVE  Roles'
<1> DEFINE z == Current(n)
<1>0. Sending(n, d)
    BY DEF Send, Reply
<1>1. /\ z \in Conns /\ Owner(z) = n
      /\ \A c \in Conns : \A i \in 1..Len(packets[c]) :
            /\ i \in 1..Len(packets'[c])
            /\ packets'[c][i] = packets[c][i] /\ sent'[c][i] = sent[c][i]
      /\ \A c \in Conns : \A i \in 1..Len(packets'[c]) :
            \/ i \in 1..Len(packets[c])
            \/ c = z /\ packets'[c][i] = p /\ sent'[c][i] = d
    BY <1>0, CarryFacts, SMTT(30)
<1>2. Asking'
    <2> SUFFICES ASSUME NEW c \in Conns, NEW k \in 1..Len(packets'[c]),
                        packets'[c][k].function = "LkUp"
                 PROVE  \E l \in Lookups : l[1] = Owner(c) /\ l[2] = sent'[c][k]
        BY DEF Asking
    <2>1. CASE k \in 1..Len(packets[c])
        <3>1. packets'[c][k] = packets[c][k] /\ sent'[c][k] = sent[c][k]
            BY <1>1, <2>1
        <3> QED
            BY <2>1, <3>1 DEF Roles, Asking
    <2>2. CASE c = z /\ packets'[c][k] = p /\ sent'[c][k] = d
        BY <1>1, <2>2
    <2> QED
        BY <1>1, <2>1, <2>2
<1>3. Answering'
    <2> SUFFICES ASSUME NEW m \in Nodes, phase'[m] = "draining"
                 PROVE  \E k \in 1..Len(packets'[Current(m)']) :
                            packets'[Current(m)'][k].function = "LkUpReply"
        BY DEF Answering
    <2>1. Current(m)' = Current(m)
        BY DEF Send, Reply, nodeVars, Current
    <2>2. CASE phase[m] = "draining"
        <3>1. Current(m) \in Conns
            BY <2>2, CurrentConn DEF NetworkInv, TypeInv, HasRun
        <3>2. PICK k \in 1..Len(packets[Current(m)]) :
                packets[Current(m)][k].function = "LkUpReply"
            BY <2>2 DEF Roles, Answering
        <3>3. /\ k \in 1..Len(packets'[Current(m)])
              /\ packets'[Current(m)][k] = packets[Current(m)][k]
            BY <1>1, <3>1, <3>2
        <3> QED
            BY <2>1, <3>2, <3>3
    <2>3. CASE phase[m] # "draining"
        <3>1. Reply(n, d) /\ m = n
            BY <2>3, DrainingFacts DEF Reply, NetworkInv, TypeInv, NetworkTypeOK
        <3>2. packets[z] \in Seq(Packets) /\ packets'[z] = Append(packets[z], p)
            BY <1>1 DEF Carry, PacketTypes
        <3> HIDE DEF z
        <3>3. /\ Len(packets[z]) \in Nat /\ Len(packets'[z]) = Len(packets[z]) + 1
              /\ packets'[z][Len(packets[z]) + 1] = p
            BY <3>2, SeqFacts
        <3>4. Len(packets[z]) + 1 \in 1..Len(packets'[z])
            BY <3>3
        <3>5. p.function = "LkUpReply"
            BY <3>1 DEF Send, Reply, nodeVars, NetworkInv, TypeInv, NetworkTypeOK
        <3> QED
            BY <2>1, <3>1, <3>3, <3>4, <3>5 DEF z
    <2> QED
        BY <2>2, <2>3
<1> QED
    BY <1>2, <1>3 DEF Roles

(* The lookups of a program and the answers to them.                       *)

TableOf(n) == [nodes EXCEPT ![n] = 0]

DueTo(n, l) ==
    UNION {Replies(l[3], registry[d]) : d \in {m \in Nodes : m = l[2] /\ TableOf(n)[m] # 0}}

LEMMA RequestFacts ==
    ASSUME NetworkInv, PacketTypes, NEW n \in Nodes, Lookup(n)
    PROVE  \E l \in Lookups : \E p \in Packets :
            /\ l[1] = n /\ l[2] \in Addresses /\ l[3] \in Seq(Patterns)
            /\ Send(n, l[2]) /\ Carry(n, p) /\ UNCHANGED registry
            /\ p.function = "LkUp" /\ p.tuples = l[3] /\ p.table = TableOf(n)
            /\ p.due = DueTo(n, l)
<1>1. PICK l \in Lookups :
        /\ l[1] = n /\ Send(n, l[2]) /\ UNCHANGED registry
        /\ Carry(n, Request(l[3], TableOf(n), DueTo(n, l)))
    BY DEF Lookup, TableOf, DueTo
<1> DEFINE p == Request(l[3], TableOf(n), DueTo(n, l))
<1>2. l[2] \in Addresses /\ l[3] \in Seq(Patterns)
    BY AppleTalkAssumption
<1>3. TableOf(n) \in [Nodes -> 0..MaxLife]
    BY SwitchNodeAssumption DEF NetworkInv, TypeInv, NetworkTypeOK, TableOf
<1>4. \A d \in Nodes : Replies(l[3], registry[d]) \subseteq Nat \X Services
    BY <1>2, RepliesFacts DEF PacketTypes
<1>5. DueTo(n, l) \in SUBSET (Nat \X Services)
    BY <1>4 DEF DueTo
<1>6. p = [function |-> "LkUp", tuples |-> l[3], table |-> TableOf(n), due |-> DueTo(n, l)]
    BY DEF Request
<1>7. p \in Packets
    BY <1>2, <1>3, <1>5, <1>6 DEF Packets
<1> QED
    BY <1>1, <1>2, <1>6, <1>7

LEMMA AnswerFacts ==
    ASSUME NetworkInv, PacketInv, NEW n \in Nodes, HandleLookup(n)
    PROVE  LET m == inbox[n]
               d == Owner(m.from)
           IN  \E p \in Packets :
                /\ d \in Addresses /\ Reply(n, d) /\ Carry(n, p) /\ UNCHANGED registry
                /\ p.function = "LkUpReply" /\ p.question = m
<1> DEFINE m == inbox[n]
           p == LkUpReply(m, Answer(n))
           d == Owner(m.from)
<1>1. /\ phase[n] = "handling" /\ Reply(n, d) /\ Carry(n, p) /\ UNCHANGED registry
      /\ Asked(n)
    BY DEF HandleLookup
<1>2. m \in Messages /\ m.from \in Conns /\ m.num \in 1..Len(packets[m.from]) /\ d \in Nodes
    BY <1>1, HandlingInbox DEF PacketInv, PacketTypes
<1>3. Question(n).tuples \in Seq(Patterns)
    BY <1>1, <1>2, PacketFacts DEF PacketInv, Asked, Question
<1>4. Answer(n) \in SUBSET (Nat \X Services)
    BY <1>3, RepliesFacts DEF Answer, PacketInv, PacketTypes
<1>5. p \in Packets /\ p.function = "LkUpReply" /\ p.question = m
    BY <1>2, <1>4 DEF LkUpReply, Packets
<1> HIDE DEF p
<1> QED
    BY <1>1, <1>2, <1>5 DEF Addresses

(* The steps of Next by what they do to the datagrams.                     *)
LEMMA QuietSteps ==
    ASSUME [Next]_vars,
           \A n \in Nodes : ~Lookup(n) /\ ~HandleLookup(n)
    PROVE  /\ UNCHANGED <<sent, packets>>
           /\ \/ NetworkStep
              \/ \E m \in Nodes : Program(m) \/ Handled(m) \/ Crash(m)
              \/ UNCHANGED networkVars
<1>1. ASSUME NEW n \in Nodes, Program(n) \/ Handled(n) \/ Crash(n) PROVE UNCHANGED sent
    BY <1>1 DEF Program, Run, ConnectFails, Stop, Disconnect, Handled, Crash, historyVars
<1>2. ASSUME NetworkStep PROVE UNCHANGED sent
    <2>1. ASSUME NEW n \in Nodes, NodeStep(n) PROVE UNCHANGED sent
        BY <2>1 DEF NodeStep, Connected, Receive, Replied, ReadEnds, Dropped, historyVars
    <2>2. ASSUME NEW c \in Conns, SwitchStep(c) PROVE UNCHANGED sent
        BY <2>2 DEF SwitchStep, HandleRegister, Drop, Forward, Drained, ForwardFails,
                    DrainFails, LoopEnds, Closed, HandlerReturns, historyVars
    <2> QED
        BY <1>2, <2>1, <2>2 DEF NetworkStep
<1>3. UNCHANGED networkVars => UNCHANGED sent
    BY DEF networkVars, historyVars
<1>4. CASE Underway
    BY <1>1, <1>2, <1>4 DEF Underway, Handle, HandleSilently, appleVars
<1>5. CASE \E n \in Nodes : Users(n)
    BY <1>1, <1>3, <1>5 DEF Users, RegisterService, Die, appleVars
<1>6. CASE UNCHANGED vars
    BY <1>3, <1>6 DEF vars, appleVars
<1> QED
    BY <1>4, <1>5, <1>6 DEF Next

LEMMA NextRoles == NetworkInv /\ PacketInv /\ Roles /\ [Next]_vars => Roles'
<1> SUFFICES ASSUME NetworkInv, PacketInv, Roles, [Next]_vars PROVE Roles'
    OBVIOUS
<1>0. PacketTypes
    BY DEF PacketInv
<1>1. ASSUME NEW n \in Nodes, Lookup(n) PROVE Roles'
    <2>0. \E l \in Lookups : \E p \in Packets :
            /\ l[1] = n /\ l[2] \in Addresses /\ Send(n, l[2]) /\ Carry(n, p)
            /\ p.function = "LkUp"
        BY <1>0, <1>1, RequestFacts
    <2>1. PICK l \in Lookups, p \in Packets :
            /\ l[1] = n /\ l[2] \in Addresses /\ Send(n, l[2]) /\ Carry(n, p)
            /\ p.function = "LkUp"
        BY <2>0
    <2> QED
        BY <1>0, <2>1, CarryRoles
<1>2. ASSUME NEW n \in Nodes, HandleLookup(n) PROVE Roles'
    <2> DEFINE d == Owner(inbox[n].from)
    <2>1. PICK p \in Packets : /\ d \in Addresses /\ Reply(n, d) /\ Carry(n, p)
                               /\ p.function = "LkUpReply"
        BY <1>2, AnswerFacts
    <2> HIDE DEF d
    <2> QED
        BY <1>0, <2>1, CarryRoles
<1>3. CASE \A n \in Nodes : ~Lookup(n) /\ ~HandleLookup(n)
    BY <1>3, QuietSteps, RolesFrame DEF NetworkInv
<1> QED
    BY <1>1, <1>2, <1>3

LEMMA RolesInvariant == Spec => []Roles
BY InitRoles, NextRoles, NamesInvariant, NetworkUnderneath, PTL DEF Spec

(* A node whose reply waits has been asked, and one that sent a datagram   *)
(* to a node has asked it or was asked by it.                              *)
LEMMA WasAsked ==
    ASSUME NetworkInv, PacketInv, Roles, NEW n \in Nodes, phase[n] = "draining"
    PROVE  \E l \in Lookups : l[2] = n
<1> DEFINE z == Current(n)
<1>1. z \in Conns /\ Owner(z) = n
    BY CurrentConn DEF NetworkInv, TypeInv, HasRun
<1>2. PICK k \in 1..Len(packets[z]) : packets[z][k].function = "LkUpReply"
    BY DEF Roles, Answering
<1> DEFINE q == packets[z][k].question
<1>3. q \in Messages
    BY <1>1, <1>2, PacketFacts DEF PacketInv
<1>4. /\ q.num \in 1..Len(packets[q.from]) /\ packets[q.from][q.num].function = "LkUp"
      /\ sent[q.from][q.num] = n
    BY <1>1, <1>2 DEF PacketInv, ReplyKept
<1>5. q.from \in Conns
    BY <1>3 DEF Messages
<1> HIDE DEF q
<1> QED
    BY <1>4, <1>5 DEF Roles, Asking

LEMMA SentTo ==
    ASSUME NetworkInv, PacketInv, Roles, NEW c \in Conns, NEW k \in 1..Len(sent[c])
    PROVE  \E l \in Lookups : l[1] = Owner(c) \/ l[1] = sent[c][k]
<1>1. k \in 1..Len(packets[c])
    BY DEF PacketInv, PacketTypes
<1>2. CASE packets[c][k].function = "LkUp"
    BY <1>1, <1>2 DEF Roles, Asking
<1>3. CASE packets[c][k].function = "LkUpReply"
    <2> DEFINE q == packets[c][k].question
    <2>1. q \in Messages
        BY <1>1, <1>3, PacketFacts DEF PacketInv
    <2>2. /\ q.num \in 1..Len(packets[q.from]) /\ packets[q.from][q.num].function = "LkUp"
          /\ sent[c][k] = Owner(q.from)
        BY <1>1, <1>3 DEF PacketInv, ReplyKept
    <2>3. q.from \in Conns
        BY <2>1 DEF Messages
    <2> HIDE DEF q
    <2> QED
        BY <2>2, <2>3 DEF Roles, Asking
<1> QED
    BY <1>1, <1>2, <1>3, PacketFacts DEF PacketInv

(* When nobody who asks is asked, no circle closes and the network comes   *)
(* to rest only when all is done.                                          *)
THEOREM NamesNothingStuck ==
    ASSUME \A l, m \in Lookups : l[2] # m[1]
    PROVE  Spec => []NothingStuck
<1>1. ASSUME NetworkInv, PacketInv, Roles, AtRest PROVE Draining = {}
    <2> SUFFICES ASSUME NEW c \in Draining PROVE FALSE
        OBVIOUS
    <2>1. WaitsFor(c, Draining)
        BY <1>1, DrainingWaits
    <2> DEFINE t == target[c]
               u == target[t]
    <2>2. t \in Draining /\ phase[Owner(t)] = "draining"
        BY <2>1 DEF WaitsFor
    <2>3. WaitsFor(t, Draining)
        BY <1>1, <2>2, DrainingWaits
    <2>4. u \in Draining /\ phase[Owner(u)] = "draining"
        BY <2>3 DEF WaitsFor
    <2>5. t \in Conns /\ u \in Conns /\ handler[t] = "draining"
        BY <2>2, <2>4 DEF Draining
    <2>6. PICK k \in 1..Len(sent[t]) : sent[t][k] = Owner(u)
        BY <1>1, <2>5 DEF NetworkInv, EndsOpen, DrainsSent
    <2>7. /\ \E l \in Lookups : l[2] = Owner(t)
          /\ \E l \in Lookups : l[2] = Owner(u)
        BY <1>1, <2>2, <2>4, <2>5, ConnParts, WasAsked
    <2>8. \E l \in Lookups : l[1] = Owner(t) \/ l[1] = Owner(u)
        BY <1>1, <2>5, <2>6, SentTo
    <2> QED
        BY <2>7, <2>8
<1>2. NetworkInv /\ PacketInv /\ Roles => NothingStuck
    BY <1>1, RestQuiet DEF NothingStuck
<1> QED
    BY <1>2, RolesInvariant, NamesInvariant, NetworkUnderneath, PTL

-------------------------------------------------------------------------------
(* Registries are finite, so that what matches more than fits into a reply *)
(* goes on doing so while the node asked stays.                            *)

RegistryFinite == \A n \in Nodes : IsFiniteSet(registry[n])

LEMMA RepliesFinite ==
    ASSUME NEW ps \in Seq(Patterns), NEW s \in SUBSET Services, IsFiniteSet(s)
    PROVE  IsFiniteSet(Replies(ps, s)) /\ Cardinality(Replies(ps, s)) \in Nat
<1>1. DOMAIN ps = 1..Len(ps) /\ 1 \in Int /\ Len(ps) \in Int
    OBVIOUS
<1>2. IsFiniteSet(DOMAIN ps)
    BY <1>1, FS_Interval
<1>3. IsFiniteSet((DOMAIN ps) \X s)
    BY <1>2, FS_Product
<1>4. Replies(ps, s) \in SUBSET ((DOMAIN ps) \X s)
    BY DEF Replies
<1> QED
    BY <1>3, <1>4, FS_Subset, FS_CardinalityType

(* What fits into a reply still does with tuples taken away.               *)
LEMMA FitsLess ==
    ASSUME NEW S, IsFiniteSet(S), S \subseteq Nat \X Services, NEW T \in SUBSET S, Fits(S)
    PROVE  Fits(T)
<1> DEFINE Positions(R) == UNION {{x} \X (1..Size[x[2]]) : x \in R}
           All == {{x} \X (1..Size[x[2]]) : x \in S}
<1>1. IsFiniteSet(All)
    <2> DEFINE f == [x \in S |-> {x} \X (1..Size[x[2]])]
    <2>1. f \in [S -> All] /\ \A P \in All : \E x \in S : f[x] = P
        OBVIOUS
    <2> HIDE DEF f
    <2>2. f \in Surjection(S, All)
        BY <2>1 DEF Surjection
    <2> QED
        BY <2>2, FS_Surjection
<1>2. ASSUME NEW P \in All PROVE IsFiniteSet(P)
    <2>1. PICK x \in S : P = {x} \X (1..Size[x[2]])
        OBVIOUS
    <2>2. Size[x[2]] \in Int /\ 1 \in Int
        BY AppleTalkAssumption
    <2>3. IsFiniteSet(1..Size[x[2]]) /\ IsFiniteSet({x})
        BY <2>2, FS_Interval, FS_Singleton
    <2> QED
        BY <2>1, <2>3, FS_Product
<1>3. IsFiniteSet(Positions(S))
    BY <1>1, <1>2, FS_UNION
<1>4. Positions(T) \in SUBSET Positions(S)
    OBVIOUS
<1> HIDE DEF Positions, All
<1>5. /\ Cardinality(Positions(T)) <= Cardinality(Positions(S))
      /\ Cardinality(T) <= Cardinality(S)
      /\ IsFiniteSet(Positions(T)) /\ IsFiniteSet(T)
    BY <1>3, <1>4, FS_Subset
<1>6. /\ Cardinality(Positions(T)) \in Nat /\ Cardinality(Positions(S)) \in Nat
      /\ Cardinality(T) \in Nat /\ Cardinality(S) \in Nat
      /\ MaxTuples \in Nat /\ MaxReply \in Nat
    BY <1>3, <1>5, FS_CardinalityType, AppleTalkAssumption
<1>7. Bytes(T) = Cardinality(Positions(T)) /\ Bytes(S) = Cardinality(Positions(S))
    BY DEF Bytes, Positions
<1> QED
    BY <1>5, <1>6, <1>7 DEF Fits

LEMMA OverfullStays ==
    ASSUME PacketTypes, RegistryFinite, PacketTypes', RegistryFinite',
           NEW n \in Nodes, registry[n] \subseteq registry'[n],
           NEW ps \in Seq(Patterns), ~Fits(Replies(ps, registry[n]))
    PROVE  ~Fits(Replies(ps, registry'[n]))
<1> DEFINE s == registry[n]
           u == registry'[n]
<1>1. s \in SUBSET Services /\ IsFiniteSet(s) /\ u \in SUBSET Services /\ IsFiniteSet(u)
      /\ s \subseteq u
    BY DEF PacketTypes, RegistryFinite
<1> HIDE DEF s, u
<1>2. IsFiniteSet(Replies(ps, u)) /\ Replies(ps, s) \subseteq Replies(ps, u)
      /\ Replies(ps, u) \subseteq Nat \X Services
    BY <1>1, RepliesFinite, RepliesFacts
<1>3. ~Fits(Replies(ps, s))
    BY DEF s
<1>4. ~Fits(Replies(ps, u))
    BY <1>2, <1>3, FitsLess
<1> QED
    BY <1>4 DEF u

LEMMA InitFinite == Init => RegistryFinite
BY FS_EmptySet DEF Init, RegistryFinite

(* A registry grows by a service at a time or goes with its node.          *)
LEMMA RegistrySteps ==
    ASSUME PacketTypes, [Next]_vars, NEW n \in Nodes
    PROVE  \/ registry'[n] = registry[n]
           \/ \E s \in Services : registry'[n] = registry[n] \cup {s}
           \/ registry'[n] = {} /\ Die(n)
<1>r. registry \in [Nodes -> SUBSET Services]
    BY DEF PacketTypes
<1>1. ASSUME NEW m \in Nodes, RegisterService(m)
      PROVE  \E s \in Services : registry'[n] = registry[n] \cup {s}
                                    \/ registry'[n] = registry[n]
    <2>1. PICK s \in Offers[m] : registry' = [registry EXCEPT ![m] = @ \cup {s}]
        BY <1>1 DEF RegisterService
    <2>2. s \in Services
        BY AppleTalkAssumption
    <2> QED
        BY <1>r, <2>1, <2>2
<1>2. ASSUME NEW m \in Nodes, Die(m)
      PROVE  registry'[n] = registry[n] \/ (registry'[n] = {} /\ m = n)
    BY <1>r, <1>2 DEF Die
<1>3. ASSUME NEW m \in Nodes, Lookup(m) \/ Handle(m) PROVE registry' = registry
    BY <1>3 DEF Lookup, Handle, HandleLookup, HandleSilently, appleVars
<1>4. CASE Underway
    BY <1>3, <1>4 DEF Underway, appleVars
<1>5. CASE \E m \in Nodes : Users(m)
    BY <1>1, <1>2, <1>3, <1>5 DEF Users, appleVars
<1>6. CASE UNCHANGED vars
    BY <1>6 DEF vars, appleVars
<1> QED
    BY <1>4, <1>5, <1>6 DEF Next

LEMMA NextFinite == PacketTypes /\ RegistryFinite /\ [Next]_vars => RegistryFinite'
<1> SUFFICES ASSUME PacketTypes, RegistryFinite, [Next]_vars, NEW n \in Nodes
             PROVE  IsFiniteSet(registry'[n])
    BY DEF RegistryFinite
<1>1. IsFiniteSet(registry[n]) /\ IsFiniteSet({})
    BY FS_EmptySet DEF RegistryFinite
<1>2. \A s : IsFiniteSet(registry[n] \cup {s})
    BY <1>1, FS_AddElement
<1> QED
    BY <1>1, <1>2, RegistrySteps

-------------------------------------------------------------------------------
(* Where a lookup is, and where its reply: while asker and asked keep      *)
(* their connections, on its way to the switch, to the node asked, in its  *)
(* hands, or answered, unless more matches than fits; and the reply on     *)
(* its way to the switch, to the asker, or arrived.                        *)

In(queue, m) == \E i \in 1..Len(queue) : queue[i] = m

Live(c) == client[c] = "open" /\ handler[c] # "ended"

Sought(c, k) == packets[c][k].function = "LkUp" /\ packets[c][k].due # {}

(* The connection of the node that lookup k of connection c asks.          *)
AskedOver(c, k) == <<sent[c][k], packets[c][k].table[sent[c][k]]>>

ReplyTo(c, k, e, l) ==
    packets[e][l].function = "LkUpReply" /\ packets[e][l].question = Message(c, k)

ReplyOnWay(c, k, e, l) ==
    /\ ReplyTo(c, k, e, l)
    /\ \/ In(up[e], Message(e, l)) \/ In(down[c], Message(e, l))
       \/ In(arrived[e][Owner(c)], l)

Handling(n, m) == phase[n] = "handling" /\ inbox[n] = m

OnWay(c, k) ==
    LET d == sent[c][k]
        e == AskedOver(c, k)
    IN  \/ In(up[c], Message(c, k))
        \/ /\ c \in named
           /\ \/ In(down[e], Message(c, k))
              \/ Handling(d, Message(c, k))
              \/ Overfull(d, packets[c][k].tuples)
              \/ \E l \in 1..Len(packets[e]) : ReplyOnWay(c, k, e, l)

LookupKept(c, k) ==
    Sought(c, k) =>
        /\ sent[c][k] \in Nodes /\ AskedOver(c, k) \in named
        /\ Live(c) /\ Live(AskedOver(c, k)) => OnWay(c, k)

LookupInv == \A c \in Conns : \A k \in 1..Len(packets[c]) : LookupKept(c, k)

LEMMA InAppend ==
    ASSUME NEW T, NEW q \in Seq(T), NEW x \in T
    PROVE  In(Append(q, x), x) /\ \A m : In(q, m) => In(Append(q, x), m)
<1>1. /\ Len(q) \in Nat /\ Len(Append(q, x)) = Len(q) + 1 /\ Append(q, x)[Len(q) + 1] = x
      /\ \A i \in 1..Len(q) : Append(q, x)[i] = q[i]
    OBVIOUS
<1>2. Len(q) + 1 \in 1..Len(Append(q, x)) /\ \A i \in 1..Len(q) : i \in 1..Len(Append(q, x))
    BY <1>1
<1> QED
    BY <1>1, <1>2 DEF In

LEMMA InTail ==
    ASSUME NEW T, NEW q \in Seq(T), q # <<>>
    PROVE  \A m : In(q, m) => m = Head(q) \/ In(Tail(q), m)
<1> SUFFICES ASSUME NEW i \in 1..Len(q), i # 1
             PROVE  \E j \in 1..Len(Tail(q)) : Tail(q)[j] = q[i]
    BY DEF In
<1>1. Len(q) \in Nat /\ Len(Tail(q)) = Len(q) - 1
      /\ \A j \in 1..Len(Tail(q)) : Tail(q)[j] = q[j + 1]
    OBVIOUS
<1>2. i - 1 \in 1..Len(Tail(q)) /\ (i - 1) + 1 = i
    BY <1>1
<1> QED
    BY <1>1, <1>2

LEMMA InTypes ==
    ASSUME TypeInv, NEW c \in Conns, NEW m, In(up[c], m) \/ In(down[c], m)
    PROVE  m \in Messages /\ m.from \in Conns
BY FlowTypes DEF In

(* A connection that is live after a step was before, or is new.           *)
LEMMA StillLive ==
    ASSUME TypeInv, Fresh, [SwitchNext]_networkVars, NEW c \in Conns, Live(c)'
    PROVE  Live(c) \/ (handler[c] = "none" /\ client[c] = "none")
<1>t. /\ client \in [Conns -> {"none", "open", "left", "dropped"}]
      /\ handler \in [Conns -> {"none", "reading", "draining", "ended"}]
    BY DEF TypeInv, NetworkTypeOK
<1>0. client'[c] = "open" /\ handler'[c] # "ended"
    BY DEF Live
<1>1. ASSUME NEW n \in Nodes, Connected(n)
      PROVE  Live(c) \/ (handler[c] = "none" /\ client[c] = "none")
    <2> DEFINE z == Current(n)
    <2>1. /\ z \in Conns /\ Owner(z) = n /\ Number(z) = life[n] /\ phase[n] = "connecting"
          /\ client' = [client EXCEPT ![z] = "open"]
          /\ handler' = [handler EXCEPT ![z] = "reading"]
        BY <1>1, CurrentConn DEF Connected, TypeInv, HasRun
    <2> HIDE DEF z
    <2>2. CASE c = z
        <3>1. NotYet(c)
            BY <2>1, <2>2 DEF NotYet
        <3> QED
            BY <3>1 DEF Fresh
    <2>3. CASE c # z
        BY <1>t, <1>0, <2>1, <2>3 DEF Live
    <2> QED
        BY <2>2, <2>3
<1>2. ASSUME NEW n \in Nodes,
             Run(n) \/ ConnectFails(n) \/ Replied(n) \/ Handled(n) \/ Receive(n)
               \/ ReadEnds(n) \/ Dropped(n) \/ Stop(n) \/ Disconnect(n) \/ Crash(n)
      PROVE  Live(c)
    <2>1. handler' = handler
        BY <1>2 DEF Run, ConnectFails, Replied, Handled, Receive, ReadEnds, Dropped, Stop,
                    Disconnect, Crash, switchVars
    <2>2. client'[c] = client[c] \/ client'[c] \in {"left", "dropped"}
        <3>1. CASE Run(n) \/ ConnectFails(n) \/ Replied(n) \/ Handled(n) \/ Stop(n)
            BY <3>1 DEF Run, ConnectFails, Replied, Handled, Stop
        <3>2. CASE Dropped(n) \/ Disconnect(n)
            BY <1>t, <3>2 DEF Dropped, Disconnect
        <3>3. CASE Leave(n)
            BY <1>t, <3>3 DEF Leave
        <3>4. CASE Receive(n) /\ ~Leave(n)
            BY <3>4 DEF Receive
        <3> QED
            BY <1>2, <3>1, <3>2, <3>3, <3>4 DEF ReadEnds, Crash
    <2> QED
        BY <1>0, <2>1, <2>2 DEF Live
<1>3. ASSUME NEW x \in Conns, SwitchStep(x) PROVE Live(c)
    <2>1. client' = client
        BY <1>3 DEF SwitchStep, HandleRegister, Drop, Forward, Drained, ForwardFails,
                    DrainFails, LoopEnds, Closed, HandlerReturns, nodeVars
    <2>2. handler'[c] = handler[c] \/ handler[c] # "ended" \/ handler'[c] = "ended"
        <3>1. CASE HandlerReturns(x)
            BY <1>t, <3>1 DEF HandlerReturns
        <3>2. CASE Forward(x) \/ Drained(x)
            BY <1>t, <3>2 DEF Forward, Drained, Reading
        <3>3. CASE HandleRegister(x) \/ Drop(x) \/ Closed(x)
            BY <3>3 DEF HandleRegister, Drop, Closed, switchVars
        <3> QED
            BY <1>3, <3>1, <3>2, <3>3 DEF SwitchStep, ForwardFails, DrainFails, LoopEnds
    <2> QED
        BY <1>0, <2>1, <2>2 DEF Live
<1>4. ASSUME NEW n \in Nodes, NEW d \in Addresses, Send(n, d) \/ Reply(n, d)
      PROVE  Live(c)
    BY <1>0, <1>4 DEF Send, Reply, switchVars, nodeVars, Live
<1>5. CASE UNCHANGED networkVars
    BY <1>0, <1>5 DEF networkVars, switchVars, nodeVars, Live
<1> QED
    BY <1>1, <1>2, <1>3, <1>4, <1>5 DEF SwitchNext, NetworkStep, NodeStep, Program

(* What is known of a lookup whose two connections are live.               *)
LEMMA LiveFacts ==
    ASSUME NetworkInv, NEW c \in Conns, Live(c)
    PROVE  /\ Owner(c) \in Nodes /\ c = Current(Owner(c)) /\ c = <<Owner(c), Number(c)>>
           /\ Number(c) = life[Owner(c)] /\ life[Owner(c)] # 0
           /\ phase[Owner(c)] # "idle" /\ phase[Owner(c)] # "connecting"
           /\ websocket[Owner(c)] /\ server[c] = "open"
           /\ c \in named => nodes[Owner(c)] = Number(c)
<1>1. /\ Owner(c) \in Nodes /\ c = <<Owner(c), Number(c)>> /\ Number(c) \in 1..MaxLife
      /\ client[c] = "open" /\ handler[c] # "ended"
    BY ConnParts DEF Live
<1>2. Number(c) = life[Owner(c)] /\ phase[Owner(c)] # "idle"
    BY <1>1 DEF NetworkInv, EndsAgree
<1>3. c = Current(Owner(c)) /\ life[Owner(c)] # 0
    BY <1>1, <1>2 DEF Current
<1>4. phase[Owner(c)] # "connecting"
    <2>1. NotYet(c) => client[c] = "none"
        BY DEF NetworkInv, Fresh
    <2> QED
        BY <1>1, <1>2, <2>1 DEF NotYet
<1>5. websocket[Owner(c)]
    BY <1>1, <1>3 DEF NetworkInv, EndsOpen, WebsocketOpen
<1>6. server[c] = "open"
    BY <1>1 DEF NetworkInv, EndsOpen, HandlerOpen
<1>7. c \in named => nodes[Owner(c)] = Number(c)
    BY <1>1, <1>2, <1>3 DEF NetworkInv, Names, Directory
<1> QED
    BY <1>1, <1>2, <1>3, <1>4, <1>5, <1>6, <1>7

(* A lookup that is owed an answer, over connection c as datagram k, to    *)
(* node d over connection e.                                               *)
LookupAt(c, k, d, e) ==
    /\ c \in Conns /\ k \in 1..Len(packets[c]) /\ Sought(c, k)
    /\ d = sent[c][k] /\ d \in Nodes /\ e = AskedOver(c, k) /\ e \in named
    /\ Live(c) /\ Live(e) /\ OnWay(c, k)

LEMMA AtFacts ==
    ASSUME NetworkInv, PacketInv, NEW c, NEW k, NEW d, NEW e, LookupAt(c, k, d, e)
    PROVE  /\ c \in Conns /\ e \in Conns /\ k \in Nat \ {0} /\ k \in 1..Len(sent[c])
           /\ e = <<d, nodes[d]>> /\ nodes[d] # 0 /\ e = Current(d) /\ Owner(e) = d
           /\ Owner(c) \in Nodes /\ c = Current(Owner(c))
           /\ c \in named => c = <<Owner(c), nodes[Owner(c)]>> /\ nodes[Owner(c)] # 0
           /\ packets[c][k].tuples \in Seq(Patterns)
           /\ phase[d] \notin {"idle", "connecting"}
           /\ server[c] = "open" /\ server[e] = "open" /\ websocket[d]
           /\ \A l \in 1..Len(packets[e]) :
                /\ l \in 1..Len(sent[e]) /\ l \in Nat \ {0}
                /\ ReplyTo(c, k, e, l) => sent[e][l] = Owner(c)
<1>1. /\ c \in Conns /\ k \in 1..Len(packets[c]) /\ Sought(c, k) /\ d = sent[c][k]
      /\ d \in Nodes /\ e = AskedOver(c, k) /\ e \in named /\ Live(c) /\ Live(e)
    BY DEF LookupAt
<1>2. e \in Conns
    BY <1>1 DEF NetworkInv, TypeInv, NetworkTypeOK
<1>3. Owner(e) = d
    BY <1>1 DEF AskedOver, Owner
<1>4. k \in Nat \ {0} /\ k \in 1..Len(sent[c]) /\ packets[c][k].tuples \in Seq(Patterns)
    BY <1>1, PacketFacts DEF PacketInv, PacketTypes, Sought
<1>5. /\ e = Current(d) /\ e = <<d, nodes[d]>> /\ nodes[d] # 0 /\ server[e] = "open"
      /\ phase[d] \notin {"idle", "connecting"} /\ websocket[d]
    BY <1>1, <1>2, <1>3, LiveFacts
<1>6. /\ Owner(c) \in Nodes /\ c = Current(Owner(c)) /\ server[c] = "open"
      /\ c \in named => c = <<Owner(c), nodes[Owner(c)]>> /\ nodes[Owner(c)] # 0
    BY <1>1, LiveFacts
<1>7. ASSUME NEW l \in 1..Len(packets[e])
      PROVE  /\ l \in 1..Len(sent[e]) /\ l \in Nat \ {0}
             /\ ReplyTo(c, k, e, l) => sent[e][l] = Owner(c)
    <2>1. l \in 1..Len(sent[e]) /\ ReplyKept(e, l) /\ l \in Nat \ {0}
        BY <1>2, <1>7, PacketFacts DEF PacketInv, PacketTypes
    <2>2. ASSUME ReplyTo(c, k, e, l)
          PROVE  sent[e][l] = Owner(c)
        <3>1. sent[e][l] = Owner(packets[e][l].question.from)
            BY <2>1, <2>2 DEF ReplyKept, ReplyTo
        <3>2. packets[e][l].question.from = c
            BY <2>2 DEF Message, ReplyTo
        <3> QED
            BY <3>1, <3>2
    <2> QED
        BY <2>1, <2>2
<1> QED
    BY <1>1, <1>2, <1>3, <1>4, <1>5, <1>6, <1>7

(* What a step may do to a lookup.                                         *)
LEMMA WayFrame ==
    ASSUME NEW c, NEW k, NEW d, NEW e, LookupAt(c, k, d, e), e \in Conns,
           \A x \in Conns : \A i \in 1..Len(packets[x]) :
                /\ i \in 1..Len(packets'[x])
                /\ packets'[x][i] = packets[x][i] /\ sent'[x][i] = sent[x][i],
           named \subseteq named',
           In(up[c], Message(c, k)) => \/ In(up'[c], Message(c, k))
                                       \/ c \in named' /\ In(down'[e], Message(c, k)),
           In(down[e], Message(c, k)) =>
                In(down'[e], Message(c, k)) \/ Handling(d, Message(c, k))',
           c \in named /\ Handling(d, Message(c, k)) =>
                \/ Handling(d, Message(c, k))' \/ Overfull(d, packets[c][k].tuples)'
                \/ \E l \in 1..Len(packets'[e]) : ReplyOnWay(c, k, e, l)',
           Overfull(d, packets[c][k].tuples) =>
                ~Fits(Replies(packets[c][k].tuples, registry'[d])),
           \A l \in 1..Len(packets[e]) :
                c \in named /\ ReplyTo(c, k, e, l) =>
                    /\ In(up[e], Message(e, l)) =>
                            In(up'[e], Message(e, l)) \/ In(down'[c], Message(e, l))
                    /\ In(down[c], Message(e, l)) =>
                            In(down'[c], Message(e, l)) \/ In(arrived'[e][Owner(c)], l)
                    /\ In(arrived[e][Owner(c)], l) => In(arrived'[e][Owner(c)], l)
    PROVE  OnWay(c, k)'
<1> DEFINE m == Message(c, k)
           ts == packets[c][k].tuples
<1>1. /\ c \in Conns /\ k \in 1..Len(packets[c]) /\ d = sent[c][k]
      /\ e = AskedOver(c, k) /\ OnWay(c, k)
    BY DEF LookupAt
<1>2. packets'[c][k] = packets[c][k] /\ sent'[c][k] = d /\ AskedOver(c, k)' = e
    <2>1. packets'[c][k] = packets[c][k] /\ sent'[c][k] = sent[c][k]
        BY <1>1
    <2> QED
        BY <1>1, <2>1 DEF AskedOver
<1> SUFFICES \/ In(up'[c], m)
             \/ /\ c \in named'
                /\ \/ In(down'[e], m) \/ Handling(d, m)'
                   \/ ~Fits(Replies(ts, registry'[d]))
                   \/ \E l \in 1..Len(packets'[e]) : ReplyOnWay(c, k, e, l)'
    BY <1>2 DEF OnWay, Overfull, ReplyOnWay, ReplyTo, Message
<1>3. CASE In(up[c], m)
    BY <1>3
<1>4. CASE c \in named /\ (In(down[e], m) \/ Overfull(d, ts))
    BY <1>4
<1>5. CASE c \in named /\ Handling(d, m)
    <2>1. Overfull(d, ts)' => ~Fits(Replies(ts, registry'[d]))
        BY <1>2 DEF Overfull
    <2> QED
        BY <1>5, <2>1
<1>6. CASE c \in named /\ \E l \in 1..Len(packets[e]) : ReplyOnWay(c, k, e, l)
    <2>1. PICK l \in 1..Len(packets[e]) : ReplyOnWay(c, k, e, l)
        BY <1>6
    <2>2. l \in 1..Len(packets'[e]) /\ packets'[e][l] = packets[e][l]
        OBVIOUS
    <2>3. ReplyOnWay(c, k, e, l)'
        BY <1>6, <2>1, <2>2 DEF ReplyOnWay, ReplyTo, Message
    <2> QED
        BY <1>6, <2>2, <2>3
<1> QED
    BY <1>1, <1>3, <1>4, <1>5, <1>6 DEF OnWay

(* A handler reads a message: every other one stays in its queue.          *)
LEMMA ConsumeIn ==
    ASSUME TypeInv, NEW x \in Conns, Reading(x), Consume(x)
    PROVE  \A c \in Conns : \A m : In(up[c], m) => In(up'[c], m) \/ (c = x /\ m = Unread(x))
<1>1. up[x] \in Seq(Messages) /\ up[x] # <<>>
    BY FlowTypes DEF Reading
<1>2. up'[x] = Tail(up[x]) /\ \A c \in Conns : c # x => up'[c] = up[c]
    BY DEF Consume, TypeInv, NetworkTypeOK
<1>3. \A m : In(up[x], m) => m = Unread(x) \/ In(up'[x], m)
    BY <1>1, <1>2, InTail DEF Unread
<1> QED
    BY <1>2, <1>3

(* The switch routes a lookup to the connection asked, and its reply back. *)
LEMMA RouteAt ==
    ASSUME NetworkInv, PacketInv, NEW c, NEW k, NEW d, NEW e, LookupAt(c, k, d, e),
           NEW x \in Conns, Reading(x)
    PROVE  /\ x = c /\ Unread(x) = Message(c, k) =>
                Unread(x).num # 0 /\ Known(x) /\ Route(x) = e /\ c \in named
           /\ \A l \in 1..Len(packets[e]) :
                c \in named /\ x = e /\ Unread(x) = Message(e, l) /\ ReplyTo(c, k, e, l) =>
                    Unread(x).num # 0 /\ Known(x) /\ Route(x) = c
<1>0. d = sent[c][k] /\ d \in Nodes
    BY DEF LookupAt
<1>f. /\ k # 0 /\ e = <<d, nodes[d]>> /\ nodes[d] # 0 /\ Owner(c) \in Nodes
      /\ c \in named => c = <<Owner(c), nodes[Owner(c)]>> /\ nodes[Owner(c)] # 0
      /\ \A l \in 1..Len(packets[e]) :
            /\ l # 0
            /\ ReplyTo(c, k, e, l) => sent[e][l] = Owner(c)
    BY AtFacts
<1>1. ASSUME x = c, Unread(x) = Message(c, k)
      PROVE  Unread(x).num # 0 /\ Known(x) /\ Route(x) = e /\ c \in named
    <2>1. Unread(x).num = k /\ Destination(Unread(x)) = d
        BY <1>0, <1>1 DEF Message, Destination
    <2>2. c \in named
        BY <1>1, <1>f, <2>1, DatagramNamed DEF NetworkInv
    <2> QED
        BY <1>0, <1>f, <2>1, <2>2 DEF Known, Route
<1>2. ASSUME NEW l \in 1..Len(packets[e]), c \in named, x = e, Unread(x) = Message(e, l),
             ReplyTo(c, k, e, l)
      PROVE  Unread(x).num # 0 /\ Known(x) /\ Route(x) = c
    <2>1. Unread(x).num = l /\ Destination(Unread(x)) = Owner(c)
        BY <1>2, <1>f DEF Message, Destination
    <2> QED
        BY <1>2, <1>f, <2>1 DEF Known, Route
<1> QED
    BY <1>1, <1>2

LEMMA SwitchWay ==
    ASSUME NetworkInv, PacketInv, UNCHANGED appleVars,
           NEW c, NEW k, NEW d, NEW e, LookupAt(c, k, d, e),
           NEW x \in Conns, SwitchStep(x), Live(c)', Live(e)'
    PROVE  OnWay(c, k)'
<1>f. c \in Conns /\ e \in Conns
    BY AtFacts
<1>1. UNCHANGED <<sent, packets, registry, phase, inbox, arrived>>
    BY DEF SwitchStep, HandleRegister, Drop, Forward, Drained, ForwardFails, DrainFails,
           LoopEnds, Closed, HandlerReturns, nodeVars, historyVars, appleVars
<1>2. named \subseteq named'
    BY DEF SwitchStep, HandleRegister, Drop, Forward, Drained, ForwardFails, DrainFails,
           LoopEnds, Closed, HandlerReturns, switchVars
<1>t. handler \in [Conns -> {"none", "reading", "draining", "ended"}]
      /\ down \in [Conns -> Seq(Messages)]
    BY DEF NetworkInv, TypeInv, NetworkTypeOK
<1> DEFINE Kept ==
        /\ In(up[c], Message(c, k)) => \/ In(up'[c], Message(c, k))
                                       \/ c \in named' /\ In(down'[e], Message(c, k))
        /\ In(down[e], Message(c, k)) => In(down'[e], Message(c, k))
        /\ \A l \in 1..Len(packets[e]) :
                c \in named /\ ReplyTo(c, k, e, l) =>
                    /\ In(up[e], Message(e, l)) =>
                            In(up'[e], Message(e, l)) \/ In(down'[c], Message(e, l))
                    /\ In(down[c], Message(e, l)) => In(down'[c], Message(e, l))
<1> SUFFICES Kept
    <2>1. Handling(d, Message(c, k)) => Handling(d, Message(c, k))'
        BY <1>1 DEF Handling, Message
    <2>2. Overfull(d, packets[c][k].tuples) =>
                ~Fits(Replies(packets[c][k].tuples, registry'[d]))
        BY <1>1 DEF Overfull
    <2>3. /\ \A y \in Conns : \A i \in 1..Len(packets[y]) :
                /\ i \in 1..Len(packets'[y])
                /\ packets'[y][i] = packets[y][i] /\ sent'[y][i] = sent[y][i]
          /\ \A l : In(arrived[e][Owner(c)], l) => In(arrived'[e][Owner(c)], l)
        BY <1>1
    <2> QED
        BY <1>f, <1>2, <2>1, <2>2, <2>3, WayFrame
<1>3. CASE HandleRegister(x)
    <2>1. Reading(x) /\ Consume(x) /\ down' = down /\ Unread(x).num = 0
        BY <1>3 DEF HandleRegister
    <2>2. \A y \in Conns : \A m : In(up[y], m) => In(up'[y], m) \/ (y = x /\ m = Unread(x))
        BY <2>1, ConsumeIn DEF NetworkInv
    <2> QED
        BY <1>f, <2>1, <2>2, RouteAt
<1>4. CASE Drop(x)
    <2>1. Reading(x) /\ Consume(x) /\ down' = down /\ ~Known(x)
        BY <1>4 DEF Drop
    <2>2. \A y \in Conns : \A m : In(up[y], m) => In(up'[y], m) \/ (y = x /\ m = Unread(x))
        BY <2>1, ConsumeIn DEF NetworkInv
    <2> QED
        BY <1>f, <2>1, <2>2, RouteAt
<1>5. CASE Forward(x)
    <2>1. Reading(x) /\ Consume(x) /\ Deliver(x) /\ Known(x) /\ Unread(x).num # 0
        BY <1>5 DEF Forward
    <2>2. \A y \in Conns : \A m : In(up[y], m) => In(up'[y], m) \/ (y = x /\ m = Unread(x))
        BY <2>1, ConsumeIn DEF NetworkInv
    <2>3. Unread(x) \in Messages /\ Route(x) \in Conns
        <3>1. up[x] \in Seq(Messages) /\ up[x] # <<>>
            BY <2>1, FlowTypes DEF Reading, NetworkInv
        <3>2. Head(up[x]) \in Messages
            BY <3>1
        <3>3. Route(x) \in Conns
            BY <2>1, ForwardedSent DEF NetworkInv
        <3> QED
            BY <3>2, <3>3 DEF Unread
    <2>4. /\ In(down'[Route(x)], Unread(x))
          /\ \A y \in Conns : \A m : In(down[y], m) => In(down'[y], m)
        <3>1. /\ down'[Route(x)] = Append(down[Route(x)], Unread(x))
              /\ \A y \in Conns : y # Route(x) => down'[y] = down[y]
            BY <1>t, <2>1, <2>3 DEF Deliver
        <3>2. down[Route(x)] \in Seq(Messages)
            BY <1>t, <2>3
        <3>3. /\ In(down'[Route(x)], Unread(x))
              /\ \A m : In(down[Route(x)], m) => In(down'[Route(x)], m)
            BY <2>3, <3>1, <3>2, InAppend
        <3> QED
            BY <3>1, <3>3
    <2>5. x = c /\ Unread(x) = Message(c, k) => Route(x) = e /\ c \in named
        BY <2>1, RouteAt
    <2>6. \A l \in 1..Len(packets[e]) :
            c \in named /\ x = e /\ Unread(x) = Message(e, l) /\ ReplyTo(c, k, e, l) =>
                Route(x) = c
        BY <2>1, RouteAt
    <2>7. ASSUME In(up[c], Message(c, k))
          PROVE  \/ In(up'[c], Message(c, k))
                 \/ c \in named' /\ In(down'[e], Message(c, k))
        BY <1>f, <1>2, <2>2, <2>4, <2>5, <2>7
    <2>8. ASSUME NEW l \in 1..Len(packets[e]), c \in named,
                 ReplyTo(c, k, e, l), In(up[e], Message(e, l))
          PROVE  In(up'[e], Message(e, l)) \/ In(down'[c], Message(e, l))
        BY <1>f, <2>2, <2>4, <2>6, <2>8
    <2> QED
        BY <1>f, <2>4, <2>7, <2>8
<1>6. CASE HandlerReturns(x) /\ (ForwardFails(x) \/ DrainFails(x) \/ LoopEnds(x))
    <2>1. handler'[x] = "ended" /\ down' = down
        BY <1>t, <1>6 DEF HandlerReturns
    <2>2. x # c /\ x # e
        BY <2>1 DEF Live
    <2>3. up'[c] = up[c] /\ up'[e] = up[e]
        BY <1>f, <1>6, <2>2
           DEF ForwardFails, Consume, DrainFails, LoopEnds, NetworkInv, TypeInv, NetworkTypeOK
    <2>4. /\ \A m : In(up[c], m) => In(up'[c], m)
          /\ \A m : In(up[e], m) => In(up'[e], m)
          /\ \A y \in Conns : \A m : In(down[y], m) => In(down'[y], m)
        BY <2>1, <2>3
    <2> QED
        BY <1>f, <2>4
<1>7. CASE Drained(x) \/ Closed(x)
    <2>1. UNCHANGED <<up, down>>
        BY <1>7 DEF Drained, Closed, wireVars
    <2>2. /\ \A m : In(up[c], m) => In(up'[c], m)
          /\ \A m : In(up[e], m) => In(up'[e], m)
          /\ \A y \in Conns : \A m : In(down[y], m) => In(down'[y], m)
        BY <2>1
    <2> QED
        BY <1>f, <2>2
<1> QED
    BY <1>3, <1>4, <1>5, <1>6, <1>7 DEF SwitchStep, ForwardFails, DrainFails, LoopEnds

(* A node goes on, ends or begins; if it is one of the two, it stays.      *)
LEMMA NodeWay ==
    ASSUME NetworkInv, PacketInv, UNCHANGED packets,
           NEW c, NEW k, NEW d, NEW e, LookupAt(c, k, d, e), Live(c)', Live(e)',
           NEW n \in Nodes,
           \/ /\ UNCHANGED registry
              /\ \/ Run(n) \/ Connected(n) \/ ConnectFails(n) \/ Replied(n)
                 \/ ReadEnds(n) \/ Dropped(n) \/ Stop(n) \/ Disconnect(n)
           \/ Die(n)
    PROVE  OnWay(c, k)'
<1>f. /\ c \in Conns /\ e \in Conns /\ e = Current(d) /\ d \in Nodes /\ Owner(c) \in Nodes
      /\ c = Current(Owner(c)) /\ Owner(e) = d
    BY AtFacts DEF LookupAt
<1>g. /\ phase[d] # "connecting" /\ phase[Owner(c)] # "connecting"
      /\ phase[d] # "idle"
    BY <1>f, AtFacts, LiveFacts DEF LookupAt
<1>t. /\ phase \in [Nodes -> {"idle", "connecting", "reading", "handling", "draining"}]
      /\ inbox \in [Nodes -> Messages \cup {NoMessage}]
      /\ client \in [Conns -> {"none", "open", "left", "dropped"}]
      /\ registry \in [Nodes -> SUBSET Services] /\ up \in [Conns -> Seq(Messages)]
    BY DEF NetworkInv, TypeInv, NetworkTypeOK, PacketInv, PacketTypes
<1>1. UNCHANGED <<sent, down, arrived, named>>
    BY DEF Run, Connected, ConnectFails, Replied, ReadEnds, Dropped, Stop, Disconnect, Die,
           Crash, switchVars, wireVars, historyVars
<1>2. up'[c] = up[c] /\ up'[e] = up[e]
    <2>1. CASE Connected(n)
        <3>1. up' = [up EXCEPT ![Current(n)] = <<Message(Current(n), 0)>>]
              /\ phase[n] = "connecting"
            BY <2>1 DEF Connected
        <3>2. Owner(c) # n /\ d # n
            BY <1>g, <3>1
        <3>3. Current(n) # c /\ Current(n) # e
            BY <1>f, <3>2 DEF Current, Owner
        <3> QED
            BY <1>t, <1>f, <3>1, <3>3
    <2>2. CASE ~Connected(n)
        <3>1. up' = up
            BY <2>2 DEF Run, ConnectFails, Replied, ReadEnds, Dropped, Stop, Disconnect, Die,
                        Crash, wireVars
        <3> QED
            BY <3>1
    <2> QED
        BY <2>1, <2>2
<1>3. ~(n = d /\ Leave(n))
    <2>1. n = d /\ Leave(n) => client'[e] # "open"
        BY <1>t, <1>f DEF Leave
    <2> QED
        BY <2>1 DEF Live
<1>4. Handling(d, Message(c, k)) => Handling(d, Message(c, k))'
    <2> SUFFICES ASSUME phase[d] = "handling"
                 PROVE  phase'[d] = phase[d] /\ inbox'[d] = inbox[d]
        BY DEF Handling, Message
    <2>1. CASE Run(n) \/ Connected(n) \/ ConnectFails(n) \/ Replied(n)
        <3>1. /\ phase[n] # "handling" /\ inbox' = inbox
              /\ \A y \in Nodes : y # n => phase'[y] = phase[y]
            BY <1>t, <2>1 DEF Run, Connected, ConnectFails, Replied
        <3> QED
            BY <1>f, <3>1
    <2>2. CASE Leave(n)
        BY <1>t, <1>3, <1>f, <2>2 DEF Leave
    <2>3. CASE Dropped(n) \/ Stop(n) \/ Disconnect(n)
        BY <2>3 DEF Dropped, Stop, Disconnect
    <2> QED
        BY <2>1, <2>2, <2>3 DEF ReadEnds, Die, Crash
<1>5. registry'[d] = registry[d]
    <2>1. Die(n) => n # d
        BY <1>3 DEF Die, Crash
    <2> QED
        BY <1>t, <1>f, <2>1 DEF Die
<1>6. Overfull(d, packets[c][k].tuples) =>
            ~Fits(Replies(packets[c][k].tuples, registry'[d]))
    BY <1>5 DEF Overfull
<1>7. \A y \in Conns : \A i \in 1..Len(packets[y]) :
            /\ i \in 1..Len(packets'[y])
            /\ packets'[y][i] = packets[y][i] /\ sent'[y][i] = sent[y][i]
    BY <1>1
<1> QED
    BY <1>f, <1>1, <1>2, <1>4, <1>6, <1>7, WayFrame

LEMMA RegisterWay ==
    ASSUME NetworkInv, PacketInv, UNCHANGED <<networkVars, packets>>,
           PacketTypes', RegistryFinite, RegistryFinite',
           NEW c, NEW k, NEW d, NEW e, LookupAt(c, k, d, e),
           registry[d] \subseteq registry'[d]
    PROVE  OnWay(c, k)'
<1>f. c \in Conns /\ e \in Conns /\ d \in Nodes /\ packets[c][k].tuples \in Seq(Patterns)
    BY AtFacts DEF LookupAt
<1>1. UNCHANGED <<sent, arrived, up, down, named, phase, inbox>>
    BY DEF networkVars, switchVars, nodeVars, wireVars, historyVars
<1>2. Overfull(d, packets[c][k].tuples) =>
            ~Fits(Replies(packets[c][k].tuples, registry'[d]))
    BY <1>f, OverfullStays DEF Overfull, PacketInv
<1>3. Handling(d, Message(c, k)) => Handling(d, Message(c, k))'
    BY <1>1 DEF Handling, Message
<1>4. \A y \in Conns : \A i \in 1..Len(packets[y]) :
            /\ i \in 1..Len(packets'[y])
            /\ packets'[y][i] = packets[y][i] /\ sent'[y][i] = sent[y][i]
    BY <1>1
<1> QED
    BY <1>f, <1>1, <1>2, <1>3, <1>4, WayFrame

(* The node asked takes the lookup, the asker the reply.                   *)
LEMMA ReceiveWay ==
    ASSUME NetworkInv, PacketInv, UNCHANGED appleVars,
           NEW c, NEW k, NEW d, NEW e, LookupAt(c, k, d, e), Live(c)', Live(e)',
           NEW n \in Nodes, Receive(n)
    PROVE  OnWay(c, k)'
<1> DEFINE z == Current(n)
           m == Head(down[z])
<1>f. /\ c \in Conns /\ e \in Conns /\ e = Current(d) /\ d \in Nodes /\ Owner(c) \in Nodes
      /\ c = Current(Owner(c)) /\ Owner(e) = d
    BY AtFacts DEF LookupAt
<1>t. /\ phase \in [Nodes -> {"idle", "connecting", "reading", "handling", "draining"}]
      /\ inbox \in [Nodes -> Messages \cup {NoMessage}]
      /\ client \in [Conns -> {"none", "open", "left", "dropped"}]
      /\ down \in [Conns -> Seq(Messages)]
      /\ arrived \in [Conns -> [Nodes -> Seq(Nat)]]
    BY DEF NetworkInv, TypeInv, NetworkTypeOK
<1>1. /\ z \in Conns /\ Owner(z) = n /\ m \in Messages /\ m.from \in Conns /\ m.num \in Nat
    BY ReceiveFacts DEF NetworkInv
<1>2. UNCHANGED <<sent, up, named, packets, registry>>
    BY DEF Receive, switchVars, appleVars
<1>3. /\ phase[n] = "reading" /\ down[z] # <<>> /\ down[z] \in Seq(Messages)
      /\ down'[z] = Tail(down[z])
      /\ \A y \in Conns : y # z => down'[y] = down[y]
    BY <1>t, <1>1 DEF Receive
<1>4. \A y \in Conns : \A x : In(down[y], x) => In(down'[y], x) \/ (y = z /\ x = m)
    <2> HIDE DEF z
    <2>1. \A x : In(down[z], x) => x = Head(down[z]) \/ In(Tail(down[z]), x)
        BY <1>3, InTail
    <2> QED
        BY <1>3, <2>1
<1>5. /\ \A y \in Nodes : y # n => phase'[y] = phase[y] /\ inbox'[y] = inbox[y]
    BY <1>t DEF Receive, Leave
<1>6. Handling(d, Message(c, k)) => Handling(d, Message(c, k))'
    BY <1>3, <1>5, <1>f DEF Handling, Message
<1>7. Overfull(d, packets[c][k].tuples) =>
            ~Fits(Replies(packets[c][k].tuples, registry'[d]))
    BY <1>2 DEF Overfull
<1>8. \A y \in Conns : \A i \in 1..Len(packets[y]) :
            /\ i \in 1..Len(packets'[y])
            /\ packets'[y][i] = packets[y][i] /\ sent'[y][i] = sent[y][i]
    BY <1>2
<1>9. CASE Leave(n)
    <2>1. client'[z] # "open"
        BY <1>t, <1>1, <1>9 DEF Leave
    <2>2. z # c /\ z # e
        BY <2>1 DEF Live
    <2>3. arrived' = arrived
        <3>1. phase'[n] = "idle"
            BY <1>t, <1>9 DEF Leave
        <3>2. phase' # [phase EXCEPT ![n] = "handling"]
            BY <1>t, <3>1
        <3> QED
            BY <3>2 DEF Receive
    <2>4. In(down[e], Message(c, k)) => In(down'[e], Message(c, k))
        BY <1>f, <1>4, <2>2
    <2>5. \A l : In(down[c], Message(e, l)) => In(down'[c], Message(e, l))
        BY <1>f, <1>4, <2>2
    <2> QED
        BY <1>f, <1>2, <1>6, <1>7, <1>8, <2>3, <2>4, <2>5, WayFrame
<1>10. CASE ~Leave(n)
    <2>1. /\ phase'[n] = "handling" /\ inbox'[n] = m
          /\ arrived' = [arrived EXCEPT ![m.from][n] = Append(@, m.num)]
        BY <1>t, <1>10 DEF Receive
    <2> HIDE DEF m
    <2>2. /\ arrived'[m.from][n] = Append(arrived[m.from][n], m.num)
          /\ \A x \in Conns, y \in Nodes : x # m.from \/ y # n => arrived'[x][y] = arrived[x][y]
        BY <1>t, <1>1, <2>1
    <2>3. /\ In(arrived'[m.from][n], m.num)
          /\ \A x \in Conns, y \in Nodes : \A l :
                In(arrived[x][y], l) => In(arrived'[x][y], l)
        <3>1. arrived[m.from][n] \in Seq(Nat)
            BY <1>t, <1>1
        <3>2. /\ In(arrived'[m.from][n], m.num)
              /\ \A l : In(arrived[m.from][n], l) => In(arrived'[m.from][n], l)
            BY <1>1, <2>2, <3>1, InAppend
        <3> QED
            BY <2>2, <3>2
    <2>4. In(down[e], Message(c, k)) =>
            In(down'[e], Message(c, k)) \/ Handling(d, Message(c, k))'
        <3>1. e = z => d = n
            BY <1>1, <1>f
        <3> QED
            BY <1>4, <1>f, <2>1, <3>1 DEF Handling, Message
    <2>5. \A l : In(down[c], Message(e, l)) =>
            In(down'[c], Message(e, l)) \/ In(arrived'[e][Owner(c)], l)
        <3> SUFFICES ASSUME NEW l, c = z, Message(e, l) = m
                     PROVE  In(arrived'[e][Owner(c)], l)
            BY <1>4, <1>f
        <3>1. m.from = e /\ m.num = l /\ Owner(c) = n
            BY <1>1 DEF Message
        <3> QED
            BY <2>3, <3>1
    <2>6. \A l : In(arrived[e][Owner(c)], l) => In(arrived'[e][Owner(c)], l)
        BY <1>f, <2>3
    <2> QED
        BY <1>f, <1>2, <1>6, <1>7, <1>8, <2>4, <2>5, <2>6, WayFrame
<1> QED
    BY <1>9, <1>10

(* A node sends: its message waits to be read, all others go on.           *)
LEMMA CarryIn ==
    ASSUME NetworkInv, PacketTypes, NEW n \in Nodes, NEW d \in Addresses, Sending(n, d),
           NEW p \in Packets, Carry(n, p)
    PROVE  LET z == Current(n)
               l == Len(packets[z]) + 1
           IN  /\ z \in Conns /\ l \in 1..Len(packets'[z]) /\ packets'[z][l] = p
               /\ sent'[z][l] = d /\ In(up'[z], Message(z, l))
               /\ \A i \in 1..Len(packets'[z]) : i \in 1..Len(packets[z]) \/ i = l
               /\ \A c \in Conns : c # z => packets'[c] = packets[c]
               /\ \A c \in Conns : \A m : In(up[c], m) => In(up'[c], m)
               /\ \A y \in Conns : \A i \in 1..Len(packets[y]) :
                    /\ i \in 1..Len(packets'[y])
                    /\ packets'[y][i] = packets[y][i] /\ sent'[y][i] = sent[y][i]
<1> DEFINE z == Current(n)
           l == Len(packets[z]) + 1
<1>1. z \in Conns
    BY SendingTypes DEF NetworkInv
<1>2. /\ packets[z] \in Seq(Packets) /\ packets'[z] = Append(packets[z], p)
      /\ \A c \in Conns : c # z => packets'[c] = packets[c]
    BY <1>1 DEF Carry, PacketTypes
<1>3. /\ sent[z] \in Seq(Addresses) /\ sent'[z] = Append(sent[z], d)
      /\ Len(sent[z]) = Len(packets[z])
    BY <1>1 DEF Sending, PacketTypes, NetworkInv, TypeInv, NetworkTypeOK
<1>4. /\ up[z] \in Seq(Messages) /\ up'[z] = Append(up[z], Message(z, Len(sent[z]) + 1))
      /\ \A c \in Conns : c # z => up'[c] = up[c]
    BY <1>1 DEF Sending, NetworkInv, TypeInv, NetworkTypeOK
<1>5. \A y \in Conns : \A i \in 1..Len(packets[y]) :
            /\ i \in 1..Len(packets'[y])
            /\ packets'[y][i] = packets[y][i] /\ sent'[y][i] = sent[y][i]
    BY CarryFacts
<1> HIDE DEF z
<1>6. /\ Len(packets[z]) \in Nat /\ Len(packets'[z]) = l /\ packets'[z][l] = p
    BY <1>2, SeqFacts
<1>7. sent'[z][l] = d
    BY <1>3, SeqFacts
<1>8. l \in 1..Len(packets'[z]) /\ l \in Nat
      /\ \A i \in 1..Len(packets'[z]) : i \in 1..Len(packets[z]) \/ i = l
    BY <1>6
<1>9. Message(z, l) \in Messages
    BY <1>1, <1>8 DEF Message, Messages
<1>10. /\ In(up'[z], Message(z, l))
       /\ \A m : In(up[z], m) => In(up'[z], m)
    BY <1>3, <1>4, <1>9, InAppend
<1> QED
    BY <1>1, <1>2, <1>4, <1>5, <1>6, <1>7, <1>8, <1>10 DEF z

LEMMA AskWay ==
    ASSUME NetworkInv, PacketInv,
           NEW c, NEW k, NEW d, NEW e, LookupAt(c, k, d, e),
           NEW n \in Nodes, Lookup(n)
    PROVE  OnWay(c, k)'
<1>f. c \in Conns /\ e \in Conns
    BY AtFacts
<1>0. PacketTypes
    BY DEF PacketInv
<1>1. PICK l \in Lookups, p \in Packets :
        /\ l[2] \in Addresses /\ Send(n, l[2]) /\ Carry(n, p) /\ UNCHANGED registry
    BY <1>0, RequestFacts
<1>2. Sending(n, l[2]) /\ UNCHANGED <<named, down, arrived, phase, inbox, registry>>
    BY <1>1 DEF Send, switchVars, nodeVars
<1>3. /\ \A x \in Conns : \A m : In(up[x], m) => In(up'[x], m)
      /\ \A y \in Conns : \A i \in 1..Len(packets[y]) :
            /\ i \in 1..Len(packets'[y])
            /\ packets'[y][i] = packets[y][i] /\ sent'[y][i] = sent[y][i]
    BY <1>0, <1>1, <1>2, CarryIn
<1>4. Handling(d, Message(c, k)) => Handling(d, Message(c, k))'
    BY <1>2 DEF Handling, Message
<1>5. Overfull(d, packets[c][k].tuples) =>
            ~Fits(Replies(packets[c][k].tuples, registry'[d]))
    BY <1>2 DEF Overfull
<1> QED
    BY <1>f, <1>2, <1>3, <1>4, <1>5, WayFrame

LEMMA AnswerWay ==
    ASSUME NetworkInv, PacketInv,
           NEW c, NEW k, NEW d, NEW e, LookupAt(c, k, d, e),
           NEW n \in Nodes, HandleLookup(n)
    PROVE  OnWay(c, k)'
<1>f. c \in Conns /\ e \in Conns /\ d \in Nodes /\ e = Current(d)
    BY AtFacts DEF LookupAt
<1>t. /\ phase \in [Nodes -> {"idle", "connecting", "reading", "handling", "draining"}]
      /\ inbox \in [Nodes -> Messages \cup {NoMessage}]
    BY DEF NetworkInv, TypeInv, NetworkTypeOK
<1>0. PacketTypes
    BY DEF PacketInv
<1> DEFINE b == Owner(inbox[n].from)
           z == Current(n)
<1>l. PICK l : l = Len(packets[z]) + 1
    OBVIOUS
<1>1. PICK p \in Packets :
        /\ b \in Addresses /\ Reply(n, b) /\ Carry(n, p) /\ UNCHANGED registry
        /\ p.function = "LkUpReply" /\ p.question = inbox[n]
    BY AnswerFacts
<1> HIDE DEF b
<1>2. /\ Sending(n, b) /\ UNCHANGED <<named, down, arrived, registry>>
      /\ \A y \in Nodes : y # n => phase'[y] = phase[y] /\ inbox'[y] = inbox[y]
    BY <1>1, <1>t DEF Reply, switchVars
<1>3. /\ z \in Conns /\ l \in 1..Len(packets'[z]) /\ packets'[z][l] = p
      /\ In(up'[z], Message(z, l))
      /\ \A x \in Conns : \A m : In(up[x], m) => In(up'[x], m)
      /\ \A y \in Conns : \A i \in 1..Len(packets[y]) :
            /\ i \in 1..Len(packets'[y])
            /\ packets'[y][i] = packets[y][i] /\ sent'[y][i] = sent[y][i]
    BY <1>0, <1>1, <1>2, <1>l, CarryIn
<1>4. Handling(d, Message(c, k)) =>
        \/ Handling(d, Message(c, k))'
        \/ \E i \in 1..Len(packets'[e]) : ReplyOnWay(c, k, e, i)'
    <2>1. CASE n = d
        <3> HIDE DEF z
        <3>1. z = e
            BY <1>f, <2>1 DEF z
        <3>2. Handling(d, Message(c, k)) => p.question = Message(c, k)
            BY <1>1, <2>1 DEF Handling
        <3>3. Handling(d, Message(c, k)) => ReplyOnWay(c, k, e, l)'
            BY <1>1, <1>3, <3>1, <3>2 DEF ReplyOnWay, ReplyTo, Message
        <3> QED
            BY <1>3, <3>1, <3>3
    <2>2. CASE n # d
        BY <1>2, <1>f, <2>2 DEF Handling, Message
    <2> QED
        BY <2>1, <2>2
<1>5. Overfull(d, packets[c][k].tuples) =>
            ~Fits(Replies(packets[c][k].tuples, registry'[d]))
    BY <1>2 DEF Overfull
<1> HIDE DEF z
<1> QED
    BY <1>f, <1>2, <1>3, <1>4, <1>5, WayFrame

(* The node asked handles a lookup without a reply only when more matches  *)
(* than fits: none is no answer to one that is owed some.                  *)
LEMMA SilentWay ==
    ASSUME NetworkInv, PacketInv, RegistryFinite,
           NEW c, NEW k, NEW d, NEW e, LookupAt(c, k, d, e),
           NEW n \in Nodes, HandleSilently(n)
    PROVE  OnWay(c, k)'
<1>f. /\ c \in Conns /\ e \in Conns /\ d \in Nodes /\ e = Current(d) /\ websocket[d]
      /\ packets[c][k].tuples \in Seq(Patterns) /\ phase[d] # "idle" /\ e = <<d, nodes[d]>>
      /\ nodes[d] # 0
    BY AtFacts DEF LookupAt
<1>t. /\ phase \in [Nodes -> {"idle", "connecting", "reading", "handling", "draining"}]
      /\ inbox \in [Nodes -> Messages \cup {NoMessage}]
    BY DEF NetworkInv, TypeInv, NetworkTypeOK
<1>1. /\ Handled(n) /\ UNCHANGED <<packets, registry>>
      /\ Asked(n) /\ Answerable(n) => ~CanSend(n)
    BY DEF HandleSilently, appleVars
<1>2. /\ UNCHANGED <<named, up, down, sent, arrived>>
      /\ \A y \in Nodes : y # n => phase'[y] = phase[y] /\ inbox'[y] = inbox[y]
    BY <1>t, <1>1 DEF Handled, switchVars, wireVars, historyVars
<1> DEFINE ts == packets[c][k].tuples
           few == Replies(ts, registry[d])
<1>3. ASSUME n = d, inbox[d] = Message(c, k) PROVE Overfull(d, ts)
    <2>1. Question(d) = packets[c][k] /\ Answer(d) = few
        BY <1>3 DEF Question, Answer, Message
    <2>2. Asked(d)
        BY <2>1 DEF Asked, LookupAt, Sought
    <2>3. CanSend(d)
        BY <1>f DEF CanSend, LookupAt, Live
    <2>4. few = {} \/ ~Fits(few)
        BY <1>1, <1>3, <2>1, <2>2, <2>3 DEF Answerable
    <2>5. packets[c][k].due # {} /\ packets[c][k].due \subseteq few
        <3>1. packets[c][k].table[d] = life[d] /\ life[d] # 0
            BY <1>f DEF LookupAt, AskedOver, Current
        <3>2. LookupOwed(c, k)
            BY DEF PacketInv, LookupAt
        <3> QED
            BY <1>f, <3>1, <3>2 DEF LookupOwed, LookupAt, Sought
    <2>6. ~Fits(few)
        BY <2>4, <2>5
    <2> QED
        BY <2>6 DEF Overfull
<1>4. Overfull(d, ts) => Overfull(d, ts)' /\ ~Fits(Replies(ts, registry'[d]))
    BY <1>1 DEF Overfull
<1>5. Handling(d, Message(c, k)) => Handling(d, Message(c, k))' \/ Overfull(d, ts)'
    <2>1. CASE n = d
        BY <1>3, <1>4, <2>1 DEF Handling
    <2>2. CASE n # d
        BY <1>2, <1>f, <2>2 DEF Handling, Message
    <2> QED
        BY <2>1, <2>2
<1>6. \A y \in Conns : \A i \in 1..Len(packets[y]) :
            /\ i \in 1..Len(packets'[y])
            /\ packets'[y][i] = packets[y][i] /\ sent'[y][i] = sent[y][i]
    BY <1>1, <1>2
<1> QED
    BY <1>f, <1>2, <1>4, <1>5, <1>6, WayFrame

(* Every step keeps a lookup on its way while both stay.                   *)
LEMMA StepWay ==
    ASSUME NetworkInv, PacketInv, PacketInv', RegistryFinite, RegistryFinite', [Next]_vars,
           NEW c, NEW k, NEW d, NEW e, LookupAt(c, k, d, e), Live(c)', Live(e)'
    PROVE  OnWay(c, k)'
<1>0. PacketTypes /\ PacketTypes' /\ d \in Nodes
    BY DEF PacketInv, LookupAt
<1>1. ASSUME NEW n \in Nodes, RegisterService(n) PROVE OnWay(c, k)'
    <2>1. UNCHANGED <<networkVars, packets>>
        BY <1>1 DEF RegisterService
    <2>2. registry[d] \subseteq registry'[d]
        BY <1>0, <1>1 DEF RegisterService, PacketTypes
    <2> QED
        BY <1>0, <2>1, <2>2, RegisterWay
<1>2. ASSUME NEW n \in Nodes, Die(n) PROVE OnWay(c, k)'
    <2>1. UNCHANGED packets
        BY <1>2 DEF Die
    <2> QED
        BY <1>2, <2>1, NodeWay
<1>3. ASSUME NEW n \in Nodes, Program(n), UNCHANGED appleVars PROVE OnWay(c, k)'
    <2>1. UNCHANGED packets /\ UNCHANGED registry
        BY <1>3 DEF appleVars
    <2> QED
        BY <1>3, <2>1, NodeWay DEF Program
<1>4. ASSUME NEW n \in Nodes, NodeStep(n), UNCHANGED appleVars PROVE OnWay(c, k)'
    <2>1. UNCHANGED packets /\ UNCHANGED registry
        BY <1>4 DEF appleVars
    <2> QED
        BY <1>4, <2>1, NodeWay, ReceiveWay DEF NodeStep
<1>5. ASSUME NEW x \in Conns, SwitchStep(x), UNCHANGED appleVars PROVE OnWay(c, k)'
    BY <1>5, SwitchWay
<1>6. CASE UNCHANGED vars
    <2>1. UNCHANGED <<networkVars, packets>> /\ registry' = registry
        BY <1>6 DEF vars, appleVars
    <2> QED
        BY <1>0, <2>1, RegisterWay
<1>7. CASE Underway
    BY <1>4, <1>5, <1>7, AnswerWay, SilentWay DEF Underway, NetworkStep, Handle
<1>8. CASE \E n \in Nodes : Users(n)
    BY <1>1, <1>2, <1>3, <1>8, AskWay DEF Users
<1> QED
    BY <1>6, <1>7, <1>8 DEF Next

(* A lookup that is sent is on its way, over a connection that the switch  *)
(* has in its table.                                                       *)
LEMMA LookupBegins ==
    ASSUME NetworkInv, PacketInv, NEW n \in Nodes, Lookup(n),
           NEW c \in Conns, NEW k \in 1..Len(packets'[c]), Sought(c, k)'
    PROVE  \/ k \in 1..Len(packets[c])
           \/ sent'[c][k] \in Nodes /\ AskedOver(c, k)' \in named' /\ OnWay(c, k)'
<1>0. PacketTypes
    BY DEF PacketInv
<1>1. PICK l \in Lookups, p \in Packets :
        /\ l[1] = n /\ l[2] \in Addresses /\ Send(n, l[2]) /\ Carry(n, p)
        /\ p.table = TableOf(n) /\ p.due = DueTo(n, l)
    BY <1>0, RequestFacts
<1> DEFINE z == Current(n)
<1>2. /\ z \in Conns
      /\ packets'[z][Len(packets[z]) + 1] = p /\ sent'[z][Len(packets[z]) + 1] = l[2]
      /\ In(up'[z], Message(z, Len(packets[z]) + 1))
      /\ \A i \in 1..Len(packets'[z]) : i \in 1..Len(packets[z]) \/ i = Len(packets[z]) + 1
      /\ \A x \in Conns : x # z => packets'[x] = packets[x]
    BY <1>0, <1>1, CarryIn DEF Send
<1> HIDE DEF z
<1> SUFFICES ASSUME k \notin 1..Len(packets[c])
             PROVE  sent'[c][k] \in Nodes /\ AskedOver(c, k)' \in named' /\ OnWay(c, k)'
    OBVIOUS
<1>3. c = z /\ k = Len(packets[z]) + 1
    BY <1>2
<1>4. p.due # {} /\ packets'[c][k] = p /\ sent'[c][k] = l[2]
    BY <1>2, <1>3 DEF Sought
<1>5. PICK d \in Nodes : d = l[2] /\ TableOf(n)[d] # 0
    BY <1>1, <1>4 DEF DueTo
<1>6. nodes \in [Nodes -> 0..MaxLife] /\ named' = named
    BY <1>1 DEF Send, switchVars, NetworkInv, TypeInv, NetworkTypeOK
<1>7. TableOf(n)[d] = nodes[d] /\ nodes[d] # 0
    BY <1>5, <1>6 DEF TableOf
<1>8. <<d, nodes[d]>> \in named
    BY <1>7 DEF NetworkInv, Names, Directory
<1>9. AskedOver(c, k)' = <<d, nodes[d]>>
    <2>1. AskedOver(c, k)' = <<sent'[c][k], packets'[c][k].table[sent'[c][k]]>>
        BY DEF AskedOver
    <2> QED
        BY <1>1, <1>4, <1>5, <1>7, <2>1
<1>10. OnWay(c, k)'
    <2>1. In(up'[c], Message(c, k))
        BY <1>2, <1>3
    <2>2. In(up[c], Message(c, k))'
        BY <2>1 DEF In, Message
    <2> QED
        BY <2>2 DEF OnWay
<1> QED
    BY <1>4, <1>5, <1>6, <1>8, <1>9, <1>10

(* Only a program's lookup is a new one.                                   *)
LEMMA OldPackets ==
    ASSUME NetworkInv, PacketInv, [Next]_vars
    PROVE  /\ \A y \in Conns : \A i \in 1..Len(packets[y]) :
                    /\ i \in 1..Len(packets'[y])
                    /\ packets'[y][i] = packets[y][i] /\ sent'[y][i] = sent[y][i]
           /\ \/ \E n \in Nodes : Lookup(n)
              \/ \A y \in Conns : \A i \in 1..Len(packets'[y]) :
                    i \in 1..Len(packets[y]) \/ ~Sought(y, i)'
<1>0. PacketTypes
    BY DEF PacketInv
<1>1. ASSUME NEW n \in Nodes, Lookup(n)
      PROVE  \A y \in Conns : \A i \in 1..Len(packets[y]) :
                    /\ i \in 1..Len(packets'[y])
                    /\ packets'[y][i] = packets[y][i] /\ sent'[y][i] = sent[y][i]
    <2>1. PICK l \in Lookups, p \in Packets : l[2] \in Addresses /\ Send(n, l[2]) /\ Carry(n, p)
        BY <1>0, <1>1, RequestFacts
    <2> QED
        BY <1>0, <2>1, CarryIn DEF Send
<1>2. ASSUME NEW n \in Nodes, HandleLookup(n)
      PROVE  /\ \A y \in Conns : \A i \in 1..Len(packets[y]) :
                    /\ i \in 1..Len(packets'[y])
                    /\ packets'[y][i] = packets[y][i] /\ sent'[y][i] = sent[y][i]
             /\ \A y \in Conns : \A i \in 1..Len(packets'[y]) :
                    i \in 1..Len(packets[y]) \/ ~Sought(y, i)'
    <2> DEFINE b == Owner(inbox[n].from)
               z == Current(n)
    <2>1. PICK p \in Packets : /\ b \in Addresses /\ Reply(n, b) /\ Carry(n, p)
                               /\ p.function = "LkUpReply"
        BY <1>2, AnswerFacts
    <2> HIDE DEF b
    <2>2. /\ packets'[z][Len(packets[z]) + 1] = p
          /\ \A i \in 1..Len(packets'[z]) : i \in 1..Len(packets[z]) \/ i = Len(packets[z]) + 1
          /\ \A x \in Conns : x # z => packets'[x] = packets[x]
          /\ \A y \in Conns : \A i \in 1..Len(packets[y]) :
                    /\ i \in 1..Len(packets'[y])
                    /\ packets'[y][i] = packets[y][i] /\ sent'[y][i] = sent[y][i]
        BY <1>0, <2>1, CarryIn DEF Reply
    <2> HIDE DEF z
    <2>3. \A y \in Conns : \A i \in 1..Len(packets'[y]) :
            i \in 1..Len(packets[y]) \/ packets'[y][i].function = "LkUpReply"
        BY <2>1, <2>2
    <2> QED
        BY <2>2, <2>3 DEF Sought
<1>3. CASE \A n \in Nodes : ~Lookup(n) /\ ~HandleLookup(n)
    <2>1. UNCHANGED <<sent, packets>>
        BY <1>3, QuietSteps
    <2> QED
        BY <2>1
<1> QED
    BY <1>1, <1>2, <1>3

LEMMA NamedGrows ==
    ASSUME [SwitchNext]_networkVars
    PROVE  named \subseteq named'
<1>1. ASSUME NEW n \in Nodes,
             NodeStep(n) \/ Program(n) \/ Handled(n) \/ Crash(n)
      PROVE  named' = named
    BY <1>1 DEF NodeStep, Connected, Receive, Replied, ReadEnds, Dropped, Program, Run,
                ConnectFails, Stop, Disconnect, Handled, Crash, switchVars
<1>2. ASSUME NEW n \in Nodes, NEW d \in Addresses, Send(n, d) \/ Reply(n, d)
      PROVE  named' = named
    BY <1>2 DEF Send, Reply, switchVars
<1>3. ASSUME NEW c \in Conns, SwitchStep(c) PROVE named \subseteq named'
    BY <1>3 DEF SwitchStep, HandleRegister, Drop, Forward, Drained, ForwardFails, DrainFails,
                LoopEnds, Closed, HandlerReturns, switchVars
<1>4. UNCHANGED networkVars => named' = named
    BY DEF networkVars, switchVars
<1> QED
    BY <1>1, <1>2, <1>3, <1>4 DEF SwitchNext, NetworkStep

LEMMA NextLookups ==
    NetworkInv /\ PacketInv /\ PacketInv' /\ RegistryFinite /\ RegistryFinite' /\ LookupInv
        /\ [Next]_vars => LookupInv'
<1> SUFFICES ASSUME NetworkInv, PacketInv, PacketInv', RegistryFinite, RegistryFinite',
                    LookupInv, [Next]_vars,
                    NEW c \in Conns, NEW k \in 1..Len(packets'[c]), Sought(c, k)'
             PROVE  /\ sent'[c][k] \in Nodes /\ AskedOver(c, k)' \in named'
                    /\ Live(c)' /\ Live(AskedOver(c, k))' => OnWay(c, k)'
    BY DEF LookupInv, LookupKept
<1>1. CASE k \in 1..Len(packets[c])
    <2>1. packets'[c][k] = packets[c][k] /\ sent'[c][k] = sent[c][k]
        BY <1>1, OldPackets
    <2>2. Sought(c, k) /\ AskedOver(c, k)' = AskedOver(c, k)
        BY <2>1 DEF Sought, AskedOver
    <2> DEFINE d == sent[c][k]
    <2>3. PICK e : e = AskedOver(c, k)
        OBVIOUS
    <2>4. d \in Nodes /\ e \in named /\ (Live(c) /\ Live(e) => OnWay(c, k))
        BY <1>1, <2>2, <2>3 DEF LookupInv, LookupKept
    <2>5. named \subseteq named' /\ [SwitchNext]_networkVars /\ e \in Conns
        <3>1. [SwitchNext]_networkVars
            BY StepNetwork
        <3>2. named \subseteq named'
            BY <3>1, NamedGrows
        <3> QED
            BY <2>4, <3>1, <3>2 DEF NetworkInv, TypeInv, NetworkTypeOK
    <2>6. ASSUME Live(c)', Live(e)' PROVE OnWay(c, k)'
        <3>1. Live(c)
            <4>1. client[c] # "none"
                <5>1. Len(sent[c]) # 0
                    BY <1>1 DEF PacketInv, PacketTypes
                <5>2. sent[c] # <<>>
                    BY <5>1, EmptyFacts
                <5> QED
                    BY <5>2 DEF NetworkInv, Fresh
            <4> QED
                BY <2>5, <2>6, <4>1, StillLive DEF NetworkInv
        <3>2. Live(e)
            <4>1. handler[e] # "none"
                BY <2>4, <2>5 DEF NetworkInv, Fresh
            <4> QED
                BY <2>5, <2>6, <4>1, StillLive DEF NetworkInv
        <3>3. LookupAt(c, k, d, e)
            BY <1>1, <2>2, <2>3, <2>4, <3>1, <3>2 DEF LookupAt
        <3>4. PICK b : b = d
            OBVIOUS
        <3> HIDE DEF d
        <3> QED
            BY <2>6, <3>3, <3>4, StepWay
    <2>7. Live(AskedOver(c, k))' => Live(e)'
        BY <2>2, <2>3 DEF Live
    <2> QED
        BY <2>1, <2>2, <2>3, <2>4, <2>5, <2>6, <2>7
<1>2. CASE k \notin 1..Len(packets[c])
    <2>1. \E n \in Nodes : Lookup(n)
        BY <1>2, OldPackets
    <2> QED
        BY <1>2, <2>1, LookupBegins
<1> QED
    BY <1>1, <1>2

LEMMA InitLookups == Init => LookupInv
<1> SUFFICES ASSUME Init PROVE LookupInv
    OBVIOUS
<1>1. \A c \in Conns : packets[c] = <<>>
    BY DEF Init
<1> QED
    BY <1>1, EmptyFacts DEF LookupInv

LEMMA LookupInvariant == Spec => []LookupInv
<1>1. NetworkInv /\ PacketInv /\ PacketInv' /\ RegistryFinite /\ [Next]_vars => RegistryFinite'
    BY NextFinite DEF PacketInv
<1>2. Spec => []RegistryFinite
    BY <1>1, InitFinite, NamesInvariant, NetworkUnderneath, PTL DEF Spec
<1> QED
    BY <1>2, InitLookups, NextLookups, NamesInvariant, NetworkUnderneath, PTL DEF Spec

(* Whatever is asked, registered and restarted meanwhile: when all is      *)
(* done, a lookup of a registered node that had services to name has been  *)
(* answered back to the asker, unless one of the two has left or was       *)
(* dropped or more matches than fits into a reply: plugin.py:51-119,       *)
(* switch.py:26-44 and node.py:97-113.                                     *)
THEOREM LookupsAnswered == Spec => []LookupAnswered
<1>1. ASSUME NetworkInv, PacketInv, LookupInv PROVE LookupAnswered
    <2> SUFFICES ASSUME Quiet, NEW c \in Conns, NEW k \in DOMAIN packets[c], Due(c, k)
                 PROVE  ReplyArrived(c, k) \/ Overfull(sent[c][k], packets[c][k].tuples)
        BY DEF LookupAnswered
    <2> DEFINE d == sent[c][k]
    <2>1. PICK e : e = AskedOver(c, k)
        OBVIOUS
    <2>2. /\ k \in 1..Len(packets[c]) /\ Sought(c, k)
          /\ client[c] = "open" /\ client[e] = "open"
        BY <1>1, <2>1, PacketFacts DEF Due, Sought, AskedOver, PacketInv
    <2>3. /\ d \in Nodes /\ e \in named /\ e \in Conns
          /\ Live(c) /\ Live(e) => OnWay(c, k)
        BY <1>1, <2>1, <2>2 DEF LookupInv, LookupKept, NetworkInv, TypeInv, NetworkTypeOK
    <2>4. handler[c] = "reading" /\ handler[e] = "reading"
        BY <2>2, <2>3 DEF Quiet
    <2>5. server[c] = "open" /\ server[e] = "open"
        BY <1>1, <2>2, <2>3, <2>4 DEF NetworkInv, EndsOpen, HandlerOpen
    <2>6. up[c] = <<>> /\ down[c] = <<>> /\ up[e] = <<>> /\ down[e] = <<>>
        BY <2>3, <2>5 DEF Quiet
    <2>7. \A m : ~In(<<>>, m)
        BY EmptyFacts DEF In
    <2>8. ~Handling(d, Message(c, k))
        BY <2>3 DEF Quiet, Handling
    <2>9. OnWay(c, k)
        BY <2>2, <2>3, <2>4 DEF Live
    <2>10. \/ Overfull(d, packets[c][k].tuples)
           \/ \E l \in 1..Len(packets[e]) : ReplyOnWay(c, k, e, l)
        BY <2>1, <2>6, <2>7, <2>8, <2>9 DEF OnWay
    <2>11. ASSUME NEW l \in 1..Len(packets[e]), ReplyOnWay(c, k, e, l)
           PROVE  ReplyArrived(c, k)
        <3>1. ReplyTo(c, k, e, l) /\ In(arrived[e][Owner(c)], l)
            BY <2>6, <2>7, <2>11 DEF ReplyOnWay
        <3>2. arrived[e][Owner(c)] \in Seq(Nat)
            BY <1>1, <2>3, ConnParts DEF NetworkInv, TypeInv, NetworkTypeOK
        <3>3. \E i \in DOMAIN arrived[e][Owner(c)] : arrived[e][Owner(c)][i] = l
            BY <3>1, <3>2 DEF In
        <3>4. l \in DOMAIN packets[e]
            BY <1>1, <2>3, PacketFacts DEF PacketInv
        <3> QED
            BY <2>3, <3>1, <3>3, <3>4 DEF ReplyTo, ReplyArrived
    <2> QED
        BY <2>10, <2>11
<1> QED
    BY <1>1, LookupInvariant, NamesInvariant, NetworkUnderneath, PTL

===============================================================================

------------------------------- MODULE AppleTalk -------------------------------
(***************************************************************************)
(* The name binding protocol of the AppleTalk plugin                       *)
(* (retro_net/protocols/appletalk/plugin.py, nbp.py) over switch and nodes *)
(* (SwitchNode): programs register services and look them up, the plugin   *)
(* of the node asked answers.                                              *)
(*                                                                         *)
(* Every datagram here is for the NBP socket; packets[c][k] is what        *)
(* datagram k of connection c carries.  A service is named by object and   *)
(* type; a lookup is a sequence of patterns, in which Wildcard matches     *)
(* every object or type.  An LkUpReply is handled, and dropped, by the     *)
(* same handler, so that replies end at the asker's plugin.                *)
(***************************************************************************)
EXTENDS SwitchNode, FiniteSets

CONSTANTS
    Objects,    \* object names
    Types,      \* type names
    Wildcard,   \* the wildcard "="
    MaxTuples,  \* what the 4 bits of tuple_count can count (15)
    MaxReply,   \* what the 10 bits of DDP's length leave for the tuples: 1023 bytes
                \* less the headers of DDP (13) and NBP (2)
    Size,       \* bytes of a service's tuple: 9 and its names; more than MaxReply
                \* for one with a name of over 255 bytes, which cannot be built
    Offers,     \* bound: the services the program of each node registers
    Lookups     \* bound: lookups that programs make, as <<node, address, patterns>>

Services == Objects \X Types
Patterns == (Objects \cup {Wildcard}) \X (Types \cup {Wildcard})

ASSUME AppleTalkAssumption ==
    /\ Wildcard \notin Objects \cup Types
    /\ MaxTuples \in Nat /\ MaxReply \in Nat /\ Size \in [Services -> Nat]
    /\ Offers \in [Nodes -> SUBSET Services]
    /\ \A l \in Lookups : /\ l[1] \in Nodes /\ l[2] \in Addresses
                          /\ l[3] \in Seq(Patterns)

VARIABLES
    registry,   \* nbp_registry: the services registered at a node
    packets     \* packets[c][k]: the contents of datagram k of connection c

appleVars == <<registry, packets>>
vars == <<networkVars, appleVars>>

-------------------------------------------------------------------------------
Matches(pattern, service) ==
    \A i \in 1..2 : pattern[i] \in {Wildcard, service[i]}

(* The tuples of the reply to a lookup with these patterns: the position   *)
(* of the pattern (its enumerator) with each service that matches it.      *)
Replies(patterns, services) ==
    {r \in (DOMAIN patterns) \X services : Matches(patterns[r[1]], r[2])}

(* table and due are history: the other nodes in the switch's table when   *)
(* the lookup was sent, and what the one asked would have replied then.    *)
Request(patterns, table, due) ==
    [function |-> "LkUp", tuples |-> patterns, table |-> table, due |-> due]
LkUpReply(question, replies) ==
    [function |-> "LkUpReply", question |-> question, tuples |-> replies]

Carry(n, packet) ==
    packets' = [packets EXCEPT ![Current(n)] = Append(@, packet)]

Init ==
    /\ SwitchInit
    /\ registry = [n \in Nodes |-> {}]
    /\ packets = [c \in Conns |-> <<>>]

(* register_service.                                                       *)
RegisterService(n) ==
    /\ \E s \in Offers[n] \ registry[n] :
        registry' = [registry EXCEPT ![n] = @ \cup {s}]
    /\ UNCHANGED <<networkVars, packets>>

(* The program looks a service up at one node, or at "*" with              *)
(* broadcast_lookup (BrRq, which is handled like LkUp).                    *)
Lookup(n) ==
    \E l \in Lookups :
        LET table == [nodes EXCEPT ![n] = 0]
            asked == {d \in Nodes : d = l[2] /\ table[d] # 0}
        IN  /\ l[1] = n /\ Send(n, l[2])
            /\ Carry(n, Request(l[3], table,
                                UNION {Replies(l[3], registry[d]) : d \in asked}))
            /\ UNCHANGED registry

(* _handle_nbp.                                                            *)
Question(n) == packets[inbox[n].from][inbox[n].num]

Asked(n) == Question(n).function = "LkUp"
AnswerFirst(n) == Replies(SubSeq(Question(n).tuples, 1, 1), registry[n]) \* mutant of Answer
Answer(n) == Replies(Question(n).tuples, registry[n])

(* What the headers of a reply can say: tuple_count the number of its      *)
(* tuples, DDP's length their bytes.                                       *)
Bytes(replies) == Cardinality(UNION {{r} \X (1..Size[r[2]]) : r \in replies})
Fits(replies) == Cardinality(replies) <= MaxTuples /\ Bytes(replies) <= MaxReply

AnswerableAnyLength(n) == Cardinality(Answer(n)) \in 1..MaxTuples        \* mutant of Answerable
AnswerableOneLess(n) ==                                        \* mutant of Answerable
    Cardinality(Answer(n)) \in 1..(MaxTuples - 1) /\ Fits(Answer(n))

(* Nothing to reply, or more than the headers can say: the build of one of *)
(* them raises and the exception is swallowed.                             *)
Answerable(n) == Answer(n) # {} /\ Fits(Answer(n))

HandleLookup(n) ==
    /\ phase[n] = "handling" /\ Asked(n) /\ Answerable(n)
    /\ Reply(n, Owner(inbox[n].from))
    /\ Carry(n, LkUpReply(inbox[n], Answer(n)))
    /\ UNCHANGED registry

HandleSilently(n) ==
    /\ phase[n] = "handling"
    /\ Asked(n) /\ Answerable(n) => ~CanSend(n)
    /\ Handled(n)
    /\ UNCHANGED appleVars

Handle(n) == HandleLookup(n) \/ HandleSilently(n)

(* With the process its registry is gone.                                  *)
Die(n) ==
    /\ Crash(n)
    /\ registry' = [registry EXCEPT ![n] = {}]
    /\ UNCHANGED packets

Users(n) ==
    \/ Program(n) /\ UNCHANGED appleVars
    \/ RegisterService(n) \/ Lookup(n) \/ Die(n)

Underway ==
    \/ NetworkStep /\ UNCHANGED appleVars
    \/ \E n \in Nodes : Handle(n)

Next == Underway \/ \E n \in Nodes : Users(n)

Spec == Init /\ [][Next]_vars

-------------------------------------------------------------------------------
(* Properties.                                                             *)

Packets ==
    [function : {"LkUp"}, tuples : Seq(Patterns), table : [Nodes -> 0..MaxLife],
     due : SUBSET (Nat \X Services)]
        \cup [function : {"LkUpReply"}, question : Messages,
              tuples : SUBSET (Nat \X Services)]

(* Every variable keeps its type, every datagram has its contents, and no  *)
(* reply has more tuples, or more bytes, than its headers can say.         *)
TypeOK ==
    /\ NetworkTypeOK
    /\ registry \in [Nodes -> SUBSET Services]
    /\ packets \in [Conns -> Seq(Packets)]
    /\ \A c \in Conns :
        /\ Len(packets[c]) = Len(sent[c])
        /\ \A k \in DOMAIN packets[c] : packets[c][k].function = "LkUpReply" =>
            packets[c][k].tuples # {} /\ Fits(packets[c][k].tuples)

(* A reply goes from the node that was asked to the one that asked, and    *)
(* names, for each pattern, services of that node that match it, at least  *)
(* those registered when the lookup was sent, over restarts of either and  *)
(* lookups in flight.                                                      *)
ReplyFaithful ==
    \A c \in Conns : \A k \in DOMAIN packets[c] :
        LET p == packets[c][k]
            q == packets[p.question.from][p.question.num]
        IN  p.function = "LkUpReply" =>
                /\ q.function = "LkUp"
                /\ sent[c][k] = Owner(p.question.from)
                /\ sent[p.question.from][p.question.num] = Owner(c)
                /\ p.tuples \subseteq Replies(q.tuples, Offers[Owner(c)])
                /\ Number(c) = q.table[Owner(c)] => q.due \subseteq p.tuples

(* Nothing goes on of itself any more (no disjunct of Underway is enabled):*)
(* no node is about to receive, to go on with a reply or to learn of a     *)
(* close, and no handler of the switch to read, to go on or to end.        *)
NodeRests(n) ==
    LET c == Current(n)
    IN  /\ phase[n] # "handling"
        /\ phase[n] = "connecting" => \E k \in 1..(life[n] - 1) :
                handler[<<n, k>>] = "reading" /\ <<n, k>> \notin named
        /\ phase[n] = "reading" => client[c] = "open" /\ down[c] = <<>>
        /\ phase[n] = "draining" => client[c] = "open" /\ Full(up[c])
        /\ websocket[n] /\ client[c] = "open" => server[c] # "closed"
SwitchRests(c) ==
    /\ handler[c] = "reading" => up[c] = <<>> /\ server[c] # "closed"
    /\ handler[c] = "draining" => server[target[c]] = "open" /\ Full(down[target[c]])
    /\ server[c] = "open" => client[c] # "left"
AtRest == (\A n \in Nodes : NodeRests(n)) /\ (\A c \in Conns : SwitchRests(c))

(* All is done: no message waits at an open end and no handler outlives    *)
(* its connection.                                                         *)
Quiet ==
    /\ \A n \in Nodes : phase[n] \in {"idle", "reading"}
    /\ \A c \in Conns :
        /\ handler[c] = IF client[c] = "open" THEN "reading"
                        ELSE IF client[c] = "none" THEN "none" ELSE "ended"
        /\ server[c] = "open" => up[c] = <<>> /\ down[c] = <<>>

(* The network comes to rest only when all is done: backpressure does not  *)
(* leave switch and nodes waiting for each other.                          *)
NothingStuck == AtRest => Quiet

(* When all is done, every lookup sent to a registered node that had       *)
(* services to name has been answered back to the asker, unless one of the *)
(* two has left or was dropped, or more matches by then than the headers   *)
(* of a reply can say.                                                     *)
Due(c, k) ==
    /\ k \in DOMAIN packets[c] /\ packets[c][k].function = "LkUp"
    /\ packets[c][k].due # {}
    /\ client[c] = "open" /\ client[<<sent[c][k], packets[c][k].table[sent[c][k]]>>] = "open"
Overfull(n, patterns) == ~Fits(Replies(patterns, registry[n]))
ReplyArrived(c, k) ==
    \E d \in Conns : \E l \in DOMAIN packets[d] :
        /\ packets[d][l].function = "LkUpReply"
        /\ packets[d][l].question = Message(c, k)
        /\ \E i \in DOMAIN arrived[d][Owner(c)] : arrived[d][Owner(c)][i] = l
LookupAnswered ==
    Quiet => \A c \in Conns : \A k \in DOMAIN packets[c] :
        Due(c, k) =>
            ReplyArrived(c, k) \/ Overfull(sent[c][k], packets[c][k].tuples)
===============================================================================

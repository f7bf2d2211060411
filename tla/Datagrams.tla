------------------------------- MODULE Datagrams -------------------------------
(***************************************************************************)
(* What switch and nodes promise the protocols above them: a datagram      *)
(* service that may lose, but neither invents, repeats, misdelivers nor    *)
(* reorders what a node sends over one of its connections to the switch.   *)
(* It is what the channels of ADSPStream, ADSPSession and TP4 assume.      *)
(*                                                                         *)
(* The k-th datagram sent over a connection is identified with k.          *)
(***************************************************************************)
EXTENDS Naturals, Sequences

CONSTANTS
    Conns,      \* connections between nodes and switch, of all times
    Nodes,      \* nodes that may be addressed
    Addresses   \* what a datagram may be addressed to

VARIABLES
    sent,       \* sent[c][k]: the address of the k-th datagram sent over c
    arrived     \* arrived[c][n]: the datagrams sent over c that n was handed

datagramVars == <<sent, arrived>>

Init ==
    /\ sent = [c \in Conns |-> <<>>]
    /\ arrived = [c \in Conns |-> [n \in Nodes |-> <<>>]]

Send(c) ==
    \E a \in Addresses :
        /\ sent' = [sent EXCEPT ![c] = Append(@, a)]
        /\ UNCHANGED arrived

(* Node n is handed one of the datagrams to it that it has not got past.   *)
Past(c, n, k) == \A i \in DOMAIN arrived[c][n] : arrived[c][n][i] < k

Arrive(c, n) ==
    \E k \in DOMAIN sent[c] :
        /\ sent[c][k] = n /\ Past(c, n, k)
        /\ arrived' = [arrived EXCEPT ![c][n] = Append(@, k)]
        /\ UNCHANGED sent

Next == \E c \in Conns : Send(c) \/ \E n \in Nodes : Arrive(c, n)

Spec == Init /\ [][Next]_datagramVars
================================================================================

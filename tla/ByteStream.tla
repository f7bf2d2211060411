------------------------------ MODULE ByteStream ------------------------------
(***************************************************************************)
(* What an ADSP connection promises the two programs that share it: one    *)
(* reliable byte stream per direction.  Byte i of a direction is           *)
(* identified with the number i, so "in order, without gap, duplicate or   *)
(* corruption" reads: what an end has been handed is 1, 2, ..., k for some *)
(* k not beyond what its peer wrote.                                       *)
(***************************************************************************)
EXTENDS Integers, Sequences

CONSTANTS
    Ends,       \* the two ends of the connection
    Peer(_)     \* the other end

VARIABLES
    written,    \* written[e]: number of bytes e's program passed to write()
    delivered   \* delivered[e]: the bytes handed to e's program

streamVars == <<written, delivered>>

Init ==
    /\ written = [e \in Ends |-> 0]
    /\ delivered = [e \in Ends |-> <<>>]

(* The program at e writes some more bytes. *)
Accept(e) ==
    /\ written'[e] > written[e]
    /\ written' = [written EXCEPT ![e] = written'[e]]
    /\ UNCHANGED delivered

(* The next n bytes of the peer's stream are handed to e's program. *)
Deliver(e) ==
    \E n \in 1..(written[Peer(e)] - Len(delivered[e])) :
        /\ delivered' = [delivered EXCEPT ![e] =
                            @ \o [i \in 1..n |-> Len(@) + i]]
        /\ UNCHANGED written

Next == \E e \in Ends : Accept(e) \/ Deliver(e)

Spec == Init /\ [][Next]_streamVars
===============================================================================

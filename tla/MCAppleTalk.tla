----------------------------- MODULE MCAppleTalk -----------------------------
(* The services and lookups of the runs of AppleTalk.                        *)
EXTENDS AppleTalk, TLC

CONSTANTS a, b, o1, o2, t

OneLife == (a :> 1) @@ (b :> 1)
TwoLives == (a :> 1) @@ (b :> 2)

OffersB == (a :> {}) @@ (b :> {<<o1, t>>, <<o2, t>>})
Sizes == (<<o1, t>> :> 1) @@ (<<o2, t>> :> 3)

(* With o1, o2 and both registered the reply has 2, 1 and 3 tuples of 2, 3   *)
(* and 5 bytes: only the first fits into 2 tuples and 2 bytes.               *)
AllAndO1 == << <<Wildcard, t>>, <<o1, Wildcard>> >>
AsksB == {<<a, b, AllAndO1>>}
===============================================================================

----------------------------- MODULE MCAURPBridge -----------------------------
(* The tunnels of the runs of AURPBridge: n1 has two bridges, p and q, n2    *)
(* has r, and p and r are each other's peers.                                *)
EXTENDS AURPBridge, TLC

CONSTANTS n1, n2, p, q, r

AtNodes == (p :> n1) @@ (q :> n1) @@ (r :> n2)
Tunnels == (p :> {r}) @@ (q :> {}) @@ (r :> {p})
Starts == (p :> 2) @@ (q :> 1) @@ (r :> 1)
StartsOnce == (p :> 1) @@ (q :> 1) @@ (r :> 0)
Sends == (n1 :> 1) @@ (n2 :> 0)
CallsTwo == (n1 :> 2) @@ (n2 :> 2)
===============================================================================

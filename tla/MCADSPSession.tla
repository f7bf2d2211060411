---------------------------- MODULE MCADSPSession ----------------------------
(* Bounds of the runs of ADSPSession.                                      *)
EXTENDS ADSPSession

OneOpen == [n \in Nodes |-> IF n = "A" THEN 1 ELSE 0]

=============================================================================

-------------------------------- MODULE MCTP4 --------------------------------
(* Bounds of the runs of TP4.                                              *)
EXTENDS TP4

OneOpen == [n \in Nodes |-> IF n = "A" THEN 1 ELSE 0]

=============================================================================

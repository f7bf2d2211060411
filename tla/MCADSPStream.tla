---------------------------- MODULE MCADSPStream ----------------------------
(* Bounds of the runs of ADSPStream.                                       *)
EXTENDS ADSPStream

ThreeOne == [e \in Ends |-> IF e = "client" THEN 3 ELSE 1]
OneByte == [e \in Ends |-> IF e = "client" THEN 1 ELSE 0]
TwoBytes == [e \in Ends |-> IF e = "client" THEN 2 ELSE 0]

=============================================================================

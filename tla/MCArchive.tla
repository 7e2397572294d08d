------------------------------ MODULE MCArchive ------------------------------
(* Instances of ArchiveTransitions for TLC: the device that moves the record *)
(* has the lower or the higher client id of the two.                         *)
EXTENDS ArchiveTransitions, TLC

CONSTANTS d1, d2

MCFirst ==
  {[d \in Devices |-> [n \in Places |-> IF (d = d1) = (n = "active") THEN k ELSE 3 - k]] :
     k \in 1..2}
=============================================================================

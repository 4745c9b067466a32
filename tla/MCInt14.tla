------------------------------ MODULE MCInt14 ------------------------------
(* One serial port and three that do not exist, for TLC. *)
EXTENDS Int14

CONSTANT U1

OneUart == {U1}
OnePort == [i \in Port |-> IF i = 0 THEN U1 ELSE NoUart]
=============================================================================

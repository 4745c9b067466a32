------------------------------ MODULE MCMemMgr ------------------------------
(* A small arena for TLC: two processes, low memory and one upper block. *)
EXTENDS MemMgr

CONSTANTS P1, P2

TwoPsp == {P1, P2}
\* Every fit and every area; best fit also where it has blocks to choose from.
Mixed == {[fit |-> "first", area |-> "low"], [fit |-> "best", area |-> "low"],
          [fit |-> "last", area |-> "U"], [fit |-> "best", area |-> "UO"]}
=============================================================================

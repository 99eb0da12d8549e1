------------------------ MODULE MCPreorderCapacity -------------------------
(* Instances of PreorderCapacity for TLC. *)
EXTENDS PreorderCapacity

\* The second publication may lower or raise the daily limit.  Under the larger
\* one a cart does not need a hold unless it takes the last units.
TwoOrFour == {[limit |-> 2, threshold |-> 1], [limit |-> 4, threshold |-> 0]}
=============================================================================

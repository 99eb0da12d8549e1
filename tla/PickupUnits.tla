---------------------------- MODULE PickupUnits ----------------------------
(***************************************************************************)
(* How many pickup units the carts of a set of quotes take: what the SQL   *)
(* writes sum(requested_quantity).  A cart of n units is n pairs, so that  *)
(* a sum is a cardinality and its laws are those of finite sets.           *)
(***************************************************************************)
EXTENDS Integers, FiniteSets

UnitsOf(size, S) == UNION {{q} \X (1 .. size[q]) : q \in S}

Load(size, S) == Cardinality(UnitsOf(size, S))
=============================================================================

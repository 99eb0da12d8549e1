---------------------------- MODULE MCStorefront ----------------------------
(* Instances of Storefront for TLC. *)
EXTENDS Storefront

CONSTANTS glazed, filled

\* The second publication changes a price, or takes a product from the menu.
SameItems == <<{glazed}, {glazed}>>
OneFewer == <<{glazed, filled}, {glazed}>>
=============================================================================

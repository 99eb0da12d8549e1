--------------------------- MODULE PreorderPricing ---------------------------
(***************************************************************************)
(* The prices of a quote: the loop of create_quote over the lines of the   *)
(* request, the row it inserts, and the CHECKs that row has to meet.  One  *)
(* step is one line of the loop.  What may refuse a line for another       *)
(* reason (item versions, dates, allergens) ends the quote and is          *)
(* Refused.  The discounts are those the published policy gives the cart.  *)
(***************************************************************************)
EXTENDS Integers

VARIABLES
    discount,   \* basis points of the quantity level and of the advance tier
    sum,        \* v_line_subtotal, v_quantity_total, v_final_total, v_shop_total
    count,      \* lines so far
    outcome     \* "pricing", "accepted" or the reason of the refusal

vars == <<discount, sum, count, outcome>>

-----------------------------------------------------------------------------

MaxInteger == 2147483647        \* integer of PostgreSQL

\* What the validation of a configuration lets a discount be.
BasisPoints == 0 .. 10000

\* The prices of an available item, as catalog_available_price_evidence has them.
Item ==
    {i \in [base : Nat, floor : Nat, shop : Nat \ {0}] :
        i.floor <= i.base /\ i.base <= i.shop /\ i.shop <= MaxInteger}

\* A price less a discount, rounded down, and never below the floor.
Discounted(price, bps, floor) ==
    LET less == (price * (10000 - bps)) \div 10000
    IN  IF less < floor THEN floor ELSE less

QuantityUnit(item) == Discounted(item.base, discount.quantity, item.floor)

FinalUnit(item) == Discounted(QuantityUnit(item), discount.notice, item.floor)

\* The totals with n more of the item.
SumAfter(item, n) ==
    [subtotal |-> sum.subtotal + item.base * n,
     quantity |-> sum.quantity + QuantityUnit(item) * n,
     final    |-> sum.final + FinalUnit(item) * n,
     shop     |-> sum.shop + item.shop * n]

\* The products from which both prices are rounded stay in the range of integer.
ProductsFit(item) ==
    /\ item.base * (10000 - discount.quantity) <= MaxInteger
    /\ QuantityUnit(item) * (10000 - discount.notice) <= MaxInteger

\* So do the totals.
TotalsFit(item, n) ==
    \A total \in {"subtotal", "quantity", "final", "shop"} :
        SumAfter(item, n)[total] <= MaxInteger

Init ==
    /\ discount \in [quantity : BasisPoints, notice : BasisPoints]
    /\ sum = [subtotal |-> 0, quantity |-> 0, final |-> 0, shop |-> 0]
    /\ count = 0
    /\ outcome = "pricing"

\* One line: n of an item.
PriceLine(item, n) ==
    /\ outcome = "pricing"
    /\ ProductsFit(item)
    /\ FinalUnit(item) <= item.shop
    /\ TotalsFit(item, n)
    /\ sum' = SumAfter(item, n)
    /\ count' = count + 1
    /\ UNCHANGED <<discount, outcome>>

\* "A selected item has no valid preorder price."
NoValidPrice(item) ==
    /\ outcome = "pricing"
    /\ ProductsFit(item)
    /\ FinalUnit(item) > item.shop
    /\ outcome' = "no_valid_price"
    /\ UNCHANGED <<discount, sum, count>>

\* numeric_value_out_of_range, which the routine answers as an invalid request.
OutOfRange(item, n) ==
    /\ outcome = "pricing"
    /\ \/ ~ProductsFit(item)
       \/ FinalUnit(item) <= item.shop /\ ~TotalsFit(item, n)
    /\ outcome' = "invalid_request"
    /\ UNCHANGED <<discount, sum, count>>

\* Any other refusal of a line.
Refused ==
    /\ outcome = "pricing"
    /\ outcome' = "refused"
    /\ UNCHANGED <<discount, sum, count>>

\* After at least one line the row is inserted.
Insert ==
    /\ outcome = "pricing"
    /\ count > 0
    /\ outcome' = "accepted"
    /\ UNCHANGED <<discount, sum, count>>

Next ==
    \/ \E item \in Item, n \in Nat \ {0} :
        PriceLine(item, n) \/ NoValidPrice(item) \/ OutOfRange(item, n)
    \/ Refused
    \/ Insert

Spec == Init /\ [][Next]_vars

-----------------------------------------------------------------------------

\* The savings a quote shows.
QuantitySavings == sum.subtotal - sum.quantity
NoticeSavings == sum.quantity - sum.final

\* The row meets the CHECKs of quotes: the insert is never refused, and savings
\* that are added up on a page never exceed what the cart costs.
RowIsAdmitted ==
    outcome = "accepted" =>
        /\ sum.subtotal >= 0
        /\ QuantitySavings >= 0
        /\ NoticeSavings >= 0
        /\ sum.shop > 0
        /\ 0 <= sum.final /\ sum.final <= sum.shop
        /\ QuantitySavings + NoticeSavings <= sum.subtotal

\* An available item always has a valid preorder price: floors, rounding and two
\* discounts after each other cannot lift the price over the shop's.
AlwaysPriced == outcome # "no_valid_price"
=============================================================================

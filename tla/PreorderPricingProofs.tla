------------------------ MODULE PreorderPricingProofs ------------------------
(***************************************************************************)
(* Discounts never lift a price, totals stay in the order of the prices,   *)
(* and hence every accepted quote is a row its table admits.               *)
(***************************************************************************)
EXTENDS PreorderPricing, TLAPS

\* Totals only grow by products, and stay ordered as the prices are.
TotalsOrdered ==
    /\ discount \in [quantity : BasisPoints, notice : BasisPoints]
    /\ sum \in [subtotal : Nat, quantity : Nat, final : Nat, shop : Nat]
    /\ count \in Nat
    /\ sum.final <= sum.quantity
    /\ sum.quantity <= sum.subtotal
    /\ sum.subtotal <= sum.shop
    /\ count > 0 => sum.shop > 0
    /\ outcome = "accepted" => count > 0
    /\ AlwaysPriced

-----------------------------------------------------------------------------

\* Rounding down keeps the order, and takes nothing from whole units.
LEMMA RoundingKeepsOrder ==
    ASSUME NEW x \in Nat, NEW y \in Nat, x <= y
    PROVE  x \div 10000 \in Nat /\ x \div 10000 <= y \div 10000
OBVIOUS

LEMMA RoundingBelow ==
    ASSUME NEW x \in Nat, NEW p \in Nat, x <= p * 10000
    PROVE  x \div 10000 \in Nat /\ x \div 10000 <= p
OBVIOUS

\* Products keep the order of their factors.
LEMMA ProductsKeepOrder ==
    ASSUME NEW a \in Nat, NEW b \in Nat, a <= b,
           NEW k \in Nat, NEW l \in Nat, k <= l
    PROVE  a * k \in Nat /\ b * l \in Nat /\ a * k <= b * l
<1>1. a * k <= a * l OBVIOUS
<1>2. a * l <= b * l OBVIOUS
<1>3. a * k \in Nat /\ a * l \in Nat /\ b * l \in Nat OBVIOUS
<1> QED BY <1>1, <1>2, <1>3

\* A discount leaves a price between the floor and the price.
LEMMA DiscountedIsBetween ==
    ASSUME NEW price \in Nat, NEW bps \in BasisPoints,
           NEW floor \in Nat, floor <= price
    PROVE  /\ Discounted(price, bps, floor) \in Nat
           /\ floor <= Discounted(price, bps, floor)
           /\ Discounted(price, bps, floor) <= price
<1>1. 10000 - bps \in Nat /\ 10000 - bps <= 10000 BY DEF BasisPoints
<1>2. /\ price * (10000 - bps) \in Nat
      /\ price * (10000 - bps) <= price * 10000
    BY <1>1, ProductsKeepOrder
<1>3. /\ (price * (10000 - bps)) \div 10000 \in Nat
      /\ (price * (10000 - bps)) \div 10000 <= price
    BY <1>2, RoundingBelow
<1> QED BY <1>3 DEF Discounted

\* A larger discount, or a lower price to start with, never costs more.
THEOREM MoreDiscountCostsLess ==
    ASSUME NEW price \in Nat, NEW less \in Nat, less <= price,
           NEW bps \in BasisPoints, NEW more \in BasisPoints, bps <= more,
           NEW floor \in Nat
    PROVE  Discounted(less, more, floor) <= Discounted(price, bps, floor)
<1>1. /\ 10000 - bps \in Nat /\ 10000 - more \in Nat
      /\ 10000 - more <= 10000 - bps
    BY DEF BasisPoints
<1>2. /\ less * (10000 - more) \in Nat /\ price * (10000 - bps) \in Nat
      /\ less * (10000 - more) <= price * (10000 - bps)
    BY <1>1, ProductsKeepOrder
<1>3. /\ (less * (10000 - more)) \div 10000 \in Nat
      /\ (price * (10000 - bps)) \div 10000 \in Nat
      /\ (less * (10000 - more)) \div 10000 <= (price * (10000 - bps)) \div 10000
    BY <1>2, RoundingKeepsOrder
<1> QED BY <1>3 DEF Discounted

\* The prices of an available item are in order: floor, final, unit, base, shop.
LEMMA PricesAreOrdered ==
    ASSUME discount \in [quantity : BasisPoints, notice : BasisPoints],
           NEW item \in Item
    PROVE  /\ item.base \in Nat /\ item.shop \in Nat /\ item.floor \in Nat
           /\ QuantityUnit(item) \in Nat /\ FinalUnit(item) \in Nat
           /\ item.floor <= FinalUnit(item)
           /\ FinalUnit(item) <= QuantityUnit(item)
           /\ QuantityUnit(item) <= item.base
           /\ item.base <= item.shop
           /\ item.shop > 0
<1>1. /\ item.base \in Nat /\ item.shop \in Nat /\ item.floor \in Nat
      /\ item.floor <= item.base /\ item.base <= item.shop /\ item.shop > 0
    BY DEF Item
<1>2. discount.quantity \in BasisPoints /\ discount.notice \in BasisPoints
    OBVIOUS
<1>3. /\ QuantityUnit(item) \in Nat
      /\ item.floor <= QuantityUnit(item) /\ QuantityUnit(item) <= item.base
    BY <1>1, <1>2, DiscountedIsBetween DEF QuantityUnit
<1>4. /\ FinalUnit(item) \in Nat
      /\ item.floor <= FinalUnit(item) /\ FinalUnit(item) <= QuantityUnit(item)
    BY <1>1, <1>2, <1>3, DiscountedIsBetween DEF FinalUnit
<1> QED BY <1>1, <1>3, <1>4

LEMMA LineKeepsOrder ==
    ASSUME TotalsOrdered, NEW item \in Item, NEW n \in Nat \ {0},
           PriceLine(item, n)
    PROVE  TotalsOrdered'
<1> DEFINE unit == QuantityUnit(item)
           final == FinalUnit(item)
<1>1. discount \in [quantity : BasisPoints, notice : BasisPoints]
    BY DEF TotalsOrdered
<1>2. /\ item.base \in Nat /\ item.shop \in Nat
      /\ unit \in Nat /\ final \in Nat
      /\ final <= unit /\ unit <= item.base /\ item.base <= item.shop
      /\ item.shop >= 1
    BY <1>1, PricesAreOrdered
<1>3. /\ final * n \in Nat /\ unit * n \in Nat /\ item.base * n \in Nat
      /\ item.shop * n \in Nat
      /\ final * n <= unit * n /\ unit * n <= item.base * n
      /\ item.base * n <= item.shop * n
    <2> HIDE DEF unit, final
    <2> QED BY <1>2, ProductsKeepOrder
<1>4. item.shop * n >= 1
    <2>1. 1 * 1 <= item.shop * n BY <1>2, ProductsKeepOrder
    <2> QED BY <2>1
<1>5. sum' = [subtotal |-> sum.subtotal + item.base * n,
              quantity |-> sum.quantity + unit * n,
              final |-> sum.final + final * n,
              shop |-> sum.shop + item.shop * n]
    BY DEF PriceLine, SumAfter
<1>6. /\ sum.subtotal \in Nat /\ sum.quantity \in Nat
      /\ sum.final \in Nat /\ sum.shop \in Nat
      /\ sum.final <= sum.quantity /\ sum.quantity <= sum.subtotal
      /\ sum.subtotal <= sum.shop
    BY DEF TotalsOrdered
<1>7. /\ sum' \in [subtotal : Nat, quantity : Nat, final : Nat, shop : Nat]
      /\ sum'.final <= sum'.quantity
      /\ sum'.quantity <= sum'.subtotal
      /\ sum'.subtotal <= sum'.shop
      /\ sum'.shop > 0
    <2> HIDE DEF unit, final
    <2>1. /\ sum'.subtotal = sum.subtotal + item.base * n
          /\ sum'.quantity = sum.quantity + unit * n
          /\ sum'.final = sum.final + final * n
          /\ sum'.shop = sum.shop + item.shop * n
        BY <1>5
    <2> DEFINE b == item.base * n
               u == unit * n
               f == final * n
               s == item.shop * n
    <2>2. /\ b \in Nat /\ u \in Nat /\ f \in Nat /\ s \in Nat
          /\ f <= u /\ u <= b /\ b <= s /\ s >= 1
        BY <1>3, <1>4
    <2>3. /\ sum' = [subtotal |-> sum.subtotal + b, quantity |-> sum.quantity + u,
                     final |-> sum.final + f, shop |-> sum.shop + s]
        BY <1>5
    <2> HIDE DEF b, u, f, s
    <2> QED BY <1>6, <2>2, <2>3
<1>8. /\ discount' = discount /\ outcome' = outcome /\ outcome = "pricing"
      /\ count' = count + 1
    BY DEF PriceLine
<1> QED BY <1>1, <1>7, <1>8 DEF TotalsOrdered, AlwaysPriced

\* No line of an available item lacks a price.
LEMMA NoLineWithoutPrice ==
    ASSUME TotalsOrdered, NEW item \in Item
    PROVE  ~NoValidPrice(item)
<1>1. discount \in [quantity : BasisPoints, notice : BasisPoints]
    BY DEF TotalsOrdered
<1>2. /\ FinalUnit(item) \in Nat /\ item.shop \in Nat
      /\ FinalUnit(item) <= item.shop
    <2>1. /\ FinalUnit(item) \in Nat /\ QuantityUnit(item) \in Nat
          /\ item.base \in Nat /\ item.shop \in Nat
          /\ FinalUnit(item) <= QuantityUnit(item)
          /\ QuantityUnit(item) <= item.base /\ item.base <= item.shop
        BY <1>1, PricesAreOrdered
    <2> QED BY <2>1
<1> QED BY <1>2 DEF NoValidPrice

\* The totals stay ordered in every cart, of any lines.
THEOREM QuoteInductive == Spec => []TotalsOrdered
<1>1. Init => TotalsOrdered BY DEF Init, TotalsOrdered, AlwaysPriced
<1>2. ASSUME TotalsOrdered, [Next]_vars
      PROVE  TotalsOrdered'
    <2>1. CASE \E item \in Item, n \in Nat \ {0} : PriceLine(item, n)
        BY <1>2, <2>1, LineKeepsOrder
    <2>2. CASE \E item \in Item, n \in Nat \ {0} : NoValidPrice(item)
        BY <1>2, <2>2, NoLineWithoutPrice
    <2>3. CASE \E item \in Item, n \in Nat \ {0} : OutOfRange(item, n)
        BY <1>2, <2>3 DEF OutOfRange, TotalsOrdered, AlwaysPriced
    <2>4. CASE Refused
        BY <1>2, <2>4 DEF Refused, TotalsOrdered, AlwaysPriced
    <2>5. CASE Insert
        BY <1>2, <2>5 DEF Insert, TotalsOrdered, AlwaysPriced
    <2>6. CASE UNCHANGED vars
        BY <1>2, <2>6 DEF vars, TotalsOrdered, AlwaysPriced
    <2> QED BY <1>2, <2>1, <2>2, <2>3, <2>4, <2>5, <2>6 DEF Next
<1> QED BY <1>1, <1>2, PTL DEF Spec

\* The row of every accepted quote meets the CHECKs of its table.
THEOREM QuotesAreAdmitted == Spec => []RowIsAdmitted
<1>1. TotalsOrdered => RowIsAdmitted
    BY DEF TotalsOrdered, RowIsAdmitted, QuantitySavings, NoticeSavings
<1> QED BY <1>1, QuoteInductive, PTL

\* The refusal for want of a valid preorder price is never reached.
THEOREM ItemsArePriced == Spec => []AlwaysPriced
<1>1. TotalsOrdered => AlwaysPriced BY DEF TotalsOrdered
<1> QED BY <1>1, QuoteInductive, PTL
=============================================================================

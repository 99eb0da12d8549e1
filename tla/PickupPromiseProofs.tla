------------------------ MODULE PickupPromiseProofs ------------------------
(***************************************************************************)
(* PreorderCapacity implements PickupPromise, for every set of quotes,     *)
(* dates and policies: the initial state maps to the initial state, and    *)
(* every step to a step of the promise or to no step of it.                *)
(***************************************************************************)
EXTENDS PreorderCapacityProofs

\* The promise sums the same carts.
LEMMA SameSums ==
    /\ Promise!Quantity = Size
    /\ \A d \in Dates : Promise!On(d) = QuotesOn(d)
    /\ \A d \in Dates : Promise!Given(d) = Promised(d)
<1>1. Promise!Quantity = Size BY DEF Promise!Quantity, Size
<1>2. \A d \in Dates : Promise!On(d) = QuotesOn(d) BY DEF Promise!On, QuotesOn
<1>3. \A d \in Dates : Promise!Given(d) = Promised(d)
    BY <1>1, <1>2 DEF Promise!Given, Promised
<1> QED BY <1>1, <1>2, <1>3

\* The empty tables are an empty promise.
LEMMA PromiseInit ==
    ASSUME Init
    PROVE  Promise!Init
<1>1. TypeOK BY InitInductive DEF Inductive
<1>2. ActiveHolds = {} /\ LiveOrders = {} BY DEF Init, ActiveHolds, LiveOrders
<1>3. {q \in Quotes : orders[q] = "exposed"} = {} BY DEF Init
<1>4. \A q \in Quotes : quotes[q].quantity = 0 /\ quotes[q].date \in Dates
    BY <1>1 DEF Init, NoQuote, TypeOK, Quote
<1> QED BY <1>2, <1>3, <1>4 DEF Promise!Init, Init

\* What the mapping shows of holds and orders changes only with them.
LEMMA SameMapping ==
    ASSUME holds' = holds, orders' = orders
    PROVE  /\ ActiveHolds' = ActiveHolds /\ LiveOrders' = LiveOrders
           /\ {q \in Quotes : orders'[q] = "exposed"} = {q \in Quotes : orders[q] = "exposed"}
BY DEF ActiveHolds, LiveOrders

\* Publication is a new offer.
LEMMA PublishMaps ==
    ASSUME Inductive, RowStep, quotes' = quotes, holds' = holds, orders' = orders
    PROVE  Promise!Republish
<1>1. surface' \in Surface BY DEF RowStep
<1>2. surface'.enabled \in BOOLEAN /\ surface'.limit \in Nat BY <1>1 DEF Surface
<1> QED BY <1>2, SameMapping DEF Promise!Republish

\* A quote fills a cart nobody has filled.
LEMMA CreateQuoteMaps ==
    ASSUME Inductive, RowStep, NEW q \in Quotes, NEW d \in Dates,
           NEW n \in 1 .. MaxQuantity, CreateQuote(q, d, n)
    PROVE  Promise!Fill(q)
<1>1. TypeOK BY DEF Inductive
<1>2. quotes[q].quantity = 0 BY DEF CreateQuote, Inductive, QuotesKnown
<1>3. \A h \in Quotes \ {q} : quotes'[h] = quotes[h]
    BY <1>1 DEF TypeOK, CreateQuote
<1>4. quotes'[q].date = d /\ quotes'[q].quantity = n
    BY <1>1 DEF TypeOK, CreateQuote
<1>5. n \in Nat \ {0} BY CapacityAssumption
<1>6. holds' = holds /\ orders' = orders /\ surface' = surface BY DEF CreateQuote
<1> QED BY <1>2, <1>3, <1>4, <1>5, <1>6, SameMapping DEF Promise!Fill

\* A date that gains a hold or an order stays within the limit in force.
LEMMA FitsMaps ==
    ASSUME Inductive, CounterStep, quotes' = quotes, NEW q \in Quotes,
           surface.enabled, Used(ledger'[quotes[q].date]) <= surface.limit
    PROVE  Promise!Fits(q)
<1>1. quotes[q].date \in Dates BY DEF Inductive, TypeOK, Quote
<1>2. Promised(quotes[q].date)' = Used(ledger'[quotes[q].date])
    BY <1>1 DEF CounterStep, Accounting, LedgerAccounting, Promised, Used
<1>3. Promise!Quantity' = Size' BY DEF Promise!Quantity, Size
<1>4. Promise!On(quotes[q].date)' = QuotesOn(quotes[q].date)'
    BY DEF Promise!On, QuotesOn
<1>5. Promise!Given(quotes[q].date)' = Promised(quotes[q].date)'
    BY <1>3, <1>4 DEF Promise!Given, Promised
<1> QED BY <1>2, <1>5 DEF Promise!Fits

\* Create: the swept holds leave and the new one enters.
LEMMA CreateHoldMaps ==
    ASSUME Inductive, NEW q \in Quotes, NEW S \in SUBSET Quotes, CreateHold(q, S)
    PROVE  Promise!Hold(q, S)
<1>1. S \in SUBSET DueHolds /\ holds[q] = "none"
      /\ holds' = [Swept(S) EXCEPT ![q] = "active"]
    BY DEF CreateHold
<1>2. S \subseteq ActiveHolds /\ q \notin ActiveHolds
    BY <1>1, SweptHolds DEF ActiveHolds
<1>3. ActiveHolds' = (ActiveHolds \ S) \cup {q}
    BY <1>1, SweptHolds DEF ActiveHolds
<1>4. surface' = surface /\ quotes' = quotes /\ orders' = orders BY DEF CreateHold
<1>5. LiveOrders' = LiveOrders BY <1>4 DEF LiveOrders
<1>6. Promise!Fits(q) BY <1>4, CreateHoldStep, FitsMaps
<1> QED BY <1>2, <1>3, <1>4, <1>5, <1>6 DEF Promise!Hold

\* A direct order sells, whatever hold the quote may have.
LEMMA OrderDirectMaps ==
    ASSUME Inductive, NEW q \in Quotes, NEW S \in SUBSET Quotes, OrderDirect(q, S)
    PROVE  Promise!Sell(q, S)
<1>1. /\ S \in SUBSET DueHolds /\ orders[q] = "none"
      /\ holds' = Swept(S) /\ orders' = [orders EXCEPT ![q] = "unpaid"]
    BY DEF OrderDirect
<1>2. S \subseteq ActiveHolds /\ q \notin LiveOrders
    BY <1>1, SweptHolds DEF LiveOrders
<1>3. ActiveHolds' = ActiveHolds \ S BY <1>1, SweptHolds DEF ActiveHolds
<1>4. surface' = surface /\ quotes' = quotes BY DEF OrderDirect
<1>5. TypeOK BY DEF Inductive
<1>6. LiveOrders' = LiveOrders \cup {q} BY <1>1, <1>5 DEF LiveOrders, TypeOK
<1>7. {h \in Quotes : orders'[h] = "exposed"} = {h \in Quotes : orders[h] = "exposed"}
    BY <1>1, <1>5 DEF TypeOK
<1>8. Promise!Fits(q) BY <1>4, OrderDirectStep, FitsMaps
<1> QED BY <1>2, <1>3, <1>4, <1>6, <1>7, <1>8 DEF Promise!Sell

\* An order from a hold converts it.
LEMMA OrderFromHoldMaps ==
    ASSUME Inductive, NEW q \in Quotes, NEW S \in SUBSET Quotes, OrderFromHold(q, S)
    PROVE  Promise!Convert(q, S)
<1>1. /\ S \in SUBSET DueHolds /\ orders[q] = "none" /\ holds[q] = "active"
      /\ holds' = [Swept(S) EXCEPT ![q] = "consumed"]
      /\ orders' = [orders EXCEPT ![q] = "unpaid"]
      /\ quotes[q].state = "fresh"
    BY DEF OrderFromHold, Admissible
<1>2. S \subseteq ActiveHolds /\ q \notin LiveOrders /\ q \in ActiveHolds \ S
    BY <1>1, SweptHolds DEF LiveOrders, ActiveHolds, DueHolds
<1>3. ActiveHolds' = ActiveHolds \ (S \cup {q})
    BY <1>1, SweptHolds DEF ActiveHolds
<1>4. surface' = surface /\ quotes' = quotes BY DEF OrderFromHold
<1>5. TypeOK BY DEF Inductive
<1>6. LiveOrders' = LiveOrders \cup {q} BY <1>1, <1>5 DEF LiveOrders, TypeOK
<1>7. {h \in Quotes : orders'[h] = "exposed"} = {h \in Quotes : orders[h] = "exposed"}
    BY <1>1, <1>5 DEF TypeOK
<1> QED BY <1>2, <1>3, <1>4, <1>6, <1>7 DEF Promise!Convert

\* Released and swept holds are freed.
LEMMA ReleaseHoldMaps ==
    ASSUME Inductive, NEW q \in Quotes, NEW S \in SUBSET Quotes, ReleaseHold(q, S)
    PROVE  S \cup {q} \in SUBSET ActiveHolds /\ Promise!Free(S \cup {q})
<1>1. S \in SUBSET DueHolds /\ holds[q] = "active"
      /\ holds' = [Swept(S) EXCEPT ![q] = "released"]
    BY DEF ReleaseHold
<1>2. S \cup {q} \subseteq ActiveHolds BY <1>1, SweptHolds DEF ActiveHolds
<1>3. ActiveHolds' = ActiveHolds \ (S \cup {q})
    BY <1>1, SweptHolds DEF ActiveHolds
<1>4. surface' = surface /\ quotes' = quotes /\ orders' = orders BY DEF ReleaseHold
<1>5. LiveOrders' = LiveOrders BY <1>4 DEF LiveOrders
<1> QED BY <1>2, <1>3, <1>4, <1>5 DEF Promise!Free

\* A sweep frees what it sweeps.
LEMMA SweepHoldsMaps ==
    ASSUME Inductive, NEW S \in SUBSET Quotes, SweepHolds(S)
    PROVE  S \in SUBSET ActiveHolds /\ Promise!Free(S)
<1>1. S \in SUBSET DueHolds /\ holds' = Swept(S) BY DEF SweepHolds
<1>2. S \subseteq ActiveHolds BY <1>1, SweptHolds
<1>3. ActiveHolds' = ActiveHolds \ S BY <1>1, SweptHolds DEF ActiveHolds
<1>4. surface' = surface /\ quotes' = quotes /\ orders' = orders BY DEF SweepHolds
<1>5. LiveOrders' = LiveOrders BY <1>4 DEF LiveOrders
<1> QED BY <1>2, <1>3, <1>4, <1>5 DEF Promise!Free

\* Abandoned orders are dropped, and none of them has a payment under way.
LEMMA ExpireMaps ==
    ASSUME Inductive, NEW T \in SUBSET Quotes, ExpireAbandonedOrders(T)
    PROVE  T \in SUBSET LiveOrders /\ Promise!Drop(T)
<1>1. /\ \A q \in T : orders[q] = "unpaid"
      /\ orders' = [q \in Quotes |-> IF q \in T THEN "expired" ELSE orders[q]]
      /\ surface' = surface /\ quotes' = quotes /\ holds' = holds
    BY DEF ExpireAbandonedOrders
<1>2. T \subseteq LiveOrders \ {q \in Quotes : orders[q] = "exposed"}
    BY <1>1 DEF LiveOrders
<1>3. LiveOrders' = LiveOrders \ T BY <1>1 DEF LiveOrders
<1>4. ActiveHolds' = ActiveHolds BY <1>1 DEF ActiveHolds
<1>5. {h \in Quotes : orders'[h] = "exposed"} = {h \in Quotes : orders[h] = "exposed"}
    BY <1>1
<1> QED BY <1>1, <1>2, <1>3, <1>4, <1>5 DEF Promise!Drop

\* A payment exposes an order, and settles it.
LEMMA PaymentMaps ==
    ASSUME Inductive, NEW q \in Quotes
    PROVE  /\ PaymentExposes(q) => Promise!Expose(q)
           /\ PaymentSettlesUnpaid(q) => Promise!Settle(q)
<1>1. TypeOK BY DEF Inductive
<1>2. ASSUME PaymentExposes(q)
      PROVE  Promise!Expose(q)
    <2>1. /\ orders[q] = "unpaid" /\ orders' = [orders EXCEPT ![q] = "exposed"]
          /\ surface' = surface /\ quotes' = quotes /\ holds' = holds
        BY <1>2 DEF PaymentExposes
    <2>2. q \in LiveOrders /\ LiveOrders' = LiveOrders
        BY <1>1, <2>1 DEF LiveOrders, TypeOK
    <2>3. {h \in Quotes : orders'[h] = "exposed"} =
              {h \in Quotes : orders[h] = "exposed"} \cup {q}
        BY <1>1, <2>1 DEF TypeOK
    <2>4. ActiveHolds' = ActiveHolds BY <2>1 DEF ActiveHolds
    <2> QED BY <2>1, <2>2, <2>3, <2>4 DEF Promise!Expose
<1>3. ASSUME PaymentSettlesUnpaid(q)
      PROVE  Promise!Settle(q)
    <2>1. /\ orders[q] = "exposed" /\ orders' = [orders EXCEPT ![q] = "unpaid"]
          /\ surface' = surface /\ quotes' = quotes /\ holds' = holds
        BY <1>3 DEF PaymentSettlesUnpaid
    <2>2. LiveOrders' = LiveOrders BY <1>1, <2>1 DEF LiveOrders, TypeOK
    <2>3. {h \in Quotes : orders'[h] = "exposed"} =
              {h \in Quotes : orders[h] = "exposed"} \ {q}
        BY <1>1, <2>1 DEF TypeOK
    <2>4. ActiveHolds' = ActiveHolds BY <2>1 DEF ActiveHolds
    <2> QED BY <2>1, <2>2, <2>3, <2>4 DEF Promise!Settle
<1> QED BY <1>2, <1>3

\* The clock is invisible.
LEMMA ClockMaps ==
    ASSUME Inductive,
           \/ \E q \in Quotes : QuoteExpires(q) \/ OrderLapses(q)
           \/ \E v \in Versions, d \in Dates : CutoffPasses(v, d)
           \/ UNCHANGED vars
    PROVE  UNCHANGED Promise!pvars
<1>1. TypeOK BY DEF Inductive
<1>2. holds' = holds /\ orders' = orders /\ surface' = surface
    BY DEF QuoteExpires, OrderLapses, CutoffPasses, vars
<1>3. \A h \in Quotes : /\ quotes'[h].date = quotes[h].date
                        /\ quotes'[h].quantity = quotes[h].quantity
    <2>1. \A h \in Quotes : \/ quotes'[h] = quotes[h]
                            \/ quotes'[h] = [quotes[h] EXCEPT !.state = "expired"]
                            \/ quotes'[h] = [quotes[h] EXCEPT !.state = "lapsed"]
        BY <1>1 DEF QuoteExpires, OrderLapses, CutoffPasses, vars, TypeOK
    <2>2. \A h \in Quotes : quotes[h] \in Quote BY <1>1 DEF TypeOK
    <2> QED BY <2>1, <2>2 DEF Quote
<1> QED BY <1>2, <1>3, SameMapping DEF Promise!pvars

\* Every step of the detailed specification is a step of the promise, or none.
LEMMA PromiseNext ==
    ASSUME Inductive, [Next]_vars
    PROVE  [Promise!Next]_(Promise!pvars)
<1>1. CounterStep /\ RowStep BY NextStep
<1>2. ASSUME NEW p \in Policies, NEW shut \in SUBSET Dates, Publish(p, shut)
      PROVE  Promise!Next
    BY <1>1, <1>2, PublishMaps DEF Promise!Next, Publish
<1>3. ASSUME NEW p \in Policies, PublishInactive(p)
      PROVE  Promise!Next
    BY <1>1, <1>3, PublishMaps DEF Promise!Next, PublishInactive
<1>4. ASSUME NEW q \in Quotes, NEW d \in Dates, NEW n \in 1 .. MaxQuantity,
             CreateQuote(q, d, n)
      PROVE  Promise!Next
    BY <1>1, <1>4, CreateQuoteMaps DEF Promise!Next
<1>5. ASSUME NEW q \in Quotes, NEW S \in SUBSET Quotes, CreateHold(q, S)
      PROVE  Promise!Next
    BY <1>5, CreateHoldMaps DEF Promise!Next, Promise!Hold
<1>6. ASSUME NEW q \in Quotes, NEW S \in SUBSET Quotes, ReleaseHold(q, S)
      PROVE  Promise!Next
    BY <1>6, ReleaseHoldMaps DEF Promise!Next
<1>7. ASSUME NEW S \in SUBSET Quotes, SweepHolds(S)
      PROVE  Promise!Next
    BY <1>7, SweepHoldsMaps DEF Promise!Next
<1>8. ASSUME NEW q \in Quotes, NEW S \in SUBSET Quotes, OrderFromHold(q, S)
      PROVE  Promise!Next
    BY <1>8, OrderFromHoldMaps DEF Promise!Next, Promise!Convert
<1>9. ASSUME NEW q \in Quotes, NEW S \in SUBSET Quotes, OrderDirect(q, S)
      PROVE  Promise!Next
    BY <1>9, OrderDirectMaps DEF Promise!Next, Promise!Sell
<1>10. ASSUME NEW T \in SUBSET Quotes, ExpireAbandonedOrders(T)
       PROVE  Promise!Next
    BY <1>10, ExpireMaps DEF Promise!Next
<1>11. ASSUME NEW q \in Quotes, PaymentExposes(q) \/ PaymentSettlesUnpaid(q)
       PROVE  Promise!Next
    BY <1>11, PaymentMaps DEF Promise!Next
<1>12. CASE \/ \E q \in Quotes : QuoteExpires(q) \/ OrderLapses(q)
            \/ \E v \in Versions, d \in Dates : CutoffPasses(v, d)
            \/ UNCHANGED vars
    BY <1>12, ClockMaps
<1> QED BY <1>2, <1>3, <1>4, <1>5, <1>6, <1>7, <1>8, <1>9, <1>10, <1>11, <1>12
        DEF Next

\* The counters, versions, deadlines and sweeps of the code keep the promise
\* of PickupPromise.
THEOREM KeepsThePromise == Spec => PromiseKept
<1>1. Init => Promise!Init BY PromiseInit
<1>2. Inductive /\ [Next]_vars => [Promise!Next]_(Promise!pvars) BY PromiseNext
<1> QED BY <1>1, <1>2, InductiveInvariant, PTL DEF Spec, PromiseKept, Promise!Spec

-----------------------------------------------------------------------------
(* The promise together with payment *)

\* An order is given up after its deadline only, and the deadline stays passed.
GivenUpIsLapsed ==
    \A q \in Quotes : orders[q] = "expired" => quotes[q].state = "lapsed"

\* A step in which no payment has a part: what capacity sees of an order is as
\* before, and a new order has the payment of a quote nobody ordered.
NoPaymentMoves ==
    \A q \in Quotes :
        /\ orders'[q] = orders[q] \/ (orders[q] = "none" /\ orders'[q] = "unpaid")
        /\ quotes'[q].state = "lapsed" <=> quotes[q].state = "lapsed"

\* The capacity of the joint promise is PickupPromise of the same carts.
LEMMA SameCapacity ==
    /\ Together!Exposed = {q \in Quotes : orders[q] = "exposed"}
    /\ Together!Exposed' = {q \in Quotes : orders'[q] = "exposed"}
BY DEF Together!Exposed, Payments

LEMMA SameInit == Promise!Init => Together!Capacity!Init
BY SameCapacity DEF Promise!Init, Together!Capacity!Init

LEMMA SameFits ==
    ASSUME NEW q \in Quotes
    PROVE  Promise!Fits(q) => Together!Capacity!Fits(q)
<1>1. Promise!Quantity' = Together!Capacity!Quantity'
    BY DEF Promise!Quantity, Together!Capacity!Quantity
<1>2. \A d \in Dates : Promise!On(d)' = Together!Capacity!On(d)'
    BY DEF Promise!On, Together!Capacity!On
<1> QED BY <1>1, <1>2
        DEF Promise!Fits, Together!Capacity!Fits, Promise!Given, Together!Capacity!Given,
            Promise!On, Together!Capacity!On, Promise!Quantity, Together!Capacity!Quantity

LEMMA SameCommands ==
    /\ Promise!Republish => Together!Capacity!Republish
    /\ \A R \in SUBSET Quotes :
          /\ Promise!Free(R) => Together!Capacity!Free(R)
          /\ Promise!Drop(R) => Together!Capacity!Drop(R)
    /\ \A q \in Quotes : Promise!Fill(q) => Together!Capacity!Fill(q)
    /\ \A q \in Quotes, R \in SUBSET Quotes :
          /\ Promise!Hold(q, R) => Together!Capacity!Hold(q, R)
          /\ Promise!Sell(q, R) => Together!Capacity!Sell(q, R)
          /\ Promise!Convert(q, R) => Together!Capacity!Convert(q, R)
<1>1. Promise!Republish => Together!Capacity!Republish
    BY SameCapacity DEF Promise!Republish, Together!Capacity!Republish
<1>2. ASSUME NEW R \in SUBSET Quotes
      PROVE  /\ Promise!Free(R) => Together!Capacity!Free(R)
             /\ Promise!Drop(R) => Together!Capacity!Drop(R)
    BY SameCapacity DEF Promise!Free, Together!Capacity!Free,
                        Promise!Drop, Together!Capacity!Drop
<1>3. ASSUME NEW q \in Quotes
      PROVE  Promise!Fill(q) => Together!Capacity!Fill(q)
    BY SameCapacity DEF Promise!Fill, Together!Capacity!Fill
<1>4. ASSUME NEW q \in Quotes, NEW R \in SUBSET Quotes
      PROVE  /\ Promise!Hold(q, R) => Together!Capacity!Hold(q, R)
             /\ Promise!Sell(q, R) => Together!Capacity!Sell(q, R)
             /\ Promise!Convert(q, R) => Together!Capacity!Convert(q, R)
    BY SameCapacity, SameFits
       DEF Promise!Hold, Together!Capacity!Hold, Promise!Sell, Together!Capacity!Sell,
           Promise!Convert, Together!Capacity!Convert
<1> QED BY <1>1, <1>2, <1>3, <1>4

\* Where no payment moves, the payments are the same.
LEMMA SamePayments ==
    ASSUME Inductive, NoPaymentMoves
    PROVE  Payments' = Payments
BY DEF Inductive, TypeOK, NoPaymentMoves, Payments

\* Commands on quotes and holds, the trigger and publication leave the orders'
\* states and deadlines alone; a command that orders needs a fresh quote, whose
\* payment is new.
LEMMA CommandsMovePayments ==
    ASSUME Inductive
    PROVE  /\ (orders' = orders /\ quotes' = quotes) => NoPaymentMoves
           /\ \A q \in Quotes, d \in Dates, n \in 1 .. MaxQuantity :
                 CreateQuote(q, d, n) => NoPaymentMoves
           /\ \A q \in Quotes, S \in SUBSET Quotes :
                 OrderFromHold(q, S) \/ OrderDirect(q, S) =>
                     NoPaymentMoves /\ Payments[q] = Together!NoPayment
<1>1. TypeOK BY DEF Inductive
<1>2. (orders' = orders /\ quotes' = quotes) => NoPaymentMoves BY DEF NoPaymentMoves
<1>3. ASSUME NEW q \in Quotes, NEW d \in Dates, NEW n \in 1 .. MaxQuantity,
             CreateQuote(q, d, n)
      PROVE  NoPaymentMoves
    <2>1. \A h \in Quotes \ {q} : quotes'[h] = quotes[h]
        BY <1>1, <1>3 DEF TypeOK, CreateQuote
    <2>2. quotes[q].state = "none" /\ quotes'[q].state = "fresh"
        BY <1>1, <1>3 DEF TypeOK, CreateQuote
    <2>3. orders' = orders BY <1>3 DEF CreateQuote
    <2> QED BY <2>1, <2>2, <2>3 DEF NoPaymentMoves
<1>4. ASSUME NEW q \in Quotes, NEW S \in SUBSET Quotes,
             OrderFromHold(q, S) \/ OrderDirect(q, S)
      PROVE  NoPaymentMoves /\ Payments[q] = Together!NoPayment
    <2>1. /\ orders[q] = "none" /\ orders' = [orders EXCEPT ![q] = "unpaid"]
          /\ quotes' = quotes /\ quotes[q].state = "fresh"
        BY <1>4 DEF OrderFromHold, OrderDirect, Admissible
    <2>2. NoPaymentMoves BY <1>1, <2>1 DEF TypeOK, NoPaymentMoves
    <2>3. Payments[q] = Together!NoPayment BY <2>1 DEF Payments, Together!NoPayment
    <2> QED BY <2>2, <2>3
<1> QED BY <1>2, <1>3, <1>4

\* A payment exposes an order or settles it: the order has units, and its
\* payment moves as PaymentPromise allows.
LEMMA PaymentMapsTogether ==
    ASSUME Inductive, NEW q \in Quotes, PaymentExposes(q) \/ PaymentSettlesUnpaid(q)
    PROVE  Together!Pay(q)
<1>1. TypeOK BY DEF Inductive
<1>2. orders[q] \in {"unpaid", "exposed"} /\ q \in LiveOrders
    BY DEF PaymentExposes, PaymentSettlesUnpaid, LiveOrders
<1>3. surface' = surface /\ quotes' = quotes /\ holds' = holds /\ ActiveHolds' = ActiveHolds
    BY DEF PaymentExposes, PaymentSettlesUnpaid, ActiveHolds
<1>4. LiveOrders' = LiveOrders
    BY <1>1 DEF TypeOK, LiveOrders, PaymentExposes, PaymentSettlesUnpaid
<1>5. Payments' = [Payments EXCEPT ![q] = Payments'[q]]
    BY <1>1 DEF TypeOK, Payments, PaymentExposes, PaymentSettlesUnpaid
<1>6. Together!Payment(q)!Expose \/ Together!Payment(q)!Settle
    BY <1>1 DEF TypeOK, Payments, PaymentExposes, PaymentSettlesUnpaid,
                Together!Payment!Expose, Together!Payment!Settle
<1>7. Together!Payment(q)!Next /\ ~Together!Payment(q)!Expire
    BY <1>6 DEF Together!Payment!Next, Together!Payment!Expose,
                Together!Payment!Settle, Together!Payment!Expire
<1> QED BY <1>2, <1>3, <1>4, <1>5, <1>7 DEF Together!Pay

\* The deadline of an order that has its units passes.
LEMMA LapseMapsTogether ==
    ASSUME Inductive, GivenUpIsLapsed, NEW q \in Quotes, OrderLapses(q)
    PROVE  Together!Pay(q)
<1>1. TypeOK BY DEF Inductive
<1>2. /\ quotes[q].state = "expired" /\ orders[q] # "none"
      /\ surface' = surface /\ holds' = holds /\ orders' = orders
    BY DEF OrderLapses
<1>3. orders[q] \in {"unpaid", "exposed"}
    BY <1>1, <1>2 DEF TypeOK, OrderState, GivenUpIsLapsed
<1>4. \A h \in Quotes : quotes'[h] =
          IF h = q THEN [quotes[q] EXCEPT !.state = "lapsed"] ELSE quotes[h]
    BY <1>1 DEF TypeOK, OrderLapses
<1>5. \A h \in Quotes : quotes[h] \in Quote BY <1>1 DEF TypeOK
<1>6. /\ \A h \in Quotes : /\ quotes'[h].date = quotes[h].date
                           /\ quotes'[h].quantity = quotes[h].quantity
      /\ quotes'[q].state = "lapsed"
      /\ \A h \in Quotes \ {q} : quotes'[h] = quotes[h]
    BY <1>4, <1>5 DEF Quote
<1>7. q \in LiveOrders /\ LiveOrders' = LiveOrders /\ ActiveHolds' = ActiveHolds
    BY <1>2, <1>3 DEF LiveOrders, ActiveHolds
<1>8. Payments' = [Payments EXCEPT ![q] = Payments'[q]]
    BY <1>2, <1>6 DEF Payments
<1>9. Together!Payment(q)!Lapse /\ ~Together!Payment(q)!Expire
    BY <1>2, <1>3, <1>6 DEF Payments, Together!Payment!Lapse, Together!Payment!Expire
<1>10. Together!Payment(q)!Next BY <1>9 DEF Together!Payment!Next
<1> QED BY <1>2, <1>6, <1>7, <1>8, <1>9, <1>10 DEF Together!Pay

\* The abandoned orders are unpaid and lapsed: their payments end with them.
LEMMA ExpireMapsTogether ==
    ASSUME Inductive, NEW T \in SUBSET Quotes, ExpireAbandonedOrders(T)
    PROVE  T \in SUBSET LiveOrders /\ Together!GiveUp(T)
<1>1. TypeOK BY DEF Inductive
<1>2. /\ \A q \in T : orders[q] = "unpaid" /\ quotes[q].state = "lapsed"
      /\ orders' = [q \in Quotes |-> IF q \in T THEN "expired" ELSE orders[q]]
      /\ quotes' = quotes
    BY DEF ExpireAbandonedOrders
<1>3. T \in SUBSET LiveOrders /\ Together!Capacity!Drop(T)
    BY ExpireMaps, SameCommands
<1>4. ASSUME NEW q \in T
      PROVE  Together!Payment(q)!Expire
    BY <1>2 DEF Payments, Together!Payment!Expire
<1>5. Payments' = [q \in Quotes |-> IF q \in T THEN Payments'[q] ELSE Payments[q]]
    BY <1>2 DEF Payments
<1> QED BY <1>3, <1>4, <1>5 DEF Together!GiveUp

\* Clock steps that no order notices.
LEMMA ClockMapsTogether ==
    ASSUME Inductive,
           \/ \E q \in Quotes : QuoteExpires(q)
           \/ \E v \in Versions, d \in Dates : CutoffPasses(v, d)
           \/ UNCHANGED vars
    PROVE  UNCHANGED Together!jvars
<1>1. TypeOK BY DEF Inductive
<1>2. UNCHANGED Promise!pvars BY ClockMaps
<1>3. orders' = orders BY DEF QuoteExpires, CutoffPasses, vars
<1>4. \A h \in Quotes : \/ quotes'[h] = quotes[h]
                        \/ /\ quotes'[h] = [quotes[h] EXCEPT !.state = "expired"]
                           /\ quotes[h].state = "fresh"
    BY <1>1 DEF QuoteExpires, CutoffPasses, vars, TypeOK
<1>5. \A h \in Quotes : quotes[h] \in Quote BY <1>1 DEF TypeOK
<1>6. NoPaymentMoves BY <1>3, <1>4, <1>5 DEF NoPaymentMoves, Quote
<1> QED BY <1>2, <1>6, SamePayments DEF Promise!pvars, Together!jvars

\* Every step of the detailed specification is a step of the joint promise.
LEMMA TogetherNext ==
    ASSUME Inductive, GivenUpIsLapsed, [Next]_vars
    PROVE  [Together!Next]_(Together!jvars)
<1>1. CounterStep /\ RowStep BY NextStep
<1>2. ASSUME Together!Serve
      PROVE  Together!Next
    BY <1>2 DEF Together!Next
<1>3. ASSUME NEW p \in Policies,
             PublishInactive(p) \/ \E shut \in SUBSET Dates : Publish(p, shut)
      PROVE  Together!Next
    <2>1. quotes' = quotes /\ holds' = holds /\ orders' = orders
        BY <1>3 DEF Publish, PublishInactive
    <2> QED BY <1>1, <1>2, <2>1, PublishMaps, SameCommands, CommandsMovePayments,
               SamePayments DEF Together!Serve
<1>4. ASSUME NEW q \in Quotes, NEW d \in Dates, NEW n \in 1 .. MaxQuantity,
             CreateQuote(q, d, n)
      PROVE  Together!Next
    BY <1>1, <1>2, <1>4, CreateQuoteMaps, SameCommands, CommandsMovePayments,
       SamePayments DEF Together!Serve
<1>5. ASSUME NEW q \in Quotes, NEW S \in SUBSET Quotes, CreateHold(q, S)
      PROVE  Together!Next
    <2>1. quotes' = quotes /\ orders' = orders BY <1>5 DEF CreateHold
    <2>2. Together!Capacity!Hold(q, S) /\ S \in SUBSET ActiveHolds
        BY <1>5, CreateHoldMaps, SameCommands DEF Together!Capacity!Hold
    <2> QED BY <1>2, <2>1, <2>2, CommandsMovePayments, SamePayments
            DEF Together!Serve
<1>6. ASSUME NEW R \in SUBSET Quotes, Promise!Free(R), R \in SUBSET ActiveHolds,
             quotes' = quotes, orders' = orders
      PROVE  Together!Next
    BY <1>2, <1>6, SameCommands, CommandsMovePayments, SamePayments
       DEF Together!Serve
<1>7. ASSUME NEW q \in Quotes, NEW S \in SUBSET Quotes, ReleaseHold(q, S)
      PROVE  Together!Next
    <2>1. quotes' = quotes /\ orders' = orders BY <1>7 DEF ReleaseHold
    <2>2. Promise!Free(S \cup {q}) /\ S \cup {q} \in SUBSET ActiveHolds
        BY <1>7, ReleaseHoldMaps
    <2>3. S \cup {q} \in SUBSET Quotes OBVIOUS
    <2> QED BY <1>6, <2>1, <2>2, <2>3
<1>8. ASSUME NEW S \in SUBSET Quotes, SweepHolds(S)
      PROVE  Together!Next
    BY <1>6, <1>8, SweepHoldsMaps DEF SweepHolds
<1>9. ASSUME NEW q \in Quotes, NEW S \in SUBSET Quotes,
             OrderFromHold(q, S) \/ OrderDirect(q, S)
      PROVE  Together!Next
    <2>1. Together!Capacity!Convert(q, S) \/ Together!Capacity!Sell(q, S)
        BY <1>9, OrderFromHoldMaps, OrderDirectMaps, SameCommands
    <2>2. S \in SUBSET ActiveHolds
        BY <2>1 DEF Together!Capacity!Convert, Together!Capacity!Sell
    <2>3. Payments' = Payments /\ Payments[q] = Together!NoPayment
        BY <1>9, CommandsMovePayments, SamePayments
    <2> QED BY <1>2, <2>1, <2>2, <2>3 DEF Together!Serve
<1>10. ASSUME NEW T \in SUBSET Quotes, ExpireAbandonedOrders(T)
       PROVE  Together!Next
    BY <1>10, ExpireMapsTogether DEF Together!Next
<1>11. ASSUME NEW q \in Quotes,
              PaymentExposes(q) \/ PaymentSettlesUnpaid(q) \/ OrderLapses(q)
       PROVE  Together!Next
    BY <1>11, PaymentMapsTogether, LapseMapsTogether DEF Together!Next
<1>12. CASE \/ \E q \in Quotes : QuoteExpires(q)
            \/ \E v \in Versions, d \in Dates : CutoffPasses(v, d)
            \/ UNCHANGED vars
    BY <1>12, ClockMapsTogether
<1> QED BY <1>3, <1>4, <1>5, <1>7, <1>8, <1>9, <1>10, <1>11, <1>12 DEF Next

\* An order is given up once its deadline has passed, and no command moves the
\* deadline of a quote that was ordered.
LEMMA GivenUpInductive ==
    ASSUME Inductive, GivenUpIsLapsed, [Next]_vars
    PROVE  GivenUpIsLapsed'
<1> SUFFICES ASSUME NEW h \in Quotes, orders'[h] = "expired"
             PROVE  quotes'[h].state = "lapsed"
    BY DEF GivenUpIsLapsed
<1>1. TypeOK BY DEF Inductive
<1>2. ASSUME quotes' = quotes, orders'[h] = orders[h]
      PROVE  quotes'[h].state = "lapsed"
    BY <1>2 DEF GivenUpIsLapsed
<1>3. ASSUME NEW q \in Quotes, NEW S \in SUBSET Quotes,
             \/ CreateHold(q, S) \/ ReleaseHold(q, S) \/ SweepHolds(S)
             \/ OrderFromHold(q, S) \/ OrderDirect(q, S)
             \/ PaymentExposes(q) \/ PaymentSettlesUnpaid(q)
      PROVE  quotes'[h].state = "lapsed"
    <2>1. quotes' = quotes /\ orders'[h] \in {orders[h], "unpaid", "exposed"}
        BY <1>1, <1>3 DEF TypeOK, CreateHold, ReleaseHold, SweepHolds, OrderFromHold,
                          OrderDirect, PaymentExposes, PaymentSettlesUnpaid
    <2> QED BY <1>2, <2>1
<1>4. ASSUME NEW T \in SUBSET Quotes, ExpireAbandonedOrders(T)
      PROVE  quotes'[h].state = "lapsed"
    <2>1. /\ \A q \in T : quotes[q].state = "lapsed"
          /\ orders'[h] = IF h \in T THEN "expired" ELSE orders[h]
          /\ quotes' = quotes
        BY <1>4 DEF ExpireAbandonedOrders
    <2> QED BY <1>2, <2>1
<1>5. ASSUME NEW p \in Policies,
             PublishInactive(p) \/ \E shut \in SUBSET Dates : Publish(p, shut)
      PROVE  quotes'[h].state = "lapsed"
    BY <1>2, <1>5 DEF Publish, PublishInactive
<1>6. CASE \/ \E q \in Quotes : QuoteExpires(q) \/ OrderLapses(q)
           \/ \E q \in Quotes, d \in Dates, n \in 1 .. MaxQuantity : CreateQuote(q, d, n)
           \/ \E v \in Versions, d \in Dates : CutoffPasses(v, d)
           \/ UNCHANGED vars
    <2>1. orders' = orders
        BY <1>6 DEF QuoteExpires, OrderLapses, CreateQuote, CutoffPasses, vars
    <2>2. quotes[h].state = "lapsed" BY <2>1 DEF GivenUpIsLapsed
    <2>3. quotes'[h] = quotes[h]
        BY <1>1, <1>6, <2>2
           DEF QuoteExpires, OrderLapses, CreateQuote, CutoffPasses, vars, TypeOK
    <2> QED BY <2>2, <2>3
<1> QED BY <1>3, <1>4, <1>5, <1>6 DEF Next

\* Capacity does to the payments of its orders what PreorderPromise allows and
\* no more: an order is ordered once, with a new payment, and its units go back
\* only with a payment that is unpaid and lapsed, for good.
THEOREM KeepsTheJointPromise == Spec => PromiseKeptTogether
<1>1. Init => Together!Init /\ GivenUpIsLapsed
    <2> SUFFICES ASSUME Init
                 PROVE  Together!Init /\ GivenUpIsLapsed
        OBVIOUS
    <2>1. Together!Capacity!Init BY PromiseInit, SameInit
    <2>2. Payments = [q \in Quotes |-> Together!NoPayment]
        BY DEF Init, NoQuote, Payments, Together!NoPayment
    <2>3. GivenUpIsLapsed BY DEF Init, GivenUpIsLapsed
    <2> QED BY <2>1, <2>2, <2>3 DEF Together!Init
<1>2. Inductive /\ GivenUpIsLapsed /\ [Next]_vars => GivenUpIsLapsed'
    BY GivenUpInductive
<1>3. Inductive /\ GivenUpIsLapsed /\ [Next]_vars => [Together!Next]_(Together!jvars)
    BY TogetherNext
<1> QED BY <1>1, <1>2, <1>3, InductiveInvariant, PTL
        DEF Spec, PromiseKeptTogether, Together!Spec
=============================================================================

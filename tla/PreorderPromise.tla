--------------------------- MODULE PreorderPromise ---------------------------
(***************************************************************************)
(* What a preorder promises to its customer: PickupPromise and             *)
(* PaymentPromise on the same orders.  The row of an order is one row, so   *)
(* that the stage payment moves it to is the stage capacity reads, and the  *)
(* job that gives its units back ends its payment in the same transaction.  *)
(***************************************************************************)
EXTENDS Integers

CONSTANTS
    Quotes, Dates,
    Load(_, _),  \* the units of a set of quotes, by their quantities
    Attempts     \* the attempts an order may have

VARIABLES
    offer, cart, held, sold,   \* see PickupPromise
    payment                    \* by quote: see PaymentPromise

jvars == <<offer, cart, held, sold, payment>>

Exposed == {q \in Quotes : payment[q].stage = "exposed"}

Capacity == INSTANCE PickupPromise WITH exposed <- Exposed

Payment(q) == INSTANCE PaymentPromise WITH
    stage <- payment[q].stage,
    lapsed <- payment[q].lapsed,
    money <- payment[q].money,
    paid <- payment[q].paid,
    confirmed <- payment[q].confirmed

NoPayment == [stage |-> "unpaid", lapsed |-> FALSE, money |-> {}, paid |-> {},
              confirmed |-> FALSE]

Init ==
    /\ Capacity!Init
    /\ payment = [q \in Quotes |-> NoPayment]

\* Quotes and holds, and orders in which no payment has a part yet.  A quote
\* becomes an order once.
Serve ==
    /\ \/ Capacity!Republish
       \/ \E R \in SUBSET held : Capacity!Free(R)
       \/ \E q \in Quotes : Capacity!Fill(q)
       \/ \E q \in Quotes, R \in SUBSET held :
             \/ Capacity!Hold(q, R)
             \/ /\ payment[q] = NoPayment
                /\ Capacity!Sell(q, R) \/ Capacity!Convert(q, R)
    /\ UNCHANGED payment

\* The payment of an order moves, and its units stay.
Pay(q) ==
    /\ q \in sold
    /\ Payment(q)!Next /\ ~Payment(q)!Expire
    /\ payment' = [payment EXCEPT ![q] = payment'[q]]
    /\ UNCHANGED <<offer, cart, held, sold>>

\* Orders lose their units, and their payment ends.
GiveUp(T) ==
    /\ Capacity!Drop(T)
    /\ \A q \in T : Payment(q)!Expire
    /\ payment' = [q \in Quotes |-> IF q \in T THEN payment'[q] ELSE payment[q]]

Next ==
    \/ Serve
    \/ \E q \in Quotes : Pay(q)
    \/ \E T \in SUBSET sold : GiveUp(T)

Spec == Init /\ [][Next]_jvars

-----------------------------------------------------------------------------
(* Properties *)

\* Whoever's money Square holds, and whoever was told that the order stands,
\* has units; and units once given back are never paid for.
CustomerIsServed ==
    \A q \in Quotes :
        /\ payment[q].money # {} \/ payment[q].confirmed => q \in sold
        /\ payment[q].stage = "expired" => q \notin sold

\* Once its units were given back an order is never paid for, confirmed or
\* given units again.
GivenUpForGood ==
    [][\A q \in Quotes : payment[q].stage = "expired" =>
           /\ payment'[q].stage = "expired" /\ q \notin sold'
           /\ payment'[q].money = {} /\ ~payment'[q].confirmed]_jvars
=============================================================================

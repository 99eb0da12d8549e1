--------------------------- MODULE PaymentPromise ---------------------------
(***************************************************************************)
(* What the payment of a preorder promises to its customer and to pickup   *)
(* capacity, without claims, evidence, webhooks or versions: Square holds  *)
(* the money of one attempt at most, and only while capacity knows that    *)
(* the order may be paid for; only an order that was paid is confirmed;    *)
(* and an order that lost its units is never charged any more.             *)
(***************************************************************************)
CONSTANT Attempts

VARIABLES
    stage,      \* what capacity sees: "unpaid", "exposed" or "expired"
    lapsed,     \* the order may be given up if it is unpaid
    money,      \* attempts Square holds money for
    paid,       \* attempts Square has ever completed
    confirmed   \* the customer was told that the order stands

pvars == <<stage, lapsed, money, paid, confirmed>>

Init ==
    /\ stage = "unpaid"
    /\ lapsed = FALSE /\ confirmed = FALSE
    /\ money = {} /\ paid = {}

\* A charge may be under way.
Expose ==
    /\ stage = "unpaid"
    /\ stage' = "exposed"
    /\ UNCHANGED <<lapsed, money, paid, confirmed>>

\* No charge is under way, and none was made that has not been given back.
Settle ==
    /\ stage = "exposed" /\ money = {} /\ ~confirmed
    /\ stage' = "unpaid"
    /\ UNCHANGED <<lapsed, money, paid, confirmed>>

\* Square reserves the money of attempt i, or completes its payment.
Take(i) ==
    /\ stage = "exposed" /\ money \subseteq {i}
    /\ money' = {i}
    /\ paid' \in {paid, paid \cup {i}}
    /\ UNCHANGED <<stage, lapsed, confirmed>>

Return ==
    /\ stage = "exposed"
    /\ money' = {}
    /\ UNCHANGED <<stage, lapsed, paid, confirmed>>

Confirm ==
    /\ stage = "exposed" /\ paid # {}
    /\ confirmed' = TRUE
    /\ UNCHANGED <<stage, lapsed, money, paid>>

\* An operator, or a refund, takes over.
Withdraw ==
    /\ confirmed' = FALSE
    /\ UNCHANGED <<stage, lapsed, money, paid>>

Lapse ==
    /\ lapsed' = TRUE
    /\ UNCHANGED <<stage, money, paid, confirmed>>

\* The units of the order are given back.
Expire ==
    /\ stage = "unpaid" /\ lapsed
    /\ stage' = "expired"
    /\ UNCHANGED <<lapsed, money, paid, confirmed>>

Next ==
    \/ Expose \/ Settle \/ Return \/ Confirm \/ Withdraw \/ Lapse \/ Expire
    \/ \E i \in Attempts : Take(i)

Spec == Init /\ [][Next]_pvars
=============================================================================

--------------------------- MODULE PickupPromise ---------------------------
(***************************************************************************)
(* What pickup capacity promises, without windows, versions, counters or   *)
(* deadlines: units of a date are given to carts, first as a hold and then *)
(* as an order, never beyond the limit in force when they are given, and   *)
(* an order whose payment is in doubt never loses them.                    *)
(***************************************************************************)
EXTENDS Integers

CONSTANTS
    Quotes, Dates,
    Load(_, _)   \* the units of a set of quotes, by their quantities

VARIABLES
    offer,    \* the published daily limit, and whether orders are taken
    cart,     \* what each quote is for
    held,     \* quotes whose units are held for a checkout
    sold,     \* quotes whose units belong to an order
    exposed   \* the orders whose payment is under way, made or in doubt

pvars == <<offer, cart, held, sold, exposed>>

Quantity == [q \in Quotes |-> cart[q].quantity]
On(d) == {q \in Quotes : cart[q].date = d}
Given(d) == Load(Quantity, held \cap On(d)) + Load(Quantity, sold \cap On(d))

Init ==
    /\ offer.open = FALSE
    /\ cart \in [Quotes -> [date : Dates, quantity : {0}]]
    /\ held = {} /\ sold = {} /\ exposed = {}

\* After the step the date of q is within the limit in force before it.
Fits(q) ==
    /\ offer.open
    /\ Given(cart[q].date)' <= offer.daily

Republish ==
    /\ offer' \in [open : BOOLEAN, daily : Nat]
    /\ UNCHANGED <<cart, held, sold, exposed>>

Fill(q) ==
    /\ cart[q].quantity = 0
    /\ cart'[q] \in [date : Dates, quantity : Nat \ {0}]
    /\ cart' = [cart EXCEPT ![q] = cart'[q]]
    /\ UNCHANGED <<offer, held, sold, exposed>>

Free(R) ==
    /\ R \subseteq held
    /\ held' = held \ R
    /\ UNCHANGED <<offer, cart, sold, exposed>>

Hold(q, R) ==
    /\ R \subseteq held /\ q \notin held
    /\ held' = (held \ R) \cup {q}
    /\ UNCHANGED <<offer, cart, sold, exposed>>
    /\ Fits(q)

Sell(q, R) ==
    /\ R \subseteq held /\ q \notin sold
    /\ held' = held \ R
    /\ sold' = sold \cup {q}
    /\ UNCHANGED <<offer, cart, exposed>>
    /\ Fits(q)

\* The hold becomes the order: the date gives nothing it had not given.
Convert(q, R) ==
    /\ R \subseteq held /\ q \in held \ R /\ q \notin sold
    /\ held' = held \ (R \cup {q})
    /\ sold' = sold \cup {q}
    /\ UNCHANGED <<offer, cart, exposed>>

Drop(T) ==
    /\ T \subseteq sold \ exposed
    /\ sold' = sold \ T
    /\ UNCHANGED <<offer, cart, held, exposed>>

Expose(q) ==
    /\ q \in sold
    /\ exposed' = exposed \cup {q}
    /\ UNCHANGED <<offer, cart, held, sold>>

Settle(q) ==
    /\ exposed' = exposed \ {q}
    /\ UNCHANGED <<offer, cart, held, sold>>

Next ==
    \/ Republish
    \/ \E R \in SUBSET held : Free(R)
    \/ \E T \in SUBSET sold : Drop(T)
    \/ \E q \in Quotes :
          \/ Fill(q) \/ Expose(q) \/ Settle(q)
          \/ \E R \in SUBSET held : Hold(q, R) \/ Sell(q, R) \/ Convert(q, R)

Spec == Init /\ [][Next]_pvars
=============================================================================

--------------------------- MODULE CheckoutPromise ---------------------------
(***************************************************************************)
(* What the storefront promises to its customer, without menus, carts,     *)
(* retries, requests that come late, card tokens or workers: a review      *)
(* makes one order, which stays as the customer saw it; Square is asked    *)
(* for the money of an order once at a time; and what the screen says of   *)
(* the payment is so, and stays so while it says it.                       *)
(***************************************************************************)
CONSTANTS
    Reviews,      \* reviews of a cart, each of which makes one order at most
    Payments,     \* payment commands
    Rows,         \* what an order may be: its lines and the menu's version
    NoReview

VARIABLES
    order,    \* by review: a set that holds its order, once there is one
    pays,     \* by payment command: the review whose order it pays, if any
    square,   \* by payment command: "none", "open", "paid" or "declined"
    screen    \* the review whose payment is shown, its order, what is said

cvars == <<order, pays, square, screen>>

Sayings == {"nothing", "paid", "declined", "unavailable"}
Blank == [review |-> NoReview, order |-> {}, says |-> "nothing"]

Tried(r) == {k \in Payments : pays[k] = r}

Init ==
    /\ order = [r \in Reviews |-> {}]
    /\ pays = [k \in Payments |-> NoReview]
    /\ square = [k \in Payments |-> "none"]
    /\ screen = Blank

MakesOrder(r) ==
    /\ order[r] = {}
    /\ \E row \in order'[r] : row \in Rows /\ order' = [order EXCEPT ![r] = {row}]

\* An order that nobody is shown: its review was left, or its answer lost.
Place(r) == MakesOrder(r) /\ UNCHANGED <<pays, square, screen>>

\* The payment form of an order: the first one, or one with another card after
\* the customer was told of a refusal.
Open(r) ==
    /\ screen' = [review |-> r, order |-> order'[r], says |-> "nothing"]
    /\ \/ order[r] # {} /\ UNCHANGED order
       \/ MakesOrder(r)
    /\ \/ Tried(r) = {}
       \/ screen.review = r /\ screen.says = "declined"
    /\ \A k \in Tried(r) : square[k] = "declined"
    /\ \E k \in Tried(NoReview) : pays' = [pays EXCEPT ![k] = r]
    /\ UNCHANGED square

\* Square takes a payment command, or decides it.  It never gets the command of
\* an order which is said not to be charged, or beside an undecided one.
Charge(k) ==
    /\ pays[k] # NoReview /\ square[k] \in {"none", "open"}
    /\ square' = [square EXCEPT ![k] = square'[k]]
    /\ square'[k] \in {"open", "paid", "declined"}
    /\ square[k] = "none" =>
          /\ \A j \in Tried(pays[k]) \ {k} : square[j] = "declined"
          /\ screen.review = pays[k] => screen.says # "unavailable"
    /\ UNCHANGED <<order, pays>>

\* What the screen may come to say, seen from the end of the step.
Truth(says) ==
    /\ says = "paid" => \E k \in Tried(screen.review) : square'[k] = "paid"
    /\ says = "declined" => \A k \in Tried(screen.review) : square'[k] = "declined"
    /\ says = "unavailable" =>
          \A k \in Tried(screen.review) : square'[k] \in {"none", "declined"}

Says ==
    /\ screen.review # NoReview
    /\ screen' = [screen EXCEPT !.says = screen'.says]
    /\ screen'.says \in Sayings /\ Truth(screen'.says)
    /\ UNCHANGED <<order, pays>>

\* The page is left, loaded again, or loses its menu.
Leave == screen' = Blank /\ UNCHANGED <<order, pays, square>>

Next ==
    \/ Leave
    \/ Says /\ UNCHANGED square
    \/ \E r \in Reviews : Place(r) \/ Open(r)
    \/ \E k \in Payments : Charge(k) /\ (Says \/ UNCHANGED screen)

Spec == Init /\ [][Next]_cvars

-----------------------------------------------------------------------------
(* Properties *)

\* Square never has two payments of one order that are paid or undecided.
AskedOnce ==
    \A r \in Reviews : \A j, k \in Tried(r) :
        square[j] \in {"open", "paid"} /\ square[k] \in {"open", "paid"} => j = k

\* What the screen says of the payment, and of the order, is so.
ScreenIsTrue ==
    screen.review # NoReview =>
        /\ screen.order = order[screen.review]
        /\ screen.says = "paid" =>
              \E k \in Tried(screen.review) : square[k] = "paid"
        /\ screen.says = "declined" =>
              \A k \in Tried(screen.review) : square[k] = "declined"
        /\ screen.says = "unavailable" =>
              \A k \in Tried(screen.review) : square[k] \in {"none", "declined"}
=============================================================================

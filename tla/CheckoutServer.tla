--------------------------- MODULE CheckoutServer ---------------------------
(***************************************************************************)
(* What the storefront meets behind its four checkout calls (service       *)
(* preorder-operations): quote, hold, order intent and payment initiation, *)
(* each a command that is executed once and whose receipt is returned when *)
(* the same command comes again.  Capacity is that of PreorderCapacity and *)
(* the fate of a charge that of PreorderPayment; here both are a choice.   *)
(***************************************************************************)
EXTENDS Integers, FiniteSets

CONSTANTS
    Items,         \* products
    Menu,          \* Menu[v]: the products of published configuration v
    MaxCheckouts,  \* bound: sets of checkout commands made by the browser
    MaxRetries     \* bound: payment commands that replace another one

ASSUME CheckoutAssumption ==
    /\ MaxCheckouts \in Nat /\ MaxRetries \in Nat
    /\ Cardinality(DOMAIN Menu) \in Nat \ {0}
    /\ DOMAIN Menu = 1 .. Cardinality(DOMAIN Menu)
    /\ \A v \in DOMAIN Menu : Menu[v] \subseteq Items

Versions == DOMAIN Menu
Checkouts == 1 .. MaxCheckouts
\* The first payment command of a checkout has the number of the checkout.
Payments == 1 .. MaxCheckouts + MaxRetries

VARIABLES
    published, \* momi_preorder.surfaces: the current versions
    quotes,    \* momi_preorder.quotes, by the command that made them
    holds,     \* checkouts whose hold command has a receipt
    orders,    \* momi_preorder.orders, by the command that made them
    charges    \* payment commands: the attempt, its worker and its charge

server == <<published, quotes, holds, orders, charges>>

-----------------------------------------------------------------------------
(* Types *)

\* "visit" is the review the command comes from, 0 where there is no row.
Quote == [visit : 0 .. MaxCheckouts, lines : SUBSET Items, version : {0} \cup Versions,
          hold : BOOLEAN]
NoQuote == [visit |-> 0, lines |-> {}, version |-> 0, hold |-> FALSE]

\* payment_status of an order; "none" where there is no order.
Order == {"none", "not_started", "pending", "paid", "declined", "indeterminate"}

\* "at" follows a payment command: made, handed a card token, sent, claimed
\* by a worker, over.  "square" is what Square has: nothing, an undecided
\* payment, or a decided one.
Charge == [checkout : 0 .. MaxCheckouts,
           at : {"made", "token", "sent", "claimed", "over"},
           square : {"none", "open", "paid", "declined"}]
NoCharge == [checkout |-> 0, at |-> "made", square |-> "none"]

ServerTypeOK ==
    /\ published \in Versions
    /\ quotes \in [Checkouts -> Quote]
    /\ holds \subseteq Checkouts
    /\ orders \in [Checkouts -> Order]
    /\ charges \in [Payments -> Charge]

ServerInit ==
    /\ published = 1
    /\ quotes = [c \in Checkouts |-> NoQuote]
    /\ holds = {}
    /\ orders = [c \in Checkouts |-> "none"]
    /\ charges = [k \in Payments |-> NoCharge]

Ordered == {c \in Checkouts : orders[c] # "none"}
Money(k) == charges[k].square \in {"open", "paid"}

-----------------------------------------------------------------------------
(* Commands *)

Request == [visit : 1 .. MaxCheckouts, checkout : Checkouts,
            call : {"quote", "hold", "order"},
            lines : SUBSET Items, version : Versions]

\* Faulty: the stored answer, whatever the request asks.
ServesQuoteByCommand(r) ==
    /\ \/ quotes[r.checkout] # NoQuote /\ UNCHANGED quotes
       \/ /\ quotes[r.checkout] = NoQuote
          /\ r.version = published
          /\ \E hold \in BOOLEAN :
                quotes' = [quotes EXCEPT ![r.checkout] =
                             [visit |-> r.visit, lines |-> r.lines,
                              version |-> r.version, hold |-> hold]]
    /\ UNCHANGED <<holds, orders>>

\* create_quote_v1: the stored answer, if the request is the stored one, or a
\* new quote of the current versions, with or without the need of a hold.
ServesQuote(r) ==
    LET q == quotes[r.checkout]
    IN  /\ \/ /\ q # NoQuote
              /\ q.lines = r.lines /\ q.version = r.version
              /\ UNCHANGED quotes
           \/ /\ q = NoQuote
              /\ r.version = published
              /\ \E hold \in BOOLEAN :
                    quotes' = [quotes EXCEPT ![r.checkout] =
                                 [visit |-> r.visit, lines |-> r.lines,
                                  version |-> r.version, hold |-> hold]]
        /\ UNCHANGED <<holds, orders>>

\* The quote still binds: nothing was published since.
Binding(q) == q # NoQuote /\ q.version = published

\* manage_checkout_hold_v1 with action create.
ServesHold(r) ==
    /\ r.checkout \in holds \/ Binding(quotes[r.checkout])
    /\ holds' = holds \cup {r.checkout}
    /\ UNCHANGED <<quotes, orders>>

\* create_order_intent_v1.
ServesOrder(r) ==
    LET q == quotes[r.checkout]
    IN  /\ \/ /\ r.checkout \in Ordered
              /\ UNCHANGED orders
           \/ /\ r.checkout \notin Ordered
              /\ Binding(q) /\ (q.hold => r.checkout \in holds)
              /\ orders' = [orders EXCEPT ![r.checkout] = "not_started"]
        /\ UNCHANGED <<quotes, holds>>

\* The command of a request has no receipt yet.
Unserved(r) ==
    CASE r.call = "quote" -> quotes[r.checkout] = NoQuote
      [] r.call = "hold" -> r.checkout \notin holds
      [] r.call = "order" -> r.checkout \notin Ordered

\* A request is carried out, or it is refused and changes nothing: for the
\* reasons above, for want of room or time, by the rate limit, by an outage.
Serves(r, accepted) ==
    /\ IF accepted
       THEN \/ r.call = "quote" /\ ServesQuote(r)
            \/ r.call = "hold" /\ ServesHold(r)
            \/ r.call = "order" /\ ServesOrder(r)
       ELSE UNCHANGED <<quotes, holds, orders>>
    /\ UNCHANGED published

\* claim_payment_attempt_v1 with a new command: only when nothing is paid or
\* under way.  That the order has the expected version, is not expired and
\* before its cutoff are further conditions, which may fail at any time.
Claimable(k) == orders[charges[k].checkout] \in {"not_started", "declined"}

OrderBecomes(k, status) == orders' = [orders EXCEPT ![charges[k].checkout] = status]

-----------------------------------------------------------------------------
(* Steps of the server and of Square alone *)

\* publish_configuration_v1.
Publish ==
    /\ published + 1 \in Versions
    /\ published' = published + 1
    /\ UNCHANGED <<quotes, holds, orders, charges>>

\* Square decides a payment it has, and its webhook or a reconciliation tells.
SquareDecides(k) ==
    /\ charges[k].at = "over" /\ charges[k].square = "open"
    /\ \E s \in {"paid", "declined"} :
          /\ charges' = [charges EXCEPT ![k].square = s]
          /\ OrderBecomes(k, s)
    /\ UNCHANGED <<published, quotes, holds>>

ServerAlone ==
    \/ Publish
    \/ \E k \in Payments : SquareDecides(k)
=============================================================================

-------------------------- MODULE PreorderCapacity --------------------------
(***************************************************************************)
(* Pickup capacity of the preorder surface (service preorder-operations):  *)
(* configuration publication, fulfillment windows kept per policy version, *)
(* the physical ledger kept per pickup date, quotes, checkout holds, order *)
(* intents and the cron job that releases abandoned orders.                *)
(*                                                                         *)
(* Every action is one database transaction: the functions modelled here   *)
(* take the surface FOR SHARE (publication takes it for update) and the    *)
(* quote, hold, order, window and ledger rows FOR UPDATE before they       *)
(* decide, so they serialise.                                              *)
(***************************************************************************)
EXTENDS PickupUnits

CONSTANTS
    Quotes,       \* identities of the quotes that may ever be created
    Dates,        \* pickup dates inside the fourteen-day horizon
    MaxVersion,   \* bound: publications that change the surface
    MaxQuantity,  \* bound: units in one cart
    Policies      \* capacity policies an operator may publish

\* publish_configuration_v1 refuses a policy whose limited_threshold is above
\* its daily_limit.
ASSUME CapacityAssumption ==
    /\ IsFiniteSet(Quotes)
    /\ Dates # {}
    /\ MaxVersion \in Nat
    /\ MaxQuantity \in Nat
    /\ Policies \subseteq [limit : Nat, threshold : Nat]
    /\ \A p \in Policies : p.threshold <= p.limit

VARIABLES
    surface,   \* momi_preorder.surfaces: the published configuration
    windows,   \* momi_preorder.fulfillment_windows, by policy version and date
    ledger,    \* momi_preorder.fulfillment_capacity, by date
    quotes,    \* momi_preorder.quotes, with the state of their deadline
    holds,     \* momi_preorder.checkout_holds, at most one for a quote
    orders     \* momi_preorder.orders, at most one for a quote

vars == <<surface, windows, ledger, quotes, holds, orders>>

-----------------------------------------------------------------------------
(* Types *)

Versions == 0 .. MaxVersion
Surface == [version : Versions, enabled : BOOLEAN, limit : Nat, threshold : Nat]

\* "open" is the test every admission makes: the window is enabled and its
\* order_cutoff_at has not passed.
Window == [held : Nat, committed : Nat, limit : Nat, threshold : Nat,
           open : BOOLEAN]
Counter == [held : Nat, committed : Nat]

\* "fresh" before expires_at, "expired" after it, "lapsed" when the thirty
\* minutes of the order made from the quote (capacity_expires_at) are over.
QuoteState == {"none", "fresh", "expired", "lapsed"}
Quote == [state : QuoteState, version : Versions, date : Dates,
          quantity : 0 .. MaxQuantity, result : {"available", "hold_required"}]
HoldStatus == {"none", "active", "released", "expired", "consumed"}

\* An order as its capacity sees it: "unpaid" is awaiting_payment with every
\* attempt declined or canceled without review, or none at all; "exposed" is
\* any other order that owns its units; "expired" has capacity_released_at.
OrderState == {"none", "unpaid", "exposed", "expired"}

TypeOK ==
    /\ surface \in Surface
    /\ windows \in [Versions -> [Dates -> Window]]
    /\ ledger \in [Dates -> Counter]
    /\ quotes \in [Quotes -> Quote]
    /\ holds \in [Quotes -> HoldStatus]
    /\ orders \in [Quotes -> OrderState]

-----------------------------------------------------------------------------
(* What the rows say *)

Size == [q \in Quotes |-> quotes[q].quantity]

QuotesFor(v, d) == {q \in Quotes : quotes[q].version = v /\ quotes[q].date = d}
QuotesOn(d) == {q \in Quotes : quotes[q].date = d}

ActiveHolds == {q \in Quotes : holds[q] = "active"}
LiveOrders == {q \in Quotes : orders[q] \in {"unpaid", "exposed"}}

\* Faulty: a sweep that forgets expires_at.
SweepableHolds == ActiveHolds

\* hold.expires_at is the expires_at of its quote.
DueHolds == {q \in ActiveHolds : quotes[q].state # "fresh"}

Used(c) == c.held + c.committed
WindowOf(q) == windows[quotes[q].version][quotes[q].date]

\* The quote was made under the configuration that is published now.
Current(q) == /\ surface.enabled
              /\ quotes[q].version = surface.version

NoWindow == [held |-> 0, committed |-> 0, limit |-> 0, threshold |-> 0,
             open |-> FALSE]
NoQuote == [state |-> "none", version |-> 0, date |-> CHOOSE d \in Dates : TRUE,
            quantity |-> 0, result |-> "available"]

Init ==
    /\ surface = [version |-> 0, enabled |-> FALSE, limit |-> 0, threshold |-> 0]
    /\ windows = [v \in Versions |-> [d \in Dates |-> NoWindow]]
    /\ ledger = [d \in Dates |-> [held |-> 0, committed |-> 0]]
    /\ quotes = [q \in Quotes |-> NoQuote]
    /\ holds = [q \in Quotes |-> "none"]
    /\ orders = [q \in Quotes |-> "none"]

-----------------------------------------------------------------------------
(* Counters *)

\* A counter row after the units of the sets below moved: holds that leave,
\* holds that enter, orders that enter, orders that leave.
Moved(c, gone, held, sold, dropped) ==
    [c EXCEPT !.held = @ - Load(Size, gone) + Load(Size, held),
              !.committed = @ + Load(Size, sold) - Load(Size, dropped)]

WindowsAfter(gone, held, sold, dropped) ==
    [v \in Versions |-> [d \in Dates |->
        LET here == QuotesFor(v, d)
        IN  Moved(windows[v][d], gone \cap here, held \cap here,
                  sold \cap here, dropped \cap here)]]

\* Faulty: only deltas of the published version reach the ledger.
LedgerOfCurrentVersion(gone, held, sold, dropped) ==
    [d \in Dates |->
        LET here == QuotesFor(surface.version, d)
        IN  Moved(ledger[d], gone \cap here, held \cap here,
                  sold \cap here, dropped \cap here)]

\* The trigger sync_physical_capacity_v1: whatever a window of a date gains or
\* loses, under whichever policy version, the ledger row of the date does too.
LedgerAfter(gone, held, sold, dropped) ==
    [d \in Dates |->
        LET here == QuotesOn(d)
        IN  Moved(ledger[d], gone \cap here, held \cap here,
                  sold \cap here, dropped \cap here)]

Move(gone, held, sold, dropped) ==
    /\ windows' = WindowsAfter(gone, held, sold, dropped)
    /\ ledger' = LedgerAfter(gone, held, sold, dropped)

\* The window has room for the quote once the holds of "swept" are gone.
RoomInWindow(q, swept) ==
    LET w == WindowOf(q)
        here == QuotesFor(quotes[q].version, quotes[q].date)
    IN  Used(w) - Load(Size, swept \cap here) + quotes[q].quantity <= w.limit

\* Faulty: the window check alone guards the date.
SurfaceIsOpen(q, swept) == surface.enabled

\* The same test of the trigger on the ledger, against the published limit:
\* P5701 rolls the command back when it fails.
RoomOnDate(q, swept) ==
    LET d == quotes[q].date
    IN  /\ surface.enabled
        /\ Used(ledger[d]) - Load(Size, swept \cap QuotesOn(d))
               + quotes[q].quantity <= surface.limit

-----------------------------------------------------------------------------
(* Publication *)

\* Faulty: the windows of the current version are rewritten in place, as when
\* they were keyed by date only.
PublishInPlace(p, shut) ==
    /\ surface.version < MaxVersion
    /\ LET v == IF surface.version = 0 THEN 1 ELSE surface.version IN
       /\ surface' = [version |-> v, enabled |-> TRUE,
                      limit |-> p.limit, threshold |-> p.threshold]
       /\ windows' = [windows EXCEPT ![v] = [d \in Dates |->
                          [windows[v][d] EXCEPT !.limit = p.limit,
                               !.threshold = p.threshold, !.open = d \notin shut]]]
    /\ UNCHANGED <<ledger, quotes, holds, orders>>

\* Mode 'active': every version becomes the next one and the new horizon gets
\* windows of its own; "shut" are the dates closed in it or past their cutoff.
Publish(p, shut) ==
    /\ surface.version < MaxVersion
    /\ LET v == surface.version + 1 IN
       /\ surface' = [version |-> v, enabled |-> TRUE,
                      limit |-> p.limit, threshold |-> p.threshold]
       /\ windows' = [windows EXCEPT ![v] = [d \in Dates |->
                          [held |-> 0, committed |-> 0, limit |-> p.limit,
                           threshold |-> p.threshold, open |-> d \notin shut]]]
    /\ UNCHANGED <<ledger, quotes, holds, orders>>

\* Mode 'inactive': the surface is disabled under the next version and no
\* window is created.
PublishInactive(p) ==
    /\ 0 < surface.version /\ surface.version < MaxVersion
    /\ surface' = [version |-> surface.version + 1, enabled |-> FALSE,
                   limit |-> p.limit, threshold |-> p.threshold]
    /\ UNCHANGED <<windows, ledger, quotes, holds, orders>>

-----------------------------------------------------------------------------
(* Reading and quoting *)

\* Faulty: the list is made from the window, as read_bootstrap_window_capacity_v1
\* makes it before the ledger is consulted.
AvailabilityOfWindow(d) ==
    LET w == windows[surface.version][d]
    IN  IF ~surface.enabled \/ ~w.open THEN "closed"
        ELSE IF Used(w) >= w.limit THEN "sold_out"
        ELSE IF w.limit - Used(w) <= w.threshold THEN "limited"
        ELSE "available"

\* read_bootstrap_v1: what the storefront lists for a date.
Availability(d) ==
    LET w == windows[surface.version][d]
        used == Used(ledger[d])
    IN  IF ~surface.enabled \/ ~w.open THEN "closed"
        ELSE IF used >= w.limit THEN "sold_out"
        ELSE IF w.limit - used <= w.threshold THEN "limited"
        ELSE "available"

\* create_quote_v1 accepts n units for d: against the ledger in the wrapper,
\* against the window in the routine it wraps.
Quotable(d, n) ==
    LET w == windows[surface.version][d]
    IN  /\ surface.enabled
        /\ w.open
        /\ n >= 1
        /\ Used(ledger[d]) + n <= w.limit
        /\ Used(w) + n <= w.limit

\* A quote reserves nothing, and does not sweep the holds that are due.
CreateQuote(q, d, n) ==
    /\ quotes[q].state = "none"
    /\ Quotable(d, n)
    /\ LET w == windows[surface.version][d] IN
       quotes' = [quotes EXCEPT ![q] =
           [state |-> "fresh", version |-> surface.version, date |-> d,
            quantity |-> n,
            result |-> IF w.limit - Used(ledger[d]) - n <= w.threshold
                       THEN "hold_required" ELSE "available"]]
    /\ UNCHANGED <<surface, windows, ledger, holds, orders>>

-----------------------------------------------------------------------------
(* Holds.  Every hold or order command first runs expire_checkout_holds_v1,*)
(* which frees some of the due holds: a hold locked by another command is  *)
(* skipped (SKIP LOCKED, LIMIT 100).                                       *)

Swept(S) == [h \in Quotes |-> IF h \in S THEN "expired" ELSE holds[h]]

\* Faulty: the configuration may have changed since the quote.
AdmissibleAnyVersion(q) ==
    /\ quotes[q].state = "fresh"
    /\ surface.enabled
    /\ WindowOf(q).open

\* The window is open and the quote fresh and current, as 'create' and the
\* order intent both demand.
Admissible(q) ==
    /\ quotes[q].state = "fresh"
    /\ Current(q)
    /\ WindowOf(q).open

CreateHold(q, S) ==
    /\ S \subseteq DueHolds
    /\ Admissible(q)
    /\ holds[q] = "none"
    /\ RoomInWindow(q, S)
    /\ RoomOnDate(q, S)
    /\ holds' = [Swept(S) EXCEPT ![q] = "active"]
    /\ Move(S, {q}, {}, {})
    /\ UNCHANGED <<surface, quotes, orders>>

\* Faulty: a second release of the same hold is not recognised.
ReleaseHoldAgain(q, S) ==
    /\ S \subseteq DueHolds \ {q}
    /\ holds[q] \in {"active", "released"}
    /\ holds' = [Swept(S) EXCEPT ![q] = "released"]
    /\ Move(S \cup {q}, {}, {}, {})
    /\ UNCHANGED <<surface, quotes, orders>>

\* Action 'release': any active hold, whatever was published since.
ReleaseHold(q, S) ==
    /\ S \subseteq DueHolds \ {q}
    /\ holds[q] = "active"
    /\ holds' = [Swept(S) EXCEPT ![q] = "released"]
    /\ Move(S \cup {q}, {}, {}, {})
    /\ UNCHANGED <<surface, quotes, orders>>

\* Any other command that returns: refused after the sweep (wrong version or
\* hold, expired quote, closed window, no room), a hold that is active already,
\* or action 'expire', whose hold is then one of S.
SweepHolds(S) ==
    /\ S # {} /\ S \subseteq DueHolds
    /\ holds' = Swept(S)
    /\ Move(S, {}, {}, {})
    /\ UNCHANGED <<surface, quotes, orders>>

-----------------------------------------------------------------------------
(* Orders *)

\* Faulty: the hold is consumed and its units stay held.
OrderKeepsHeldUnits(q, S) ==
    /\ S \subseteq DueHolds
    /\ Admissible(q)
    /\ orders[q] = "none"
    /\ holds[q] = "active"
    /\ holds' = [Swept(S) EXCEPT ![q] = "consumed"]
    /\ orders' = [orders EXCEPT ![q] = "unpaid"]
    /\ Move(S, {}, {q}, {})
    /\ UNCHANGED <<surface, quotes>>

\* create_order_intent_v1 with a hold: its units move from held to committed.
OrderFromHold(q, S) ==
    /\ S \subseteq DueHolds
    /\ Admissible(q)
    /\ orders[q] = "none"
    /\ holds[q] = "active"
    /\ holds' = [Swept(S) EXCEPT ![q] = "consumed"]
    /\ orders' = [orders EXCEPT ![q] = "unpaid"]
    /\ Move(S \cup {q}, {}, {q}, {})
    /\ UNCHANGED <<surface, quotes>>

\* The same without a hold_id.  The quote may have an active hold, which then
\* keeps its units until it is released or swept.
OrderDirect(q, S) ==
    /\ S \subseteq DueHolds
    /\ Admissible(q)
    /\ orders[q] = "none"
    /\ quotes[q].result = "available"
    /\ RoomInWindow(q, S)
    /\ RoomOnDate(q, S)
    /\ holds' = Swept(S)
    /\ orders' = [orders EXCEPT ![q] = "unpaid"]
    /\ Move(S, {}, {q}, {})
    /\ UNCHANGED <<surface, quotes>>

\* claim_payment_attempt_v1 or payment evidence: an attempt is in flight, has
\* been paid, or needs review.
PaymentExposes(q) ==
    /\ orders[q] = "unpaid"
    /\ orders' = [orders EXCEPT ![q] = "exposed"]
    /\ UNCHANGED <<surface, windows, ledger, quotes, holds>>

\* Evidence that every attempt of the order was declined or canceled.
PaymentSettlesUnpaid(q) ==
    /\ orders[q] = "exposed"
    /\ orders' = [orders EXCEPT ![q] = "unpaid"]
    /\ UNCHANGED <<surface, windows, ledger, quotes, holds>>

\* Faulty: the attempts of the order are not looked at.
ExpireLapsedOrders(T) ==
    /\ T # {}
    /\ T \subseteq {q \in LiveOrders : quotes[q].state = "lapsed"}
    /\ orders' = [q \in Quotes |-> IF q \in T THEN "expired" ELSE orders[q]]
    /\ Move({}, {}, {}, T)
    /\ UNCHANGED <<surface, quotes, holds>>

\* Faulty: orders of a superseded configuration are left alone.
ExpireCurrentOrders(T) ==
    /\ T # {}
    /\ T \subseteq {q \in Quotes : orders[q] = "unpaid" /\ quotes[q].state = "lapsed"}
    /\ \A q \in T : Current(q)
    /\ orders' = [q \in Quotes |-> IF q \in T THEN "expired" ELSE orders[q]]
    /\ Move({}, {}, {}, T)
    /\ UNCHANGED <<surface, quotes, holds>>

\* expire_abandoned_orders_v1, every minute; a window that holds fewer units
\* than the order raises and frees nothing.
ExpireAbandonedOrders(T) ==
    /\ T # {}
    /\ T \subseteq {q \in Quotes : orders[q] = "unpaid" /\ quotes[q].state = "lapsed"}
    /\ \A v \in Versions, d \in Dates :
          Load(Size, T \cap QuotesFor(v, d)) <= windows[v][d].committed
    /\ orders' = [q \in Quotes |-> IF q \in T THEN "expired" ELSE orders[q]]
    /\ Move({}, {}, {}, T)
    /\ UNCHANGED <<surface, quotes, holds>>

-----------------------------------------------------------------------------
(* The clock *)

QuoteExpires(q) ==
    /\ quotes[q].state = "fresh"
    /\ quotes' = [quotes EXCEPT ![q].state = "expired"]
    /\ UNCHANGED <<surface, windows, ledger, holds, orders>>

\* capacity_expires_at is thirty minutes after the order, and the quote it was
\* made from was good for five at most.
OrderLapses(q) ==
    /\ quotes[q].state = "expired"
    /\ orders[q] # "none"
    /\ quotes' = [quotes EXCEPT ![q].state = "lapsed"]
    /\ UNCHANGED <<surface, windows, ledger, holds, orders>>

\* A quote expires at the cutoff of its window at the latest.
CutoffPasses(v, d) ==
    /\ windows[v][d].open
    /\ windows' = [windows EXCEPT ![v][d].open = FALSE]
    /\ quotes' = [q \in Quotes |->
           IF q \in QuotesFor(v, d) /\ quotes[q].state = "fresh"
           THEN [quotes[q] EXCEPT !.state = "expired"] ELSE quotes[q]]
    /\ UNCHANGED <<surface, ledger, holds, orders>>

-----------------------------------------------------------------------------
Next ==
    \/ \E p \in Policies, shut \in SUBSET Dates : Publish(p, shut)
    \/ \E p \in Policies : PublishInactive(p)
    \/ \E q \in Quotes, d \in Dates, n \in 1 .. MaxQuantity : CreateQuote(q, d, n)
    \/ \E q \in Quotes, S \in SUBSET Quotes : CreateHold(q, S)
    \/ \E q \in Quotes, S \in SUBSET Quotes : ReleaseHold(q, S)
    \/ \E S \in SUBSET Quotes : SweepHolds(S)
    \/ \E q \in Quotes, S \in SUBSET Quotes : OrderFromHold(q, S)
    \/ \E q \in Quotes, S \in SUBSET Quotes : OrderDirect(q, S)
    \/ \E q \in Quotes : PaymentExposes(q)
    \/ \E q \in Quotes : PaymentSettlesUnpaid(q)
    \/ \E T \in SUBSET Quotes : ExpireAbandonedOrders(T)
    \/ \E q \in Quotes : QuoteExpires(q)
    \/ \E q \in Quotes : OrderLapses(q)
    \/ \E v \in Versions, d \in Dates : CutoffPasses(v, d)

Spec == Init /\ [][Next]_vars

-----------------------------------------------------------------------------
(* Fairness.  The clock runs, and pg_cron calls expire_abandoned_orders_v1  *)
(* every minute: an order skipped because its row was locked is taken by a *)
(* later run.  No customer is obliged to do anything, and nothing schedules *)
(* expire_checkout_holds_v1.                                               *)

Fairness ==
    /\ \A q \in Quotes : WF_vars(QuoteExpires(q)) /\ WF_vars(OrderLapses(q))
    /\ \A q \in Quotes :
          WF_vars(\E T \in SUBSET Quotes : q \in T /\ ExpireAbandonedOrders(T))

FairSpec == Spec /\ Fairness

-----------------------------------------------------------------------------
(* Properties *)

\* What customers were promised on a date: the units of active holds and of
\* orders that have not been expired.
Promised(d) == Load(Size, ActiveHolds \cap QuotesOn(d))
                 + Load(Size, LiveOrders \cap QuotesOn(d))

\* Each window's counters are the units of the active holds and live orders
\* made for it: no command counts a cart twice, forgets one, or moves it to
\* the window of another policy version.
WindowAccounting ==
    \A v \in Versions, d \in Dates :
        /\ windows[v][d].held = Load(Size, ActiveHolds \cap QuotesFor(v, d))
        /\ windows[v][d].committed = Load(Size, LiveOrders \cap QuotesFor(v, d))

\* The ledger row of a date counts the holds and orders of every policy
\* version on that date: the trigger on the windows loses no delta.
LedgerAccounting ==
    \A d \in Dates :
        /\ ledger[d].held = Load(Size, ActiveHolds \cap QuotesOn(d))
        /\ ledger[d].committed = Load(Size, LiveOrders \cap QuotesOn(d))

\* The CHECK of fulfillment_windows never aborts a command: a window stays
\* within its own limit, and no command takes a counter below zero.
WindowWithinLimit ==
    \A v \in Versions, d \in Dates :
        Used(windows[v][d]) <= windows[v][d].limit

\* A date is never promised beyond every limit that was published for it,
\* however publications, holds and orders of several versions interleave.
NoOversell ==
    \A d \in Dates : Promised(d) > 0 =>
        \E v \in 1 .. surface.version : Promised(d) <= windows[v][d].limit

\* What read_bootstrap_v1 lists as orderable is what create_quote_v1 accepts:
\* listed from the ledger alone, quoted against ledger and window.
ListedIsQuotable ==
    \A d \in Dates :
        Availability(d) \in {"available", "limited"} <=> Quotable(d, 1)

\* More units are promised on a date only while the surface is enabled, and
\* then up to the limit published at that moment: after an operator lowers the
\* limit nothing is admitted until enough units were freed.
PublishedLimitRespected ==
    [][\A d \in Dates : Promised(d)' > Promised(d) =>
           surface.enabled /\ Promised(d)' <= surface.limit]_vars

\* A window of a superseded policy version only drains: publication freezes
\* it, and no later hold or order enters it.
SupersededWindowsDrain ==
    [][\A v \in Versions, d \in Dates : v < surface.version =>
           /\ windows'[v][d].limit = windows[v][d].limit
           /\ Used(windows'[v][d]) <= Used(windows[v][d])]_vars

\* An active hold ends once and for a reason: its quote expired, its customer
\* released it, or it became the order made in the same transaction.
HoldFate ==
    [][\A q \in Quotes : holds[q] # "none" /\ holds'[q] # holds[q] =>
           /\ holds[q] = "active"
           /\ holds'[q] = "expired" => quotes[q].state # "fresh"
           /\ holds'[q] = "consumed" <=> orders[q] = "none" /\ orders'[q] # "none"]_vars

\* An order nobody pays for gives its units back: it ends expired, or a
\* payment is under way.
UnpaidOrderSettles ==
    \A q \in Quotes :
        orders[q] = "unpaid" ~> orders[q] \in {"exposed", "expired"}

\* "Creates, recovers, releases, or expires one bounded capacity hold"
\* (checkout-hold README): a hold does not keep its units for ever.
AbandonedHoldReturned ==
    \A q \in Quotes : holds[q] = "active" ~> holds[q] # "active"

-----------------------------------------------------------------------------
(* The inductive invariant *)

\* Nothing belongs to a quote before it is made, and no quote is ahead of the
\* published version: a new version starts with windows nobody uses.
QuotesKnown ==
    \A q \in Quotes :
        /\ quotes[q].version <= surface.version
        /\ quotes[q].state = "none" =>
              quotes[q].quantity = 0 /\ holds[q] = "none" /\ orders[q] = "none"

\* The windows of the version in force carry its limit.
PolicyInForce ==
    surface.enabled =>
        /\ 0 < surface.version
        /\ \A d \in Dates : windows[surface.version][d].limit = surface.limit

Inductive ==
    /\ TypeOK
    /\ WindowAccounting
    /\ LedgerAccounting
    /\ WindowWithinLimit
    /\ NoOversell
    /\ QuotesKnown
    /\ PolicyInForce

-----------------------------------------------------------------------------
(* The abstract promise *)

Promise == INSTANCE PickupPromise WITH
    offer <- [open |-> surface.enabled, daily |-> surface.limit],
    cart <- [q \in Quotes |->
                [date |-> quotes[q].date, quantity |-> quotes[q].quantity]],
    held <- ActiveHolds,
    sold <- LiveOrders,
    exposed <- {q \in Quotes : orders[q] = "exposed"}

\* Counters kept per window and mirrored per date, with deadlines, sweeps and
\* publications, decide as if every command summed the carts themselves, and
\* never take the units of an order whose payment is under way or in doubt.
PromiseKept == Promise!Spec

\* What capacity sees of the payments: the state of the order, and whether its
\* deadline has passed.  A quote nobody ordered has the payment of a new order;
\* money is PreorderPayment's part.
Payments ==
    [q \in Quotes |->
        [stage |-> IF orders[q] = "none" THEN "unpaid" ELSE orders[q],
         lapsed |-> quotes[q].state = "lapsed",
         money |-> {}, paid |-> {}, confirmed |-> FALSE]]

Together == INSTANCE PreorderPromise WITH
    Attempts <- {},
    offer <- [open |-> surface.enabled, daily |-> surface.limit],
    cart <- [q \in Quotes |->
                [date |-> quotes[q].date, quantity |-> quotes[q].quantity]],
    held <- ActiveHolds,
    sold <- LiveOrders,
    payment <- Payments

\* Capacity keeps its promise and takes of payment only what PaymentPromise
\* offers: an order becomes exposed and unpaid again, is ordered once, and loses
\* its units only while it is unpaid and after its deadline, for good.
PromiseKeptTogether == Together!Spec
=============================================================================

----------------------------- MODULE Storefront -----------------------------
(***************************************************************************)
(* The preorder storefront of MoXi in one browser: the menu it has loaded, *)
(* the cart and its recoverable draft, the review that prepares an unpaid  *)
(* order by three calls, and the card form that pays it.                   *)
(*                                                                         *)
(* A call that has no answer fails in the browser, while its request may   *)
(* be lost, under way or carried out.  What a review started goes on when  *)
(* the review is left, and ends only with the page.  One pickup window and *)
(* one quantity of each product; contact details are left out.             *)
(***************************************************************************)
EXTENDS CheckoutServer

CONSTANTS
    MaxPages,       \* bound: loads of the page
    MaxLate,        \* bound: requests given up and still under way
    CallableAlone   \* external: crypto.randomUUID may be called without its
                    \* receiver

ASSUME StorefrontAssumption ==
    /\ MaxPages \in Nat \ {0}
    /\ MaxLate \in Nat
    /\ CallableAlone \in BOOLEAN

VARIABLES
    view,      \* what PreorderExperience shows
    data,      \* the versions of the menu the page has; 0 before the first
    cart,      \* quantities
    draft,     \* moxi.preorder.draft.v1 in localStorage; {} if there is none
    recovered, \* recoveredDraft: the draft as it was when the page was loaded
    page,      \* which load of the page this is
    visit,     \* how often ReviewPreorder was mounted
    prep,      \* by visit: commands, preparationPhase and the call under way
    late,      \* requests the browser gave up, still under way
    heard,     \* payment commands whose handoff is still waited for
    card       \* the card form and PaymentOutcome of the review on screen

browser == <<view, data, cart, draft, recovered, page, visit, prep, late, heard, card>>
vars == <<published, quotes, holds, orders, charges,
          view, data, cart, draft, recovered, page, visit, prep, late, heard, card>>

-----------------------------------------------------------------------------
(* Types *)

Visits == 1 .. MaxCheckouts
Calls == {"quote", "hold", "order"}
\* "ids" are the products that have a line id.
Prep == [checkout : 0 .. MaxCheckouts, ids : SUBSET Items,
         phase : {"idle", "failed", "ready"} \cup Calls,
         lines : SUBSET Items, version : {0} \cup Versions]
NoPrep == [checkout |-> 0, ids |-> {}, phase |-> "idle", lines |-> {}, version |-> 0]

\* "key" is the payment command of initiationKey, 0 without a card form;
\* "receipt" the payment status last told, "retry" whether its next_actions
\* have retry_payment, "doubt" paymentIndeterminate.
Card == [key : 0 .. MaxCheckouts + MaxRetries,
         phase : {"loading", "ready", "submitting", "retryable", "indeterminate",
                  "submitted", "unavailable"},
         receipt : {"none", "pending", "paid", "declined", "indeterminate"},
         retry : BOOLEAN, doubt : BOOLEAN]
NoCard == [key |-> 0, phase |-> "loading", receipt |-> "none",
           retry |-> FALSE, doubt |-> FALSE]

TypeOK ==
    /\ ServerTypeOK
    /\ view \in {"loading", "unavailable", "selecting", "details", "reviewing"}
    /\ data \in {0} \cup Versions
    /\ cart \subseteq Items /\ draft \subseteq Items /\ recovered \subseteq Items
    /\ page \in 1 .. MaxPages
    /\ visit \in 0 .. MaxCheckouts
    /\ prep \in [Visits -> Prep]
    /\ late \subseteq Request
    /\ heard \subseteq Payments
    /\ card \in Card /\ (card.retry => card.receipt = "declined")

Init ==
    /\ ServerInit
    /\ view = "loading" /\ data = 0
    /\ cart = {}
    /\ draft \in SUBSET Items /\ recovered = draft
    /\ page = 1 /\ visit = 0
    /\ prep = [v \in Visits |-> NoPrep]
    /\ late = {} /\ heard = {}
    /\ card = NoCard

-----------------------------------------------------------------------------
(* The page *)

Loaded == view \in {"selecting", "details", "reviewing"}
Shown(v) == view = "reviewing" /\ v = visit
Locked == card.key # 0
Calling(v) == prep[v].phase \in Calls

\* What remains of a visit that is no longer on screen: the calls it started.
Left == [v \in Visits |-> IF Calling(v) THEN prep[v] ELSE NoPrep]

\* LoadedPreorderExperience is mounted: the recovered draft, less what the
\* menu has no more, becomes the cart and is saved again.
MenuArrives ==
    /\ data' = published
    /\ IF Loaded
       THEN UNCHANGED <<view, cart, draft>>
       ELSE /\ view' = "selecting"
            /\ cart' = recovered \cap Menu[published]
            /\ draft' = cart'
    /\ UNCHANGED <<published, quotes, holds, orders, charges>>
    /\ UNCHANGED <<recovered, page, visit, prep, late, heard, card>>

\* The query fails, the first time or when it is repeated in the background:
\* its status is error, and the loaded experience is unmounted.
MenuFails ==
    /\ view # "unavailable"
    /\ view' = "unavailable"
    /\ cart' = {}
    /\ prep' = Left
    /\ card' = NoCard
    /\ UNCHANGED <<published, quotes, holds, orders, charges>>
    /\ UNCHANGED <<data, draft, recovered, page, visit, late, heard>>

AsRequest(v) == [visit |-> v, checkout |-> prep[v].checkout, call |-> prep[v].phase,
                 lines |-> prep[v].lines, version |-> prep[v].version]

\* The page is loaded again, perhaps a day later: only the draft is left, and
\* of the requests those that were sent.
Reload ==
    /\ page < MaxPages
    /\ page' = page + 1
    /\ view' = "loading" /\ data' = 0 /\ cart' = {}
    /\ draft' \in {draft, {}}
    /\ recovered' = draft'
    /\ prep' = [v \in Visits |-> NoPrep]
    /\ \E sent \in SUBSET {AsRequest(v) : v \in {w \in Visits : Calling(w)}} :
          late' = late \cup sent
    /\ Cardinality(late') <= MaxLate
    /\ heard' = {}
    /\ charges' = [k \in Payments |-> IF charges[k].at = "token"
                                      THEN [charges[k] EXCEPT !.at = "over"]
                                      ELSE charges[k]]
    /\ card' = NoCard
    /\ UNCHANGED <<published, quotes, holds, orders, visit>>

\* The customer adds or removes a product, and the cart is saved.
ChangeCart ==
    /\ view = "selecting"
    /\ \E i \in Menu[data] :
          cart' = IF i \in cart THEN cart \ {i} ELSE cart \cup {i}
    /\ draft' = cart'
    /\ UNCHANGED <<published, quotes, holds, orders, charges>>
    /\ UNCHANGED <<view, data, recovered, page, visit, prep, late, heard, card>>

\* preorderMachine.
Moves == {<<"selecting", "details">>, <<"details", "selecting">>,
          <<"details", "reviewing">>, <<"reviewing", "details">>,
          <<"reviewing", "selecting">>}

GoTo(next) ==
    /\ <<view, next>> \in Moves
    /\ view = "reviewing" => ~Locked
    /\ next = "reviewing" => visit < MaxCheckouts
    /\ view' = next
    /\ visit' = IF next = "reviewing" THEN visit + 1 ELSE visit
    /\ prep' = Left
    /\ UNCHANGED <<published, quotes, holds, orders, charges>>
    /\ UNCHANGED <<data, cart, draft, recovered, page, late, heard, card>>

-----------------------------------------------------------------------------
(* The review: preparePreorderCheckout *)

Reviewed == cart \cap Menu[data]

\* Faulty: each attempt makes commands of its own.
PrepareAnew ==
    /\ view = "reviewing" /\ ~Locked
    /\ prep[visit].phase \in {"idle", "failed"}
    /\ prep' = [prep EXCEPT ![visit] =
                  [checkout |-> IF prep[visit].checkout = 0 THEN visit ELSE MaxCheckouts,
                   ids |-> Reviewed, lines |-> Reviewed, version |-> data,
                   phase |-> IF Reviewed = {} THEN "failed" ELSE "quote"]]
    /\ UNCHANGED <<published, quotes, holds, orders, charges>>
    /\ UNCHANGED <<view, data, cart, draft, recovered, page, visit, late, heard, card>>

\* prepare: the commands of the visit are made at its first attempt and kept.
\* A box without a line fails at once.
Prepare ==
    /\ view = "reviewing" /\ ~Locked
    /\ prep[visit].phase \in {"idle", "failed"}
    /\ LET p == prep[visit]
           ids == IF p.checkout = 0 THEN Reviewed ELSE p.ids
           lines == Reviewed \cap ids
       IN  prep' = [prep EXCEPT ![visit] =
                      [checkout |-> visit, ids |-> ids, lines |-> lines,
                       version |-> data,
                       phase |-> IF lines = {} THEN "failed" ELSE "quote"]]
    /\ UNCHANGED <<published, quotes, holds, orders, charges>>
    /\ UNCHANGED <<view, data, cart, draft, recovered, page, visit, late, heard, card>>

\* A visit that has left the screen tells nobody how it ended.
Ends(v, phase) == IF Shown(v) THEN [prep[v] EXCEPT !.phase = phase] ELSE NoPrep

\* The order exists: the card form opens for its first payment command.
OpensCard(v) ==
    /\ card' = [NoCard EXCEPT !.key = prep[v].checkout]
    /\ charges' = [charges EXCEPT ![prep[v].checkout] =
                     [NoCharge EXCEPT !.checkout = prep[v].checkout]]

NextCall(v) ==
    CASE prep[v].phase = "quote" -> IF quotes'[prep[v].checkout].hold THEN "hold" ELSE "order"
      [] prep[v].phase = "hold" -> "order"
      [] prep[v].phase = "order" -> "ready"

CallAnswered(v) ==
    /\ Calling(v)
    /\ \E accepted \in BOOLEAN :
          /\ Serves(AsRequest(v), accepted)
          /\ prep' = [prep EXCEPT ![v] =
                        IF ~accepted THEN Ends(v, "failed")
                        ELSE IF NextCall(v) = "ready" THEN Ends(v, "ready")
                        ELSE [@ EXCEPT !.phase = NextCall(v)]]
          /\ IF accepted /\ NextCall(v) = "ready" /\ Shown(v)
             THEN OpensCard(v)
             ELSE UNCHANGED <<card, charges>>
    /\ UNCHANGED <<view, data, cart, draft, recovered, page, visit, late, heard>>

\* fetch or its answer fails: the request is lost, or still under way.
CallFails(v) ==
    /\ Calling(v)
    /\ late' \in {late} \cup (IF Unserved(AsRequest(v)) THEN {late \cup {AsRequest(v)}} ELSE {})
    /\ Cardinality(late') <= MaxLate
    /\ prep' = [prep EXCEPT ![v] = Ends(v, "failed")]
    /\ UNCHANGED <<published, quotes, holds, orders, charges>>
    /\ UNCHANGED <<view, data, cart, draft, recovered, page, visit, heard, card>>

LateRequest(r) ==
    /\ r \in late
    /\ Serves(r, TRUE) \/ UNCHANGED <<published, quotes, holds, orders>>
    /\ UNCHANGED charges
    /\ late' = late \ {r}
    /\ UNCHANGED <<view, data, cart, draft, recovered, page, visit, prep, heard, card>>

-----------------------------------------------------------------------------
(* The card form: SquarePaymentPanel, mountEmbeddedSquareCard and the handoff *)

UnchangedButCard ==
    /\ UNCHANGED <<published, quotes, holds, orders>>
    /\ UNCHANGED <<view, data, cart, draft, recovered, page, visit, prep, late>>

CardMounts ==
    /\ Locked /\ card.phase = "loading"
    /\ \E phase \in {"ready", "unavailable"} : card' = [card EXCEPT !.phase = phase]
    /\ UnchangedButCard /\ UNCHANGED <<charges, heard>>

Submit ==
    /\ Locked /\ card.phase \in {"ready", "retryable"}
    /\ card' = [card EXCEPT !.phase = "submitting"]
    /\ charges' = [charges EXCEPT ![card.key].at = "token"]
    /\ UnchangedButCard /\ UNCHANGED heard

\* Square's form gives no token.
TokenFails(k) ==
    /\ charges[k].at = "token"
    /\ charges' = [charges EXCEPT ![k].at = "made"]
    /\ card' = IF card.key = k THEN [card EXCEPT !.phase = "retryable"] ELSE card
    /\ UnchangedButCard /\ UNCHANGED heard

\* It gives a token, which is handed off also when the form is gone.
TokenMade(k) ==
    /\ charges[k].at = "token"
    /\ charges' = [charges EXCEPT ![k].at = "sent"]
    /\ heard' = heard \cup {k}
    /\ UnchangedButCard /\ UNCHANGED card

\* handoff: what the review shows when the payment call answers, or fails.
Told(k, status, retry) ==
    IF card.key # k THEN card
    ELSE [card EXCEPT !.receipt = status, !.retry = retry,
                      !.doubt = status = "indeterminate",
                      !.phase = IF status = "indeterminate" THEN "indeterminate"
                                                            ELSE "submitted"]

\* Faulty: a payment call without a receipt is taken for no payment.
DoubtedUnavailable(k) ==
    IF card.key # k THEN card ELSE [card EXCEPT !.phase = "unavailable"]

Doubted(k) ==
    IF card.key # k THEN card
    ELSE [card EXCEPT !.doubt = TRUE, !.phase = "indeterminate"]

\* The claim is refused and the payment call answers with an error.
PaymentRefused(k) ==
    /\ charges[k].at = "sent"
    /\ charges' = [charges EXCEPT ![k].at = "over"]
    /\ card' = IF k \in heard THEN Doubted(k) ELSE card
    /\ heard' = heard \ {k}
    /\ UnchangedButCard

ClaimPayment(k) ==
    /\ charges[k].at = "sent"
    /\ Claimable(k)
    /\ OrderBecomes(k, "pending")
    /\ charges' = [charges EXCEPT ![k].at = "claimed"]
    /\ UNCHANGED <<published, quotes, holds>>
    /\ UNCHANGED browser

\* What Square has after the call of the worker, and what the worker knows.
Outcomes == {<<"paid", "paid">>, <<"declined", "declined">>, <<"open", "pending">>,
             <<"open", "indeterminate">>, <<"none", "indeterminate">>}

\* Faulty: any receipt that is not paid offers another card.
PaymentAnsweredRetry(k) ==
    /\ charges[k].at = "claimed"
    /\ \E o \in Outcomes :
          /\ charges' = [charges EXCEPT ![k].at = "over", ![k].square = o[1]]
          /\ OrderBecomes(k, o[2])
          /\ card' = IF k \in heard THEN Told(k, o[2], o[2] # "paid") ELSE card
          /\ draft' = IF k \in heard /\ o[2] = "paid" THEN {} ELSE draft
    /\ heard' = heard \ {k}
    /\ UNCHANGED <<published, quotes, holds>>
    /\ UNCHANGED <<view, data, cart, recovered, page, visit, prep, late>>

\* Faulty: any receipt clears the draft.
PaymentAnsweredClears(k) ==
    /\ charges[k].at = "claimed"
    /\ \E o \in Outcomes, retry \in BOOLEAN :
          /\ charges' = [charges EXCEPT ![k].at = "over", ![k].square = o[1]]
          /\ retry => o[2] = "declined"
          /\ OrderBecomes(k, o[2])
          /\ card' = IF k \in heard THEN Told(k, o[2], retry) ELSE card
          /\ draft' = IF k \in heard THEN {} ELSE draft
    /\ heard' = heard \ {k}
    /\ UNCHANGED <<published, quotes, holds>>
    /\ UNCHANGED <<view, data, cart, recovered, page, visit, prep, late>>

\* The worker projects the outcome and answers with the receipt.
PaymentAnswered(k) ==
    /\ charges[k].at = "claimed"
    /\ \E o \in Outcomes, retry \in BOOLEAN :
          /\ charges' = [charges EXCEPT ![k].at = "over", ![k].square = o[1]]
          /\ retry => o[2] = "declined"
          /\ OrderBecomes(k, o[2])
          /\ card' = IF k \in heard THEN Told(k, o[2], retry) ELSE card
          /\ draft' = IF k \in heard /\ o[2] = "paid" THEN {} ELSE draft
    /\ heard' = heard \ {k}
    /\ UNCHANGED <<published, quotes, holds>>
    /\ UNCHANGED <<view, data, cart, recovered, page, visit, prep, late>>

\* The worker dies, before or after Square has the payment.
WorkerDies(k) ==
    /\ charges[k].at = "claimed"
    /\ \E s \in {"none", "open"} :
          charges' = [charges EXCEPT ![k].at = "over", ![k].square = s]
    /\ card' = IF k \in heard THEN Doubted(k) ELSE card
    /\ heard' = heard \ {k}
    /\ UnchangedButCard

\* The payment call has no answer in the browser; its request may be lost.
PaymentUnheard(k) ==
    /\ k \in heard
    /\ charges' \in {charges} \cup
           (IF charges[k].at = "sent" THEN {[charges EXCEPT ![k].at = "over"]} ELSE {})
    /\ card' = Doubted(k)
    /\ heard' = heard \ {k}
    /\ UnchangedButCard

\* The next payment command: the first number that replaces another one.
Another(k) ==
    /\ k > MaxCheckouts /\ charges[k] = NoCharge
    /\ \A j \in Payments : j > MaxCheckouts /\ j < k => charges[j] # NoCharge

\* Faulty: another card is taken whenever the receipt is not paid.
RetryUnpaid ==
    /\ CallableAlone
    /\ Locked /\ card.receipt \notin {"none", "paid"}
    /\ \E k \in Payments :
          /\ Another(k)
          /\ charges' = [charges EXCEPT ![k] =
                           [NoCharge EXCEPT !.checkout = charges[card.key].checkout]]
          /\ card' = [NoCard EXCEPT !.key = k]
    /\ UnchangedButCard /\ UNCHANGED heard

\* "Try a different card": a new payment command for the order as it is known,
\* and with it a new card form.
RetryDeclinedPayment ==
    /\ CallableAlone
    /\ Locked /\ ~card.doubt
    /\ card.receipt = "declined" /\ card.retry
    /\ \E k \in Payments :
          /\ Another(k)
          /\ charges' = [charges EXCEPT ![k] =
                           [NoCharge EXCEPT !.checkout = charges[card.key].checkout]]
          /\ card' = [NoCard EXCEPT !.key = k]
    /\ UnchangedButCard /\ UNCHANGED heard

-----------------------------------------------------------------------------

Step(v) == CallAnswered(v) \/ CallFails(v)
Pays(k) ==
    \/ TokenFails(k) \/ TokenMade(k)
    \/ PaymentRefused(k) \/ ClaimPayment(k) \/ PaymentAnswered(k)
    \/ WorkerDies(k) \/ PaymentUnheard(k)

Next ==
    \/ ServerAlone /\ UNCHANGED browser
    \/ MenuArrives \/ MenuFails \/ Reload \/ ChangeCart
    \/ \E next \in {"selecting", "details", "reviewing"} : GoTo(next)
    \/ Prepare
    \/ \E v \in Visits : Step(v)
    \/ \E r \in late : LateRequest(r)
    \/ CardMounts \/ Submit \/ RetryDeclinedPayment
    \/ \E k \in Payments : Pays(k)

Spec == Init /\ [][Next]_vars

\* fetch and the card form answer or fail in the end, workers end, and a
\* customer who is offered another card takes it.
FairSpec ==
    /\ Spec
    /\ \A v \in Visits : WF_vars(Step(v))
    /\ \A k \in Payments : WF_vars(Pays(k))
    /\ WF_vars(CardMounts)
    /\ WF_vars(RetryDeclinedPayment)

-----------------------------------------------------------------------------
(* Properties *)

\* However often a review tries to prepare its checkout, and whatever arrives
\* late, it makes one order at most (createCheckoutCommands is called once).
OneOrderPerVisit ==
    \A c, d \in Ordered : quotes[c].visit = quotes[d].visit => c = d

\* The order a review asks to be paid has the lines and the versions that were
\* sent by the attempt that the customer saw succeed.
OrderIsAsPrepared ==
    \A v \in Visits :
        Shown(v) /\ prep[v].phase = "ready" =>
            /\ prep[v].checkout \in Ordered
            /\ quotes[prep[v].checkout].lines = prep[v].lines
            /\ quotes[prep[v].checkout].version = prep[v].version

\* A payment command replaces another one only after Square refused that one.
RetriesFollowRefusals ==
    \A j, k \in Payments :
        j < k /\ charges[j].checkout = charges[k].checkout /\ charges[k] # NoCharge
        => charges[j].square = "declined"

\* What the review says of the payment is so: confirmed when it is paid,
\* not paid when it was declined, not charged when payment is unavailable.
OutcomeIsTrue ==
    LET mine == {k \in Payments : charges[k].checkout = charges[card.key].checkout}
    IN  Locked =>
            /\ card.receipt = "paid" => charges[card.key].square = "paid"
            /\ card.receipt = "declined" => \A k \in mine : ~Money(k)
            /\ card.phase = "unavailable" => \A k \in mine : ~Money(k)

\* While a menu is loaded the draft is the cart, except that an order which was
\* paid may have taken it away.
DraftFollowsCart ==
    Loaded => \/ draft = cart
              \/ draft = {} /\ \E k \in Payments : charges[k].square = "paid"

\* "Your cart is safe": when the menu is back, so is the cart.
CartIsSafe ==
    [][view = "unavailable" /\ view' = "selecting"
       => cart' = draft \cap Menu[data']]_vars

\* A customer who takes the offer of another card gets a new card form.
RetryOpensFreshCard ==
    (card.key \in Checkouts /\ card.receipt = "declined" /\ card.retry)
        ~> (card.key \notin Checkouts \/ card.receipt = "none")

-----------------------------------------------------------------------------
(* The promise: the menu, the cart, commands and workers are forgotten.     *)

OrderRows == [lines : SUBSET Items, version : {0} \cup Versions]

\* The order of a review as the server has it, and as its customer saw it.
OrderOf(v) == [lines |-> quotes[v].lines, version |-> quotes[v].version]
SeenIn(v) == [lines |-> prep[v].lines, version |-> prep[v].version]

\* PaymentOutcome, and what the card form says of a payment it cannot take.
Said ==
    IF ~card.doubt /\ card.receipt \in {"paid", "declined"} THEN card.receipt
    ELSE IF card.phase = "unavailable" THEN "unavailable" ELSE "nothing"

OrdersMade == [v \in Visits |-> IF orders[v] # "none" THEN {OrderOf(v)} ELSE {}]
PaysFor == [k \in Payments |-> charges[k].checkout]
SquareHas == [k \in Payments |-> charges[k].square]
OnScreen ==
    IF Locked THEN [review |-> visit, order |-> {SeenIn(visit)}, says |-> Said]
    ELSE [review |-> 0, order |-> {}, says |-> "nothing"]

Promise == INSTANCE CheckoutPromise WITH
    Reviews <- Visits, Rows <- OrderRows, NoReview <- 0,
    order <- OrdersMade, pays <- PaysFor, square <- SquareHas, screen <- OnScreen

\* Whatever the customer does, and whatever is lost or comes late, the reviews
\* keep the promise.
CheckoutPromiseKept == Promise!Spec

-----------------------------------------------------------------------------
(* The inductive invariant *)

\* Every row comes from a command of the review whose number it has.
RowsKnown ==
    /\ \A c \in Checkouts : quotes[c] = NoQuote \/ quotes[c].visit = c
    /\ \A c \in Ordered : quotes[c] # NoQuote
    /\ \A r \in late : r.visit = r.checkout

PageKnown ==
    /\ Loaded => data \in Versions
    /\ view = "reviewing" => visit \in Visits

\* A preparation that has got beyond its quote relies on that quote.
PreparationsKnown ==
    \A v \in Visits :
        /\ prep[v].checkout \in {0, v}
        /\ Calling(v) => prep[v].checkout = v /\ prep[v].version # 0
        /\ prep[v].phase \in {"hold", "order", "ready"} =>
              /\ prep[v].checkout = v
              /\ quotes[v] # NoQuote
              /\ quotes[v].lines = prep[v].lines
              /\ quotes[v].version = prep[v].version
        /\ prep[v].phase = "ready" => v \in Ordered

\* A payment command is for an order, whose review has shown a card; commands
\* that replace another one are taken in turn.
PaymentsKnown ==
    /\ \A k \in Payments :
          /\ charges[k].checkout = 0 => charges[k] = NoCharge
          /\ charges[k].checkout # 0 => charges[k].checkout \in Ordered
          /\ k <= MaxCheckouts => charges[k].checkout \in {0, k}
          /\ charges[k].at # "over" => charges[k].square = "none"
          /\ charges[k].checkout <= visit
          /\ Shown(charges[k].checkout) => prep[charges[k].checkout].phase = "ready"
    /\ \A j, k \in Payments :
          MaxCheckouts < j /\ j < k /\ charges[k] # NoCharge => charges[j] # NoCharge

\* The card form belongs to the last payment command of its checkout.
CardKnown ==
    Locked =>
        /\ charges[card.key].checkout # 0
        /\ \A k \in Payments :
              k > card.key => charges[k].checkout # charges[card.key].checkout
        /\ card.phase \in {"loading", "ready", "retryable", "unavailable"} =>
              charges[card.key].at = "made"
        /\ card.receipt \in {"paid", "declined"} =>
              charges[card.key].square = card.receipt

Inductive ==
    /\ TypeOK
    /\ RowsKnown
    /\ PageKnown
    /\ PreparationsKnown
    /\ PaymentsKnown
    /\ CardKnown
    /\ RetriesFollowRefusals
    /\ DraftFollowsCart

\* What the promise needs besides: the card form is that of the review on
\* screen, whose preparation is done.
CardOnScreen ==
    Locked =>
        /\ view = "reviewing"
        /\ charges[card.key].checkout = visit
        /\ prep[visit].phase = "ready"
=============================================================================

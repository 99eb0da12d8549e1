-------------------------- MODULE StorefrontProofs --------------------------
(* Inductive is an invariant of Storefront, what follows from it, and that   *)
(* the reviews keep the promise of CheckoutPromise.                         *)
EXTENDS Storefront, TLAPS

\* The versions are numbered from one.
LEMMA VersionsKnown ==
    /\ Versions \subseteq Nat \ {0}
    /\ 1 \in Versions
    /\ \A v \in Versions : Menu[v] \subseteq Items
BY CheckoutAssumption DEF Versions

LEMMA NumbersKnown ==
    /\ Checkouts = Visits
    /\ Visits \subseteq Payments
    /\ Payments \subseteq Nat \ {0}
    /\ MaxCheckouts \in Nat /\ MaxRetries \in Nat
    /\ Visits = 1 .. MaxCheckouts
    /\ Payments = 1 .. MaxCheckouts + MaxRetries
BY CheckoutAssumption DEF Checkouts, Visits, Payments

\* What a worker answers agrees with what Square has.
LEMMA OutcomesAgree ==
    \A o \in Outcomes :
        /\ o[1] \in {"none", "open", "paid", "declined"}
        /\ o[2] \in Order \ {"none"}
        /\ o[2] \in {"pending", "paid", "declined", "indeterminate"}
        /\ o[2] \in {"paid", "declined"} => o[1] = o[2]
BY DEF Outcomes, Order

-----------------------------------------------------------------------------
(* The beginning *)

LEMMA InitInductive == Init => Inductive
<1> SUFFICES ASSUME Init PROVE Inductive
  OBVIOUS
<1> USE VersionsKnown, NumbersKnown DEF Init, ServerInit
<1>1. TypeOK
  <2>1. NoQuote \in Quote /\ NoCharge \in Charge /\ NoPrep \in Prep /\ NoCard \in Card
    BY DEF NoQuote, Quote, NoCharge, Charge, NoPrep, Prep, NoCard, Card, Calls
  <2>2. ServerTypeOK
    BY <2>1 DEF ServerTypeOK, Order
  <2> QED
    BY <2>1, <2>2, StorefrontAssumption DEF TypeOK, NoCard
<1>2. RowsKnown /\ PageKnown
  BY DEF RowsKnown, PageKnown, Ordered, Loaded
<1>3. PreparationsKnown
  BY DEF PreparationsKnown, NoPrep, Calling, Calls
<1>4. PaymentsKnown /\ CardKnown /\ RetriesFollowRefusals /\ DraftFollowsCart
  BY DEF PaymentsKnown, CardKnown, RetriesFollowRefusals, DraftFollowsCart,
         NoCharge, NoCard, Locked, Shown, Loaded
<1> QED
  BY <1>1, <1>2, <1>3, <1>4 DEF Inductive

-----------------------------------------------------------------------------
(* Steps that leave most of the state alone *)

\* The parts of the invariant that read only the variables named.
LEMMA RowsKept ==
    ASSUME RowsKnown, UNCHANGED <<quotes, orders, late>>
    PROVE  RowsKnown'
BY DEF RowsKnown, Ordered

LEMMA PreparationsKept ==
    ASSUME PreparationsKnown, UNCHANGED <<quotes, prep>>, Ordered \subseteq Ordered'
    PROVE  PreparationsKnown'
BY DEF PreparationsKnown, Calling

LEMMA PaymentsKept ==
    ASSUME PaymentsKnown, UNCHANGED <<charges, view, visit, prep>>,
           Ordered \subseteq Ordered'
    PROVE  PaymentsKnown'
BY DEF PaymentsKnown, Shown

LEMMA CardKept ==
    ASSUME CardKnown, UNCHANGED <<card, charges>>
    PROVE  CardKnown'
BY DEF CardKnown, Locked

LEMMA RetriesKept ==
    ASSUME RetriesFollowRefusals, UNCHANGED charges
    PROVE  RetriesFollowRefusals'
BY DEF RetriesFollowRefusals

LEMMA DraftKept ==
    ASSUME DraftFollowsCart, UNCHANGED <<view, draft, cart, charges>>
    PROVE  DraftFollowsCart'
BY DEF DraftFollowsCart, Loaded

\* A step that moves one payment command on, with another charge or not, and
\* that settles a charge only when its worker ends it.
Moved(k, at, square) ==
    /\ k \in Payments
    /\ charges[k] # NoCharge
    /\ at \in {"made", "token", "sent", "claimed", "over"}
    /\ square \in {"none", "open", "paid", "declined"}
    /\ charges[k].square \in {"paid", "declined"} => square = charges[k].square
    /\ at # "over" => square = "none"
    /\ charges' = [charges EXCEPT ![k].at = at, ![k].square = square]

LEMMA MovedFields ==
    ASSUME TypeOK, NEW k \in Payments, NEW at, NEW square, Moved(k, at, square)
    PROVE  /\ charges' \in [Payments -> Charge]
           /\ \A j \in Payments :
                 /\ charges'[j].checkout = charges[j].checkout
                 /\ j # k => charges'[j] = charges[j]
                 /\ charges[j].square \in {"paid", "declined"} =>
                       charges'[j].square = charges[j].square
           /\ charges'[k].at = at
           /\ charges'[k].square = square
           /\ at # "over" => square = "none"
BY DEF Moved, TypeOK, ServerTypeOK, Charge

LEMMA MovedPayments ==
    ASSUME Inductive, NEW k \in Payments, NEW at, NEW square, Moved(k, at, square),
           UNCHANGED <<view, visit, prep>>, Ordered \subseteq Ordered'
    PROVE  PaymentsKnown' /\ RetriesFollowRefusals'
<1>1. TypeOK /\ PaymentsKnown /\ RetriesFollowRefusals
  BY DEF Inductive
<1>2. \A j \in Payments :
         /\ charges'[j].checkout = charges[j].checkout
         /\ j # k => charges'[j] = charges[j]
         /\ charges[j].square = "declined" => charges'[j].square = "declined"
  BY <1>1, MovedFields
<1>3. charges[k].checkout # 0 /\ charges[k] # NoCharge
  BY <1>1 DEF Moved, PaymentsKnown
<1>4. charges'[k] # NoCharge
  BY <1>2, <1>3 DEF NoCharge
<1>5. charges'[k].at # "over" => charges'[k].square = "none"
  BY <1>1, MovedFields
<1>6. PaymentsKnown'
  <2>1. \A j \in Payments :
           /\ charges'[j].checkout = 0 => charges'[j] = NoCharge
           /\ charges'[j].checkout # 0 => charges'[j].checkout \in Ordered'
           /\ j <= MaxCheckouts => charges'[j].checkout \in {0, j}
           /\ charges'[j].at # "over" => charges'[j].square = "none"
    BY <1>1, <1>2, <1>3, <1>5 DEF PaymentsKnown
  <2>2. \A j \in Payments :
           /\ charges'[j].checkout <= visit'
           /\ Shown(charges[j].checkout)' => prep'[charges'[j].checkout].phase = "ready"
    BY <1>1, <1>2 DEF PaymentsKnown, Shown
  <2>3. \A i, j \in Payments :
           MaxCheckouts < i /\ i < j /\ charges'[j] # NoCharge => charges'[i] # NoCharge
    BY <1>1, <1>2, <1>3, <1>4 DEF PaymentsKnown
  <2> QED
    BY <2>1, <2>2, <2>3 DEF PaymentsKnown, Shown
<1>7. RetriesFollowRefusals'
  <2>1. \A j \in Payments : charges'[j] # NoCharge => charges[j] # NoCharge
    BY <1>2, <1>3
  <2> QED
    BY <1>1, <1>2, <2>1 DEF RetriesFollowRefusals
<1> QED
  BY <1>6, <1>7

OpenForm == {"loading", "ready", "retryable", "unavailable"}

LEMMA MovedCard ==
    ASSUME Inductive, NEW k \in Payments, NEW at, NEW square, Moved(k, at, square),
           card'.key = card.key,
           Locked /\ card'.phase \in OpenForm =>
               IF card.key = k THEN at = "made" ELSE card.phase \in OpenForm,
           card'.receipt \in {"paid", "declined"} =>
               card'.receipt = card.receipt \/ (card.key = k /\ square = card'.receipt)
    PROVE  CardKnown'
<1>1. TypeOK /\ CardKnown
  BY DEF Inductive
<1>2. SUFFICES ASSUME Locked' PROVE CardKnown'
  BY DEF CardKnown
<1>3. Locked /\ card.key \in Payments
  BY <1>1, <1>2, NumbersKnown DEF Locked, TypeOK, Card
<1>4. \A j \in Payments : charges'[j].checkout = charges[j].checkout
  BY <1>1, MovedFields
<1>5. card'.phase \in OpenForm => charges'[card.key].at = "made"
  BY <1>1, <1>3, MovedFields DEF CardKnown, OpenForm
<1>6. card'.receipt \in {"paid", "declined"} => charges'[card.key].square = card'.receipt
  BY <1>1, <1>3, MovedFields DEF CardKnown
<1> QED
  BY <1>1, <1>3, <1>4, <1>5, <1>6 DEF CardKnown, OpenForm

LEMMA MovedDraft ==
    ASSUME Inductive, NEW k \in Payments, NEW at, NEW square, Moved(k, at, square),
           UNCHANGED <<view, cart>>,
           draft' = draft \/ (draft' = {} /\ square = "paid")
    PROVE  DraftFollowsCart'
<1>1. TypeOK /\ DraftFollowsCart
  BY DEF Inductive
<1>2. \A j \in Payments : charges[j].square = "paid" => charges'[j].square = "paid"
  BY <1>1, MovedFields
<1>3. charges'[k].square = square
  BY <1>1, MovedFields
<1> QED
  BY <1>1, <1>2, <1>3 DEF DraftFollowsCart, Loaded

\* A payment changes the status of an order and makes none.
LEMMA OrderKept ==
    ASSUME Inductive, NEW k \in Payments, charges[k] # NoCharge,
           NEW status \in Order \ {"none"}, OrderBecomes(k, status)
    PROVE  orders' \in [Checkouts -> Order] /\ Ordered' = Ordered
<1>1. orders \in [Checkouts -> Order] /\ charges[k].checkout \in Ordered
  BY DEF Inductive, TypeOK, ServerTypeOK, PaymentsKnown
<1> QED
  BY <1>1 DEF OrderBecomes, Ordered

\* A step of a payment command keeps the invariant when it changes the card
\* form and the draft as above, and what else it may change.
LEMMA MovedInductive ==
    ASSUME Inductive, NEW k \in Payments, NEW at, NEW square, Moved(k, at, square),
           UNCHANGED <<published, quotes, holds, late>>,
           UNCHANGED <<view, data, cart, recovered, page, visit, prep>>,
           orders' \in [Checkouts -> Order], Ordered' = Ordered,
           draft' = draft \/ (draft' = {} /\ square = "paid"),
           heard' \subseteq Payments,
           card' \in Card, card'.retry => card'.receipt = "declined",
           card'.key = card.key,
           Locked /\ card'.phase \in OpenForm =>
               IF card.key = k THEN at = "made" ELSE card.phase \in OpenForm,
           card'.receipt \in {"paid", "declined"} =>
               card'.receipt = card.receipt \/ (card.key = k /\ square = card'.receipt)
    PROVE  Inductive'
<1>1. TypeOK'
  <2>1. charges' \in [Payments -> Charge]
    BY MovedFields DEF Inductive
  <2>2. draft' \subseteq Items
    BY DEF Inductive, TypeOK
  <2> QED
    BY <2>1, <2>2 DEF Inductive, TypeOK, ServerTypeOK
<1>2. RowsKnown' /\ PageKnown'
  BY DEF Inductive, RowsKnown, PageKnown, Loaded
<1>3. PreparationsKnown'
  BY PreparationsKept DEF Inductive
<1>4. PaymentsKnown' /\ RetriesFollowRefusals'
  BY MovedPayments
<1>5. CardKnown'
  BY MovedCard
<1>6. DraftFollowsCart'
  BY MovedDraft
<1> QED
  BY <1>1, <1>2, <1>3, <1>4, <1>5, <1>6 DEF Inductive

-----------------------------------------------------------------------------
(* The steps of a payment *)

\* What is under way belongs to a payment command that was made.
LEMMA UnderWay ==
    ASSUME Inductive, NEW k \in Payments,
           charges[k].at # "made" \/ charges[k].square # "none"
    PROVE  /\ charges[k] # NoCharge
           /\ charges[k].at # "over" => charges[k].square = "none"
           /\ Locked /\ card.phase \in OpenForm /\ card.key = k => charges[k].at = "made"
BY DEF Inductive, PaymentsKnown, CardKnown, NoCharge, OpenForm, Locked

\* The two updates of a charge are the same when one leaves a field alone.
LEMMA AtOnly ==
    ASSUME TypeOK, NEW k \in Payments, NEW at
    PROVE  [charges EXCEPT ![k].at = at] =
               [charges EXCEPT ![k].at = at, ![k].square = charges[k].square]
BY DEF TypeOK, ServerTypeOK, Charge

LEMMA SquareOnly ==
    ASSUME TypeOK, NEW k \in Payments, NEW square
    PROVE  [charges EXCEPT ![k].square = square] =
               [charges EXCEPT ![k].at = charges[k].at, ![k].square = square]
BY DEF TypeOK, ServerTypeOK, Charge

\* The card form after an answer, in either way.
LEMMA CardTold ==
    ASSUME TypeOK, NEW k \in Payments, NEW status \in Order \ {"none", "not_started"},
           NEW retry \in BOOLEAN, retry => status = "declined"
    PROVE  LET c == Told(k, status, retry) IN
           /\ c \in Card /\ c.key = card.key
           /\ c.retry => c.receipt = "declined"
           /\ c.phase \in OpenForm => c = card /\ card.key # k
           /\ c.receipt = card.receipt \/ (card.key = k /\ c.receipt = status)
<1> DEFINE c == Told(k, status, retry)
<1>1. card \in Card /\ (card.retry => card.receipt = "declined")
  BY DEF TypeOK
<1>2. CASE card.key # k
  <2>1. c = card
    BY <1>2 DEF Told
  <2> QED
    BY <1>1, <1>2, <2>1
<1>3. CASE card.key = k
  <2>1. /\ c.key = card.key /\ c.receipt = status /\ c.retry = retry
        /\ c.phase \in {"indeterminate", "submitted"}
    BY <1>1, <1>3 DEF Told, Card
  <2>2. status \in {"pending", "paid", "declined", "indeterminate"}
    BY DEF Order
  <2>3. c \in Card
    BY <1>1, <1>3, <2>2 DEF Told, Card
  <2> QED
    BY <1>3, <2>1, <2>3 DEF OpenForm
<1> QED
  BY <1>2, <1>3

LEMMA CardDoubted ==
    ASSUME TypeOK, NEW k \in Payments
    PROVE  LET c == Doubted(k) IN
           /\ c \in Card /\ c.key = card.key
           /\ c.retry => c.receipt = "declined"
           /\ c.phase \in OpenForm => c = card /\ card.key # k
           /\ c.receipt = card.receipt
BY DEF TypeOK, Doubted, Card, OpenForm

LEMMA SubmitInductive == ASSUME Inductive, Submit PROVE Inductive'
<1> DEFINE k == card.key
<1>1. TypeOK /\ CardKnown
  BY DEF Inductive
<1>2. k \in Payments /\ charges[k].at = "made" /\ charges[k].checkout # 0
  BY <1>1, NumbersKnown DEF Submit, TypeOK, Card, Locked, CardKnown
<1>3. charges[k].square = "none" /\ charges[k] # NoCharge
  BY <1>2 DEF Inductive, PaymentsKnown, NoCharge
<1>4. Moved(k, "token", "none")
  BY <1>1, <1>2, <1>3, AtOnly DEF Submit, Moved
<1>5. /\ card' \in Card /\ card'.key = card.key /\ card'.receipt = card.receipt
      /\ card'.phase = "submitting" /\ card'.retry = card.retry
  BY <1>1 DEF Submit, TypeOK, Card
<1>6. UNCHANGED orders /\ Ordered' = Ordered
  BY DEF Submit, UnchangedButCard, Ordered
<1>7. /\ orders' \in [Checkouts -> Order] /\ heard' \subseteq Payments
      /\ card'.retry => card'.receipt = "declined"
      /\ card'.phase \notin OpenForm
      /\ UNCHANGED <<published, quotes, holds, late, draft>>
      /\ UNCHANGED <<view, data, cart, recovered, page, visit, prep>>
  BY <1>1, <1>5 DEF Submit, UnchangedButCard, OpenForm, TypeOK, ServerTypeOK
<1> HIDE DEF k
<1> QED
  BY <1>2, <1>4, <1>5, <1>6, <1>7, MovedInductive

LEMMA TokenFailsInductive ==
    ASSUME Inductive, NEW k \in Payments, TokenFails(k) PROVE Inductive'
<1>1. TypeOK
  BY DEF Inductive
<1>2. charges[k].at = "token" /\ charges[k].square = "none" /\ charges[k] # NoCharge
  BY UnderWay DEF TokenFails
<1>3. Moved(k, "made", "none")
  BY <1>1, <1>2, AtOnly DEF TokenFails, Moved
<1>4. /\ card' \in Card /\ card'.key = card.key /\ card'.receipt = card.receipt
      /\ card'.retry => card'.receipt = "declined"
      /\ Locked /\ card'.phase \in OpenForm =>
            IF card.key = k THEN "made" = "made" ELSE card.phase \in OpenForm
  BY <1>1 DEF TokenFails, TypeOK, Card, OpenForm
<1>5. /\ orders' \in [Checkouts -> Order] /\ Ordered' = Ordered
      /\ heard' \subseteq Payments
      /\ UNCHANGED <<published, quotes, holds, late, draft>>
      /\ UNCHANGED <<view, data, cart, recovered, page, visit, prep>>
  BY <1>1 DEF TokenFails, UnchangedButCard, Ordered, TypeOK, ServerTypeOK
<1> QED
  BY <1>3, <1>4, <1>5, MovedInductive

LEMMA TokenMadeInductive ==
    ASSUME Inductive, NEW k \in Payments, TokenMade(k) PROVE Inductive'
<1>1. TypeOK
  BY DEF Inductive
<1>2. charges[k].at = "token" /\ charges[k].square = "none" /\ charges[k] # NoCharge
  BY UnderWay DEF TokenMade
<1>3. Moved(k, "sent", "none")
  BY <1>1, <1>2, AtOnly DEF TokenMade, Moved
<1>4. /\ card' \in Card /\ card'.key = card.key /\ card'.receipt = card.receipt
      /\ card'.retry => card'.receipt = "declined"
      /\ Locked /\ card'.phase \in OpenForm =>
            IF card.key = k THEN "sent" = "made" ELSE card.phase \in OpenForm
  BY <1>1, <1>2, UnderWay DEF TokenMade, TypeOK
<1>5. /\ orders' \in [Checkouts -> Order] /\ Ordered' = Ordered
      /\ heard' \subseteq Payments
      /\ UNCHANGED <<published, quotes, holds, late, draft>>
      /\ UNCHANGED <<view, data, cart, recovered, page, visit, prep>>
  BY <1>1 DEF TokenMade, UnchangedButCard, Ordered, TypeOK, ServerTypeOK
<1> QED
  BY <1>3, <1>4, <1>5, MovedInductive

LEMMA PaymentRefusedInductive ==
    ASSUME Inductive, NEW k \in Payments, PaymentRefused(k) PROVE Inductive'
<1>1. TypeOK
  BY DEF Inductive
<1>2. charges[k].at = "sent" /\ charges[k].square = "none" /\ charges[k] # NoCharge
  BY UnderWay DEF PaymentRefused
<1>3. Moved(k, "over", "none")
  BY <1>1, <1>2, AtOnly DEF PaymentRefused, Moved
<1>4. /\ card' \in Card /\ card'.key = card.key /\ card'.receipt = card.receipt
      /\ card'.retry => card'.receipt = "declined"
      /\ Locked /\ card'.phase \in OpenForm =>
            IF card.key = k THEN "over" = "made" ELSE card.phase \in OpenForm
  <2>1. CASE card' = Doubted(k)
    BY <1>1, <2>1, CardDoubted
  <2>2. CASE card' = card
    BY <1>1, <1>2, <2>2, UnderWay DEF TypeOK
  <2> QED
    BY <2>1, <2>2 DEF PaymentRefused
<1>5. /\ orders' \in [Checkouts -> Order] /\ Ordered' = Ordered
      /\ heard' \subseteq Payments
      /\ UNCHANGED <<published, quotes, holds, late, draft>>
      /\ UNCHANGED <<view, data, cart, recovered, page, visit, prep>>
  BY <1>1 DEF PaymentRefused, UnchangedButCard, Ordered, TypeOK, ServerTypeOK
<1> QED
  BY <1>3, <1>4, <1>5, MovedInductive

LEMMA ClaimPaymentInductive ==
    ASSUME Inductive, NEW k \in Payments, ClaimPayment(k) PROVE Inductive'
<1>1. TypeOK
  BY DEF Inductive
<1>2. charges[k].at = "sent" /\ charges[k].square = "none" /\ charges[k] # NoCharge
  BY UnderWay DEF ClaimPayment
<1>3. Moved(k, "claimed", "none")
  BY <1>1, <1>2, AtOnly DEF ClaimPayment, Moved
<1>4. orders' \in [Checkouts -> Order] /\ Ordered' = Ordered
  BY <1>2, OrderKept DEF ClaimPayment, Order
<1>5. /\ card' = card /\ card \in Card /\ (card.retry => card.receipt = "declined")
      /\ heard' \subseteq Payments
      /\ UNCHANGED <<published, quotes, holds, late, draft>>
      /\ UNCHANGED <<view, data, cart, recovered, page, visit, prep>>
  BY <1>1 DEF ClaimPayment, browser, TypeOK
<1>6. Locked /\ card.phase \in OpenForm => card.key # k
  BY <1>2, UnderWay
<1> QED
  BY <1>3, <1>4, <1>5, <1>6, MovedInductive

LEMMA PaymentAnsweredInductive ==
    ASSUME Inductive, NEW k \in Payments, PaymentAnswered(k) PROVE Inductive'
<1>1. TypeOK
  BY DEF Inductive
<1>2. charges[k].at = "claimed" /\ charges[k].square = "none" /\ charges[k] # NoCharge
  BY UnderWay DEF PaymentAnswered
<1>3. PICK o \in Outcomes, retry \in BOOLEAN :
         /\ charges' = [charges EXCEPT ![k].at = "over", ![k].square = o[1]]
         /\ retry => o[2] = "declined"
         /\ OrderBecomes(k, o[2])
         /\ card' = IF k \in heard THEN Told(k, o[2], retry) ELSE card
         /\ draft' = IF k \in heard /\ o[2] = "paid" THEN {} ELSE draft
  BY DEF PaymentAnswered
<1> DEFINE square == o[1]
           status == o[2]
<1>4. /\ square \in {"none", "open", "paid", "declined"}
      /\ status \in Order \ {"none", "not_started"}
      /\ status \in {"paid", "declined"} => square = status
  BY OutcomesAgree
<1>5. Moved(k, "over", square)
  BY <1>2, <1>3, <1>4 DEF Moved
<1>6. orders' \in [Checkouts -> Order] /\ Ordered' = Ordered
  BY <1>2, <1>3, <1>4, OrderKept
<1> HIDE DEF square, status
<1>7. /\ card' \in Card /\ card'.key = card.key
      /\ card'.retry => card'.receipt = "declined"
      /\ Locked /\ card'.phase \in OpenForm => card.key # k /\ card.phase \in OpenForm
      /\ card'.receipt = card.receipt \/ (card.key = k /\ card'.receipt = status)
  <2>1. CASE card' = Told(k, status, retry)
    BY <1>1, <1>3, <1>4, <2>1, CardTold DEF status
  <2>2. CASE card' = card
    BY <1>1, <1>2, <2>2, UnderWay DEF TypeOK
  <2> QED
    BY <1>3, <2>1, <2>2 DEF status
<1>8. draft' = draft \/ (draft' = {} /\ square = "paid")
  BY <1>3, <1>4 DEF square, status
<1>9. /\ heard' \subseteq Payments
      /\ UNCHANGED <<published, quotes, holds, late>>
      /\ UNCHANGED <<view, data, cart, recovered, page, visit, prep>>
  BY <1>1 DEF PaymentAnswered, TypeOK
<1>10. card'.receipt \in {"paid", "declined"} =>
          card'.receipt = card.receipt \/ (card.key = k /\ square = card'.receipt)
  BY <1>4, <1>7
<1> QED
  BY <1>5, <1>6, <1>7, <1>8, <1>9, <1>10, MovedInductive

LEMMA WorkerDiesInductive ==
    ASSUME Inductive, NEW k \in Payments, WorkerDies(k) PROVE Inductive'
<1>1. TypeOK
  BY DEF Inductive
<1>2. charges[k].at = "claimed" /\ charges[k].square = "none" /\ charges[k] # NoCharge
  BY UnderWay DEF WorkerDies
<1>3. PICK s \in {"none", "open"} :
         charges' = [charges EXCEPT ![k].at = "over", ![k].square = s]
  BY DEF WorkerDies
<1>4. Moved(k, "over", s)
  BY <1>2, <1>3 DEF Moved
<1>5. /\ card' \in Card /\ card'.key = card.key /\ card'.receipt = card.receipt
      /\ card'.retry => card'.receipt = "declined"
      /\ Locked /\ card'.phase \in OpenForm => card.key # k /\ card.phase \in OpenForm
  <2>1. CASE card' = Doubted(k)
    BY <1>1, <2>1, CardDoubted
  <2>2. CASE card' = card
    BY <1>1, <1>2, <2>2, UnderWay DEF TypeOK
  <2> QED
    BY <2>1, <2>2 DEF WorkerDies
<1>6. /\ orders' \in [Checkouts -> Order] /\ Ordered' = Ordered
      /\ heard' \subseteq Payments
      /\ UNCHANGED <<published, quotes, holds, late, draft>>
      /\ UNCHANGED <<view, data, cart, recovered, page, visit, prep>>
  BY <1>1 DEF WorkerDies, UnchangedButCard, Ordered, TypeOK, ServerTypeOK
<1> QED
  BY <1>4, <1>5, <1>6, MovedInductive

LEMMA PaymentUnheardInductive ==
    ASSUME Inductive, NEW k \in Payments, PaymentUnheard(k) PROVE Inductive'
<1>1. TypeOK
  BY DEF Inductive
<1>2. /\ card' \in Card /\ card'.key = card.key /\ card'.receipt = card.receipt
      /\ card'.retry => card'.receipt = "declined"
      /\ card'.phase \in OpenForm => card' = card /\ card.key # k
  BY <1>1, CardDoubted DEF PaymentUnheard
<1>3. /\ orders' \in [Checkouts -> Order] /\ Ordered' = Ordered
      /\ heard' \subseteq Payments
      /\ UNCHANGED <<published, quotes, holds, orders, late, draft>>
      /\ UNCHANGED <<view, data, cart, recovered, page, visit, prep>>
  BY <1>1 DEF PaymentUnheard, UnchangedButCard, Ordered, TypeOK, ServerTypeOK
<1>4. CASE charges' = charges
  <2>1. TypeOK'
    BY <1>1, <1>2, <1>3, <1>4 DEF TypeOK, ServerTypeOK
  <2>2. RowsKnown' /\ PageKnown'
    BY <1>3 DEF Inductive, RowsKnown, PageKnown, Loaded
  <2>3. PreparationsKnown'
    BY <1>3, PreparationsKept DEF Inductive
  <2>4. PaymentsKnown' /\ RetriesFollowRefusals' /\ DraftFollowsCart'
    BY <1>3, <1>4, PaymentsKept, RetriesKept, DraftKept DEF Inductive
  <2>5. CardKnown'
    BY <1>2, <1>4 DEF Inductive, CardKnown, Locked, OpenForm
  <2> QED
    BY <2>1, <2>2, <2>3, <2>4, <2>5 DEF Inductive
<1>5. CASE charges[k].at = "sent" /\ charges' = [charges EXCEPT ![k].at = "over"]
  <2>1. charges[k].square = "none" /\ charges[k] # NoCharge
    BY <1>5, UnderWay
  <2>2. Moved(k, "over", "none")
    BY <1>1, <1>5, <2>1, AtOnly DEF Moved
  <2> QED
    BY <1>2, <1>3, <2>2, MovedInductive
<1> QED
  BY <1>4, <1>5 DEF PaymentUnheard

LEMMA SquareDecidesInductive ==
    ASSUME Inductive, NEW k \in Payments, SquareDecides(k), UNCHANGED browser
    PROVE  Inductive'
<1>1. TypeOK
  BY DEF Inductive
<1>2. charges[k].at = "over" /\ charges[k].square = "open" /\ charges[k] # NoCharge
  BY UnderWay DEF SquareDecides
<1>3. PICK s \in {"paid", "declined"} :
         charges' = [charges EXCEPT ![k].square = s] /\ OrderBecomes(k, s)
  BY DEF SquareDecides
<1>4. Moved(k, "over", s)
  BY <1>1, <1>2, <1>3, SquareOnly DEF Moved
<1>5. orders' \in [Checkouts -> Order] /\ Ordered' = Ordered
  BY <1>2, <1>3, OrderKept DEF Order
<1>6. /\ card' = card /\ card \in Card /\ (card.retry => card.receipt = "declined")
      /\ heard' \subseteq Payments
      /\ UNCHANGED <<published, quotes, holds, late, draft>>
      /\ UNCHANGED <<view, data, cart, recovered, page, visit, prep>>
  BY <1>1 DEF SquareDecides, browser, TypeOK
<1>7. Locked /\ card.phase \in OpenForm => card.key # k
  BY <1>2, UnderWay DEF Inductive, CardKnown, OpenForm
<1> QED
  BY <1>4, <1>5, <1>6, <1>7, MovedInductive

-----------------------------------------------------------------------------
(* The steps of the page *)

LEMMA EmptyKnown == NoPrep \in Prep /\ NoCard \in Card /\ ~NoCard.retry /\ NoCard.key = 0
BY NumbersKnown DEF NoPrep, Prep, NoCard, Card, Calls

\* Preparations that go on as they were, or have ended.
LEMMA PreparationsEnd ==
    ASSUME PreparationsKnown, UNCHANGED quotes, Ordered \subseteq Ordered',
           \A v \in Visits : \/ prep'[v] = prep[v]
                            \/ /\ prep'[v].checkout \in {0, v}
                               /\ prep'[v].phase \in {"idle", "failed"}
    PROVE  PreparationsKnown'
BY DEF PreparationsKnown, Calling, Calls

LEMMA LeftKnown ==
    ASSUME TypeOK
    PROVE  /\ Left \in [Visits -> Prep]
           /\ \A v \in Visits : \/ Left[v] = prep[v]
                               \/ /\ Left[v].checkout \in {0, v}
                                  /\ Left[v].phase \in {"idle", "failed"}
<1>1. \A v \in Visits : Left[v] = prep[v] \/ Left[v] = NoPrep
  BY DEF Left
<1>2. Left \in [Visits -> Prep]
  BY EmptyKnown DEF Left, TypeOK
<1> QED
  BY <1>1, <1>2 DEF NoPrep

\* A page that shows no review, or a new one, hides no payment.
LEMMA PaymentsHidden ==
    ASSUME TypeOK, PaymentsKnown, UNCHANGED <<charges, orders>>,
           \/ visit' = visit /\ view' # "reviewing"
           \/ visit' = visit + 1
    PROVE  PaymentsKnown'
<1>1. /\ visit \in Nat
      /\ \A k \in Payments : charges[k].checkout \in Nat /\ charges[k].checkout <= visit
  BY NumbersKnown DEF TypeOK, ServerTypeOK, Charge, PaymentsKnown
<1>2. \A k \in Payments : charges[k].checkout <= visit' /\ ~Shown(charges[k].checkout)'
  BY <1>1 DEF Shown
<1> QED
  BY <1>1, <1>2 DEF PaymentsKnown, Shown, Ordered

LEMMA PublishInductive ==
    ASSUME Inductive, Publish, UNCHANGED browser PROVE Inductive'
<1> USE DEF Inductive, Publish, browser
<1>1. TypeOK'
  BY DEF TypeOK, ServerTypeOK
<1>2. Ordered' = Ordered
  BY DEF Ordered
<1>3. PageKnown'
  BY DEF PageKnown, Loaded
<1> QED
  BY <1>1, <1>2, <1>3, RowsKept, PreparationsKept, PaymentsKept, CardKept,
     RetriesKept, DraftKept

LEMMA MenuArrivesInductive == ASSUME Inductive, MenuArrives PROVE Inductive'
<1>1. /\ Ordered' = Ordered /\ published \in Versions
      /\ UNCHANGED <<quotes, orders, late, charges, prep, visit, card>>
  BY DEF MenuArrives, Ordered, Inductive, TypeOK, ServerTypeOK
<1>2. TypeOK'
  BY DEF MenuArrives, Inductive, TypeOK, ServerTypeOK
<1>3. PageKnown'
  BY <1>1 DEF MenuArrives, Inductive, PageKnown, Loaded
<1>4. PaymentsKnown'
  BY <1>1, PaymentsKept, PaymentsHidden DEF MenuArrives, Inductive
<1>5. DraftFollowsCart'
  BY DEF MenuArrives, Inductive, DraftFollowsCart, Loaded
<1> QED
  BY <1>1, <1>2, <1>3, <1>4, <1>5, RowsKept, PreparationsKept, CardKept, RetriesKept
  DEF Inductive

LEMMA MenuFailsInductive == ASSUME Inductive, MenuFails PROVE Inductive'
<1>1. /\ Ordered' = Ordered
      /\ UNCHANGED <<quotes, orders, late, charges, visit>>
  BY DEF MenuFails, Ordered
<1>2. TypeOK'
  BY LeftKnown, EmptyKnown DEF MenuFails, Inductive, TypeOK, ServerTypeOK
<1>3. PageKnown' /\ DraftFollowsCart'
  BY DEF MenuFails, PageKnown, DraftFollowsCart, Loaded
<1>4. PreparationsKnown'
  BY <1>1, LeftKnown, PreparationsEnd DEF MenuFails, Inductive
<1>5. PaymentsKnown'
  BY <1>1, PaymentsHidden DEF MenuFails, Inductive
<1>6. CardKnown'
  BY EmptyKnown DEF MenuFails, CardKnown, Locked
<1> QED
  BY <1>1, <1>2, <1>3, <1>4, <1>5, <1>6, RowsKept, RetriesKept DEF Inductive

LEMMA ChangeCartInductive == ASSUME Inductive, ChangeCart PROVE Inductive'
<1>1. /\ Ordered' = Ordered
      /\ UNCHANGED <<quotes, orders, late, charges, visit, view, data, prep, card>>
  BY DEF ChangeCart, Ordered
<1>2. TypeOK'
  <2>1. data \in Versions
    BY DEF Inductive, PageKnown, ChangeCart, Loaded
  <2>2. cart' \subseteq Items
    BY <2>1, VersionsKnown DEF ChangeCart, Inductive, TypeOK
  <2> QED
    BY <2>2 DEF ChangeCart, Inductive, TypeOK, ServerTypeOK
<1>3. PageKnown' /\ DraftFollowsCart'
  BY <1>1 DEF ChangeCart, Inductive, PageKnown, DraftFollowsCart, Loaded
<1> QED
  BY <1>1, <1>2, <1>3, RowsKept, PreparationsKept, PaymentsKept, CardKept, RetriesKept
  DEF Inductive

LEMMA GoToInductive ==
    ASSUME Inductive, NEW next \in {"selecting", "details", "reviewing"}, GoTo(next)
    PROVE  Inductive'
<1>1. /\ Ordered' = Ordered
      /\ UNCHANGED <<quotes, orders, late, charges, data, card, cart, draft>>
  BY DEF GoTo, Ordered
<1>2. /\ visit \in 0 .. MaxCheckouts /\ visit' \in 0 .. MaxCheckouts
      /\ next = "reviewing" => visit' = visit + 1
      /\ next # "reviewing" => visit' = visit
      /\ Loaded
  BY NumbersKnown DEF GoTo, Inductive, TypeOK, Moves, Loaded
<1>3. TypeOK'
  BY <1>2, LeftKnown DEF GoTo, Inductive, TypeOK, ServerTypeOK
<1>4. PageKnown' /\ DraftFollowsCart'
  BY <1>1, <1>2, NumbersKnown DEF GoTo, Inductive, PageKnown, DraftFollowsCart, Loaded
<1>5. PreparationsKnown'
  BY <1>1, LeftKnown, PreparationsEnd DEF GoTo, Inductive
<1>6. PaymentsKnown'
  BY <1>1, <1>2, PaymentsHidden DEF GoTo, Inductive
<1> QED
  BY <1>1, <1>3, <1>4, <1>5, <1>6, RowsKept, CardKept, RetriesKept DEF Inductive

\* The request of a call that is under way.
LEMMA RequestKnown ==
    ASSUME Inductive, NEW v \in Visits, Calling(v)
    PROVE  /\ AsRequest(v) \in Request
           /\ AsRequest(v).visit = v /\ AsRequest(v).checkout = v
BY NumbersKnown DEF Inductive, TypeOK, Prep, PreparationsKnown, Calling, Calls,
   AsRequest, Request

LEMMA ReloadInductive == ASSUME Inductive, Reload PROVE Inductive'
<1>1. /\ Ordered' = Ordered
      /\ UNCHANGED <<published, quotes, holds, orders, visit>>
      /\ view' = "loading" /\ data' = 0 /\ cart' = {} /\ card' = NoCard
      /\ prep' = [v \in Visits |-> NoPrep]
  BY DEF Reload, Ordered
<1>2. \A r \in late' : r \in late \/ \E v \in Visits : Calling(v) /\ r = AsRequest(v)
  BY DEF Reload
<1>3. \A r \in late' : r \in late \/ (r \in Request /\ r.visit = r.checkout)
  BY <1>2, RequestKnown
<1>4. /\ charges' \in [Payments -> Charge]
      /\ \A k \in Payments : \/ charges'[k] = charges[k]
                            \/ /\ charges[k].at = "token" /\ charges'[k].at = "over"
                               /\ charges'[k].checkout = charges[k].checkout
                               /\ charges'[k].square = charges[k].square
  BY DEF Reload, Inductive, TypeOK, ServerTypeOK, Charge
<1>5. TypeOK'
  <2>1. late' \subseteq Request
    BY <1>3 DEF Inductive, TypeOK
  <2>2. page' \in 1 .. MaxPages
    BY StorefrontAssumption DEF Reload, Inductive, TypeOK
  <2>3. draft' \subseteq Items /\ recovered' \subseteq Items /\ heard' \subseteq Payments
    BY DEF Reload, Inductive, TypeOK
  <2> QED
    BY <1>1, <1>4, <2>1, <2>2, <2>3, EmptyKnown DEF Inductive, TypeOK, ServerTypeOK
<1>6. RowsKnown'
  BY <1>1, <1>3 DEF Inductive, RowsKnown
<1>7. PageKnown' /\ DraftFollowsCart'
  BY <1>1 DEF PageKnown, DraftFollowsCart, Loaded
<1>8. PreparationsKnown'
  BY <1>1, PreparationsEnd DEF Inductive, NoPrep
<1>9. \A k \in Payments : /\ charges'[k].checkout = charges[k].checkout
                         /\ charges'[k].square = charges[k].square
                         /\ (charges'[k] # NoCharge <=> charges[k] # NoCharge)
  <2>1. \A k \in Payments : charges[k].at = "token" => charges[k].checkout # 0
    BY DEF Inductive, PaymentsKnown, NoCharge
  <2> QED
    BY <1>4, <2>1 DEF NoCharge
<1>10. PaymentsKnown'
  BY <1>1, <1>4, <1>9 DEF Inductive, PaymentsKnown, Shown
<1>11. RetriesFollowRefusals'
  BY <1>9 DEF Inductive, RetriesFollowRefusals
<1>12. CardKnown'
  BY <1>1, EmptyKnown DEF CardKnown, Locked
<1> QED
  BY <1>5, <1>6, <1>7, <1>8, <1>10, <1>11, <1>12 DEF Inductive

LEMMA PrepareInductive == ASSUME Inductive, Prepare PROVE Inductive'
<1>1. /\ Ordered' = Ordered
      /\ UNCHANGED <<quotes, orders, late, charges, visit, view, data, cart, draft, card>>
  BY DEF Prepare, Ordered
<1>2. /\ visit \in Visits /\ data \in Versions /\ prep[visit].phase \in {"idle", "failed"}
  BY DEF Prepare, Inductive, PageKnown, Loaded
<1>3. PICK ids, lines :
         /\ ids \subseteq Items /\ lines \subseteq Items
         /\ prep' = [prep EXCEPT ![visit] =
               [checkout |-> visit, ids |-> ids, lines |-> lines, version |-> data,
                phase |-> IF lines = {} THEN "failed" ELSE "quote"]]
  <2>1. Reviewed \subseteq Items /\ prep[visit].ids \subseteq Items
    BY <1>2 DEF Reviewed, Inductive, TypeOK, Prep
  <2> QED
    BY <2>1 DEF Prepare
<1>4. prep' \in [Visits -> Prep]
  BY <1>2, <1>3, NumbersKnown DEF Inductive, TypeOK, Prep, Calls
<1>5. TypeOK'
  BY <1>4 DEF Prepare, Inductive, TypeOK, ServerTypeOK
<1>6. PreparationsKnown'
  <2>1. 0 \notin Versions
    BY VersionsKnown
  <2>2. /\ \A v \in Visits \ {visit} : prep'[v] = prep[v]
        /\ prep'[visit].checkout = visit /\ prep'[visit].version = data
        /\ prep'[visit].phase \in {"failed", "quote"}
    BY <1>2, <1>3 DEF Inductive, TypeOK
  <2> QED
    BY <1>1, <1>2, <2>1, <2>2 DEF Inductive, PreparationsKnown, Calling
<1>7. PaymentsKnown'
  BY <1>1, <1>2, <1>3 DEF Prepare, Inductive, TypeOK, PaymentsKnown, Shown
<1>8. PageKnown'
  BY <1>1 DEF Inductive, PageKnown, Loaded
<1> QED
  BY <1>1, <1>5, <1>6, <1>7, <1>8, RowsKept, CardKept, RetriesKept, DraftKept DEF Inductive

LEMMA CallFailsInductive ==
    ASSUME Inductive, NEW v \in Visits, CallFails(v) PROVE Inductive'
<1>1. /\ Ordered' = Ordered
      /\ UNCHANGED <<quotes, orders, charges, visit, view, data, cart, draft, card>>
  BY DEF CallFails, Ordered
<1>2. /\ late' \subseteq late \cup {AsRequest(v)}
      /\ AsRequest(v) \in Request
      /\ AsRequest(v).visit = AsRequest(v).checkout
  BY RequestKnown DEF CallFails
<1>3. /\ prep' = [prep EXCEPT ![v] = Ends(v, "failed")]
      /\ Ends(v, "failed") \in Prep
      /\ Ends(v, "failed").checkout \in {0, v}
      /\ Ends(v, "failed").phase \in {"idle", "failed"}
  BY EmptyKnown DEF CallFails, Ends, Inductive, TypeOK, Prep, PreparationsKnown, NoPrep
<1>4. TypeOK'
  BY <1>2, <1>3 DEF CallFails, Inductive, TypeOK, ServerTypeOK
<1>5. RowsKnown' /\ PageKnown'
  BY <1>1, <1>2 DEF Inductive, RowsKnown, PageKnown, Loaded
<1>6. PreparationsKnown'
  BY <1>1, <1>3, PreparationsEnd DEF Inductive, TypeOK
<1>7. PaymentsKnown'
  <2>1. \A w \in Visits : prep[w].phase = "ready" => prep'[w] = prep[w]
    BY <1>3 DEF CallFails, Calling, Calls, Inductive, TypeOK
  <2>2. \A k \in Payments :
           Shown(charges[k].checkout) => charges[k].checkout \in Visits
    BY DEF Inductive, PageKnown, Shown
  <2> QED
    BY <1>1, <2>1, <2>2 DEF Inductive, PaymentsKnown, Shown
<1> QED
  BY <1>1, <1>4, <1>5, <1>6, <1>7, CardKept, RetriesKept, DraftKept DEF Inductive

\* A request that is carried out adds its row, if it is not there yet, and
\* changes no other one.
LEMMA ServesKeeps ==
    ASSUME Inductive, NEW r \in Request, r.visit = r.checkout,
           NEW accepted \in BOOLEAN, Serves(r, accepted)
    PROVE  /\ published' = published
           /\ quotes' \in [Checkouts -> Quote]
           /\ holds' \subseteq Checkouts
           /\ orders' \in [Checkouts -> Order]
           /\ \A c \in Checkouts : quotes[c] # NoQuote => quotes'[c] = quotes[c]
           /\ \A c \in Checkouts : quotes'[c] = NoQuote \/ quotes'[c].visit = c
           /\ Ordered \subseteq Ordered'
           /\ \A c \in Ordered' : quotes'[c] # NoQuote
           /\ accepted /\ r.call = "quote" =>
                 /\ quotes'[r.checkout] # NoQuote
                 /\ quotes'[r.checkout].lines = r.lines
                 /\ quotes'[r.checkout].version = r.version
           /\ accepted /\ r.call = "order" => r.checkout \in Ordered'
<1>1. /\ quotes \in [Checkouts -> Quote] /\ holds \subseteq Checkouts
      /\ orders \in [Checkouts -> Order]
      /\ \A c \in Checkouts : quotes[c] = NoQuote \/ quotes[c].visit = c
      /\ \A c \in Ordered : quotes[c] # NoQuote
  BY DEF Inductive, TypeOK, ServerTypeOK, RowsKnown
<1>2. /\ r.checkout \in Checkouts /\ r.visit \in 1 .. MaxCheckouts
      /\ r.lines \subseteq Items /\ r.version \in Versions
      /\ r.checkout # 0 /\ published' = published
  BY NumbersKnown DEF Request, Serves
<1>3. CASE UNCHANGED <<quotes, holds, orders>> /\ ~accepted
  BY <1>1, <1>2, <1>3 DEF Ordered
<1>4. CASE accepted /\ r.call = "quote" /\ ServesQuote(r)
  <2>1. UNCHANGED <<holds, orders>> /\ Ordered' = Ordered
    BY <1>4 DEF ServesQuote, Ordered
  <2>2. CASE quotes[r.checkout] # NoQuote
    <3>1. /\ quotes' = quotes
          /\ quotes[r.checkout].lines = r.lines /\ quotes[r.checkout].version = r.version
      BY <1>4, <2>2 DEF ServesQuote
    <3> QED
      BY <1>1, <1>2, <1>4, <2>1, <2>2, <3>1
  <2>3. CASE quotes[r.checkout] = NoQuote
    <3>1. PICK hold \in BOOLEAN :
             quotes' = [quotes EXCEPT ![r.checkout] =
                          [visit |-> r.visit, lines |-> r.lines,
                           version |-> r.version, hold |-> hold]]
      BY <1>4, <2>3 DEF ServesQuote
    <3> DEFINE new == [visit |-> r.visit, lines |-> r.lines,
                       version |-> r.version, hold |-> hold]
    <3>2. /\ new \in Quote /\ new # NoQuote /\ new.visit = r.checkout
          /\ new.lines = r.lines /\ new.version = r.version
      BY <1>2 DEF Quote, NoQuote
    <3> HIDE DEF new
    <3>3. /\ quotes' \in [Checkouts -> Quote]
          /\ quotes'[r.checkout] = new
          /\ \A c \in Checkouts : c # r.checkout => quotes'[c] = quotes[c]
      BY <1>1, <1>2, <3>1, <3>2 DEF new
    <3> QED
      BY <1>1, <1>2, <1>4, <2>1, <2>3, <3>2, <3>3 DEF Ordered
  <2> QED
    BY <2>2, <2>3
<1>5. CASE accepted /\ r.call = "hold" /\ ServesHold(r)
  BY <1>1, <1>2, <1>5 DEF ServesHold, Ordered
<1>6. CASE accepted /\ r.call = "order" /\ ServesOrder(r)
  BY <1>1, <1>2, <1>6 DEF ServesOrder, Ordered, Binding, Order
<1> QED
  BY <1>3, <1>4, <1>5, <1>6 DEF Serves

LEMMA LateRequestInductive ==
    ASSUME Inductive, NEW r \in late, LateRequest(r) PROVE Inductive'
<1>1. r \in Request /\ r.visit = r.checkout
  BY DEF Inductive, TypeOK, RowsKnown
<1>2. /\ published' = published /\ quotes' \in [Checkouts -> Quote]
      /\ holds' \subseteq Checkouts /\ orders' \in [Checkouts -> Order]
      /\ \A c \in Checkouts : quotes[c] # NoQuote => quotes'[c] = quotes[c]
      /\ \A c \in Checkouts : quotes'[c] = NoQuote \/ quotes'[c].visit = c
      /\ Ordered \subseteq Ordered'
      /\ \A c \in Ordered' : quotes'[c] # NoQuote
  <2>1. CASE Serves(r, TRUE)
    BY <1>1, <2>1, ServesKeeps
  <2>2. CASE UNCHANGED <<published, quotes, holds, orders>>
    BY <2>2 DEF Inductive, TypeOK, ServerTypeOK, RowsKnown, Ordered
  <2> QED
    BY <2>1, <2>2 DEF LateRequest
<1>3. /\ late' \subseteq late
      /\ UNCHANGED <<charges, view, data, cart, draft, recovered>>
      /\ UNCHANGED <<page, visit, prep, heard, card>>
  BY DEF LateRequest
<1>4. TypeOK'
  BY <1>2, <1>3 DEF Inductive, TypeOK, ServerTypeOK
<1>5. RowsKnown' /\ PageKnown'
  BY <1>2, <1>3 DEF Inductive, RowsKnown, PageKnown, Loaded
<1>6. PreparationsKnown'
  BY <1>2, <1>3, NumbersKnown DEF Inductive, PreparationsKnown, Calling
<1> QED
  BY <1>2, <1>3, <1>4, <1>5, <1>6, PaymentsKept, CardKept, RetriesKept, DraftKept
  DEF Inductive

\* A call under way, and what comes of it.
LEMMA AnsweredPreparation ==
    ASSUME Inductive, NEW v \in Visits, NEW accepted \in BOOLEAN,
           Calling(v), Serves(AsRequest(v), accepted),
           prep' = [prep EXCEPT ![v] =
                      IF ~accepted THEN Ends(v, "failed")
                      ELSE IF NextCall(v) = "ready" THEN Ends(v, "ready")
                      ELSE [@ EXCEPT !.phase = NextCall(v)]]
    PROVE  prep' \in [Visits -> Prep] /\ PreparationsKnown'
<1> DEFINE r == AsRequest(v)
<1>1. /\ r \in Request /\ r.visit = v /\ r.checkout = v /\ r.call = prep[v].phase
      /\ r.lines = prep[v].lines /\ r.version = prep[v].version
  BY RequestKnown DEF AsRequest
<1>2. /\ prep \in [Visits -> Prep] /\ PreparationsKnown
      /\ prep[v].checkout = v /\ prep[v].version # 0 /\ prep[v].phase \in Calls
  BY DEF Inductive, TypeOK, PreparationsKnown, Calling
<1>3. /\ \A c \in Visits : quotes[c] # NoQuote => quotes'[c] = quotes[c]
      /\ Ordered \subseteq Ordered'
      /\ accepted /\ r.call = "quote" =>
            /\ quotes'[v] # NoQuote
            /\ quotes'[v].lines = prep[v].lines
            /\ quotes'[v].version = prep[v].version
      /\ accepted /\ r.call = "order" => v \in Ordered'
  BY <1>1, ServesKeeps, NumbersKnown
<1> HIDE DEF r
<1>4. \A w \in Visits \ {v} : prep'[w] = prep[w]
  BY <1>2
<1>5. CASE prep'[v] = NoPrep
  <2>1. prep' \in [Visits -> Prep]
    BY <1>2, <1>4, <1>5, EmptyKnown
  <2> QED
    BY <1>2, <1>3, <1>4, <1>5, <2>1 DEF PreparationsKnown, Calling, NoPrep, Calls
<1>6. CASE /\ prep'[v] = [prep[v] EXCEPT !.phase = prep'[v].phase]
           /\ prep'[v].phase \in {"failed", "hold", "order", "ready"}
           /\ prep'[v].phase \in {"hold", "order", "ready"} =>
                 /\ quotes'[v] # NoQuote
                 /\ quotes'[v].lines = prep[v].lines
                 /\ quotes'[v].version = prep[v].version
           /\ prep'[v].phase = "ready" => v \in Ordered'
  <2>1. /\ prep'[v] \in Prep
        /\ prep'[v].checkout = v /\ prep'[v].version = prep[v].version
        /\ prep'[v].lines = prep[v].lines
    BY <1>2, <1>6 DEF Prep, Calls
  <2>2. prep' \in [Visits -> Prep]
    BY <1>2, <1>4, <2>1
  <2> QED
    BY <1>2, <1>3, <1>4, <1>6, <2>1, <2>2 DEF PreparationsKnown, Calling, Calls
<1>7. CASE ~accepted
  <2>1. prep'[v] = NoPrep \/ prep'[v] = [prep[v] EXCEPT !.phase = "failed"]
    BY <1>2, <1>7 DEF Ends
  <2>2. [prep[v] EXCEPT !.phase = "failed"].phase = "failed"
    BY <1>2 DEF Prep
  <2> QED
    BY <1>5, <1>6, <2>1, <2>2
<1>8. CASE accepted /\ prep[v].phase = "order"
  <2>1. prep'[v] = NoPrep \/ prep'[v] = [prep[v] EXCEPT !.phase = "ready"]
    BY <1>2, <1>8 DEF Ends, NextCall
  <2>2. [prep[v] EXCEPT !.phase = "ready"].phase = "ready"
    BY <1>2 DEF Prep
  <2>3. /\ quotes'[v] # NoQuote /\ quotes'[v].lines = prep[v].lines
        /\ quotes'[v].version = prep[v].version
        /\ v \in Ordered'
    BY <1>1, <1>2, <1>3, <1>8 DEF PreparationsKnown
  <2> QED
    BY <1>5, <1>6, <2>1, <2>2, <2>3
<1>9. CASE accepted /\ prep[v].phase \in {"quote", "hold"}
  <2>1. NextCall(v) \in {"hold", "order"}
    BY <1>9 DEF NextCall
  <2>2. prep'[v] = [prep[v] EXCEPT !.phase = NextCall(v)]
    BY <1>2, <1>9, <2>1
  <2>3. prep'[v].phase = NextCall(v)
    BY <1>2, <2>2 DEF Prep
  <2>4. /\ quotes'[v] # NoQuote /\ quotes'[v].lines = prep[v].lines
        /\ quotes'[v].version = prep[v].version
    BY <1>1, <1>2, <1>3, <1>9 DEF PreparationsKnown
  <2> QED
    BY <1>6, <2>1, <2>2, <2>3, <2>4
<1> QED
  BY <1>2, <1>7, <1>8, <1>9 DEF Calls

\* The first card form of a checkout: nothing was charged for it before.
LEMMA OpenedCard ==
    ASSUME Inductive, NEW v \in Visits, Shown(v), prep[v].phase = "order",
           prep[v].checkout = v, OpensCard(v), UNCHANGED <<view, visit, cart, draft>>,
           Ordered \subseteq Ordered', v \in Ordered',
           \A w \in Visits \ {v} : prep'[w] = prep[w],
           prep'[v].phase = "ready"
    PROVE  /\ card' \in Card /\ ~card'.retry
           /\ charges' \in [Payments -> Charge]
           /\ PaymentsKnown' /\ CardKnown'
           /\ RetriesFollowRefusals' /\ DraftFollowsCart'
<1> DEFINE new == [NoCharge EXCEPT !.checkout = v]
<1>1. /\ v \in Payments /\ v # 0 /\ v <= MaxCheckouts /\ visit = v
      /\ charges \in [Payments -> Charge]
  BY NumbersKnown DEF Shown, Inductive, TypeOK, ServerTypeOK
<1>2. \A k \in Payments : charges[k].checkout # v
  BY DEF Inductive, PaymentsKnown
<1>3. charges[v] = NoCharge
  BY <1>1, <1>2 DEF Inductive, PaymentsKnown
<1>4. /\ new \in Charge /\ new.checkout = v /\ new # NoCharge
      /\ new.at = "made" /\ new.square = "none"
  BY <1>1, NumbersKnown DEF NoCharge, Charge
<1>5. /\ card' = [NoCard EXCEPT !.key = v]
      /\ charges' = [charges EXCEPT ![v] = new]
  BY DEF OpensCard
<1> HIDE DEF new
<1>6. /\ charges' \in [Payments -> Charge] /\ charges'[v] = new
      /\ \A k \in Payments : k # v => charges'[k] = charges[k]
  BY <1>1, <1>4, <1>5
<1>7. /\ card' \in Card /\ ~card'.retry /\ card'.key = v
      /\ card'.phase = "loading" /\ card'.receipt = "none"
  <2>1. v \in 0 .. MaxCheckouts + MaxRetries
    BY <1>1, NumbersKnown
  <2> QED
    BY <1>5, <2>1 DEF NoCard, Card
<1>8. PaymentsKnown'
  <2>1. \A k \in Payments :
           /\ charges'[k].checkout = 0 => charges'[k] = NoCharge
           /\ charges'[k].checkout # 0 => charges'[k].checkout \in Ordered'
           /\ k <= MaxCheckouts => charges'[k].checkout \in {0, k}
           /\ charges'[k].at # "over" => charges'[k].square = "none"
           /\ charges'[k].checkout <= visit'
    <3>1. SUFFICES ASSUME NEW k \in Payments
                   PROVE  /\ charges'[k].checkout = 0 => charges'[k] = NoCharge
                          /\ charges'[k].checkout # 0 => charges'[k].checkout \in Ordered'
                          /\ k <= MaxCheckouts => charges'[k].checkout \in {0, k}
                          /\ charges'[k].at # "over" => charges'[k].square = "none"
                          /\ charges'[k].checkout <= visit'
      OBVIOUS
    <3>2. CASE k = v
      BY <1>1, <1>4, <1>6, <3>2, NumbersKnown
    <3>3. CASE k # v
      BY <1>6, <3>3 DEF Inductive, PaymentsKnown
    <3> QED
      BY <3>2, <3>3
  <2>2. \A c : Shown(c)' => c = v
    BY <1>1 DEF Shown
  <2>3. \A j, k \in Payments :
           MaxCheckouts < j /\ j < k /\ charges'[k] # NoCharge => charges'[j] # NoCharge
    <3>1. \A j \in Payments : MaxCheckouts < j => j # v
      BY <1>1, NumbersKnown
    <3>2. \A j, k \in Payments : MaxCheckouts < j /\ j < k => MaxCheckouts < k
      BY NumbersKnown
    <3> QED
      BY <1>6, <3>1, <3>2 DEF Inductive, PaymentsKnown
  <2> QED
    BY <2>1, <2>2, <2>3 DEF PaymentsKnown, Shown
<1>9. CardKnown'
  BY <1>1, <1>2, <1>4, <1>6, <1>7, NumbersKnown DEF CardKnown, Locked
<1>10. RetriesFollowRefusals'
  BY <1>2, <1>4, <1>6, NumbersKnown DEF Inductive, RetriesFollowRefusals
<1>11. DraftFollowsCart'
  <2>1. charges[v].square # "paid"
    BY <1>3 DEF NoCharge
  <2> QED
    BY <1>6, <2>1 DEF Inductive, DraftFollowsCart, Loaded
<1> QED
  BY <1>6, <1>7, <1>8, <1>9, <1>10, <1>11

LEMMA CallAnsweredInductive ==
    ASSUME Inductive, NEW v \in Visits, CallAnswered(v) PROVE Inductive'
<1>1. PICK accepted \in BOOLEAN :
         /\ Serves(AsRequest(v), accepted)
         /\ prep' = [prep EXCEPT ![v] =
                       IF ~accepted THEN Ends(v, "failed")
                       ELSE IF NextCall(v) = "ready" THEN Ends(v, "ready")
                       ELSE [@ EXCEPT !.phase = NextCall(v)]]
         /\ IF accepted /\ NextCall(v) = "ready" /\ Shown(v)
            THEN OpensCard(v)
            ELSE UNCHANGED <<card, charges>>
  BY DEF CallAnswered
<1>2. /\ Calling(v)
      /\ UNCHANGED <<view, data, cart, draft, recovered, page, visit, late, heard>>
  BY DEF CallAnswered
<1>3. /\ published' = published /\ quotes' \in [Checkouts -> Quote]
      /\ holds' \subseteq Checkouts /\ orders' \in [Checkouts -> Order]
      /\ \A c \in Checkouts : quotes'[c] = NoQuote \/ quotes'[c].visit = c
      /\ Ordered \subseteq Ordered'
      /\ \A c \in Ordered' : quotes'[c] # NoQuote
      /\ accepted /\ prep[v].phase = "order" => v \in Ordered'
  <2>1. /\ AsRequest(v) \in Request
        /\ AsRequest(v).visit = AsRequest(v).checkout
        /\ AsRequest(v).checkout = v
    BY <1>2, RequestKnown
  <2>2. AsRequest(v).call = prep[v].phase
    BY DEF AsRequest
  <2> QED
    BY <1>1, <2>1, <2>2, ServesKeeps
<1>4. prep' \in [Visits -> Prep] /\ PreparationsKnown'
  BY <1>1, <1>2, AnsweredPreparation
<1>5. /\ prep \in [Visits -> Prep] /\ prep[v].checkout = v
      /\ \A w \in Visits \ {v} : prep'[w] = prep[w]
      /\ prep[v].phase \in Calls
  BY <1>1, <1>2 DEF Inductive, TypeOK, PreparationsKnown, Calling
<1>6. RowsKnown' /\ PageKnown'
  BY <1>2, <1>3 DEF Inductive, RowsKnown, PageKnown, Loaded
<1>7. /\ card' \in Card /\ (card'.retry => card'.receipt = "declined")
      /\ charges' \in [Payments -> Charge]
      /\ PaymentsKnown' /\ CardKnown' /\ RetriesFollowRefusals' /\ DraftFollowsCart'
  <2>1. CASE UNCHANGED <<card, charges>>
    <3>1. \A k \in Payments :
             Shown(charges[k].checkout) =>
                charges[k].checkout \in Visits /\ charges[k].checkout # v
      BY <1>5 DEF Inductive, PageKnown, PaymentsKnown, Shown, Calls
    <3>2. PaymentsKnown'
      BY <1>2, <1>3, <1>5, <2>1, <3>1 DEF Inductive, PaymentsKnown, Shown
    <3> QED
      BY <1>2, <2>1, <3>2, CardKept, RetriesKept, DraftKept DEF Inductive, TypeOK, ServerTypeOK
  <2>2. CASE accepted /\ NextCall(v) = "ready" /\ Shown(v) /\ OpensCard(v)
    <3>1. prep[v].phase = "order"
      BY <1>5, <2>2 DEF NextCall, Calls
    <3>2. prep'[v].phase = "ready"
      BY <1>1, <1>5, <2>2 DEF Ends, Prep
    <3> QED
      BY <1>2, <1>3, <1>5, <2>2, <3>1, <3>2, OpenedCard
  <2> QED
    BY <1>1, <2>1, <2>2
<1>8. TypeOK'
  BY <1>2, <1>3, <1>4, <1>7 DEF Inductive, TypeOK, ServerTypeOK
<1> QED
  BY <1>4, <1>6, <1>7, <1>8 DEF Inductive

LEMMA CardMountsInductive == ASSUME Inductive, CardMounts PROVE Inductive'
<1>1. /\ UNCHANGED <<published, quotes, holds, orders, charges, heard>>
      /\ UNCHANGED <<view, data, cart, draft, recovered, page, visit, prep, late>>
      /\ Ordered' = Ordered
  BY DEF CardMounts, UnchangedButCard, Ordered
<1>2. /\ card.phase = "loading"
      /\ card' \in Card /\ card'.key = card.key /\ card'.receipt = card.receipt
      /\ card'.retry = card.retry /\ card'.phase \in {"ready", "unavailable"}
  BY DEF CardMounts, Inductive, TypeOK, Card
<1>3. TypeOK'
  BY <1>1, <1>2 DEF Inductive, TypeOK, ServerTypeOK
<1>4. CardKnown'
  BY <1>1, <1>2 DEF Inductive, CardKnown, Locked
<1>5. PageKnown'
  BY <1>1 DEF Inductive, PageKnown, Loaded
<1> QED
  BY <1>1, <1>3, <1>4, <1>5, RowsKept, PreparationsKept, PaymentsKept, RetriesKept, DraftKept
  DEF Inductive

LEMMA RetryInductive == ASSUME Inductive, RetryDeclinedPayment PROVE Inductive'
<1> DEFINE c == charges[card.key].checkout
           new == [NoCharge EXCEPT !.checkout = c]
<1>1. PICK k \in Payments :
         /\ Another(k)
         /\ charges' = [charges EXCEPT ![k] = new]
         /\ card' = [NoCard EXCEPT !.key = k]
  BY DEF RetryDeclinedPayment
<1>2. /\ UNCHANGED <<published, quotes, holds, orders, heard>>
      /\ UNCHANGED <<view, data, cart, draft, recovered, page, visit, prep, late>>
      /\ Ordered' = Ordered
  BY DEF RetryDeclinedPayment, UnchangedButCard, Ordered
<1>3. /\ card.key \in Payments /\ c # 0 /\ c \in 0 .. MaxCheckouts
      /\ charges \in [Payments -> Charge]
      /\ charges[card.key].square = "declined"
      /\ charges[card.key] # NoCharge
      /\ \A j \in Payments : j > card.key => charges[j].checkout # c
  BY NumbersKnown DEF RetryDeclinedPayment, Inductive, TypeOK, ServerTypeOK, Card, Charge,
     Locked, CardKnown, NoCharge
<1>4. /\ new \in Charge /\ new.checkout = c /\ new # NoCharge
      /\ new.at = "made" /\ new.square = "none"
  BY <1>3 DEF NoCharge, Charge
<1>5. /\ c \in Ordered /\ c <= visit
      /\ Shown(c) => prep[c].phase = "ready"
  BY <1>3 DEF Inductive, PaymentsKnown
<1> HIDE DEF c, new
<1>6. /\ charges' \in [Payments -> Charge] /\ charges'[k] = new
      /\ \A j \in Payments : j # k => charges'[j] = charges[j]
  BY <1>1, <1>3, <1>4
<1>7. /\ k > MaxCheckouts /\ charges[k] = NoCharge
      /\ \A j \in Payments : j > MaxCheckouts /\ j < k => charges[j] # NoCharge
  BY <1>1 DEF Another
<1>8. \A j \in Payments : j > k => charges[j] = NoCharge
  BY <1>7, NumbersKnown DEF Inductive, PaymentsKnown
<1>9. /\ card' \in Card /\ ~card'.retry /\ card'.key = k
      /\ card'.phase = "loading" /\ card'.receipt = "none"
  <2>1. k \in 0 .. MaxCheckouts + MaxRetries
    BY NumbersKnown
  <2> QED
    BY <1>1, <2>1 DEF NoCard, Card
<1>10. TypeOK'
  BY <1>2, <1>6, <1>9 DEF Inductive, TypeOK, ServerTypeOK
<1>11. PaymentsKnown'
  <2>1. SUFFICES ASSUME NEW j \in Payments
                 PROVE  /\ charges'[j].checkout = 0 => charges'[j] = NoCharge
                        /\ charges'[j].checkout # 0 => charges'[j].checkout \in Ordered
                        /\ j <= MaxCheckouts => charges'[j].checkout \in {0, j}
                        /\ charges'[j].at # "over" => charges'[j].square = "none"
                        /\ charges'[j].checkout <= visit
                        /\ Shown(charges'[j].checkout) =>
                              prep[charges'[j].checkout].phase = "ready"
                        /\ \A i \in Payments :
                              MaxCheckouts < i /\ i < j /\ charges'[j] # NoCharge
                                 => charges'[i] # NoCharge
    BY <1>2 DEF PaymentsKnown, Shown
  <2>2. CASE j = k
    <3>1. \A i \in Payments : MaxCheckouts < i /\ i < j => charges'[i] # NoCharge
      BY <1>6, <1>7, <2>2, NumbersKnown
    <3> QED
      BY <1>3, <1>4, <1>5, <1>6, <1>7, <2>2, <3>1, NumbersKnown
  <2>3. CASE j # k
    <3>1. \A i \in Payments :
             MaxCheckouts < i /\ i < j /\ charges'[j] # NoCharge => charges'[i] # NoCharge
      BY <1>4, <1>6, <2>3 DEF Inductive, PaymentsKnown
    <3> QED
      BY <1>6, <2>3, <3>1 DEF Inductive, PaymentsKnown
  <2> QED
    BY <2>2, <2>3
<1>12. CardKnown'
  <2>1. \A j \in Payments : j > k => charges'[j].checkout # c
    BY <1>3, <1>6, <1>8, NumbersKnown DEF NoCharge
  <2> QED
    BY <1>3, <1>4, <1>6, <1>9, <2>1 DEF CardKnown
<1>13. RetriesFollowRefusals'
  <2>1. SUFFICES ASSUME NEW i \in Payments, NEW j \in Payments, i < j,
                        charges'[i].checkout = charges'[j].checkout,
                        charges'[j] # NoCharge
                 PROVE  charges'[i].square = "declined"
    BY DEF RetriesFollowRefusals
  <2>2. CASE j = k
    <3>1. charges[i].checkout = c /\ charges'[i] = charges[i]
      BY <1>4, <1>6, <2>1, <2>2, NumbersKnown
    <3>2. i = card.key \/ i < card.key
      BY <1>3, <3>1, NumbersKnown
    <3>3. CASE i < card.key
      BY <1>3, <3>1, <3>3 DEF c, Inductive, RetriesFollowRefusals
    <3> QED
      BY <1>3, <3>1, <3>2, <3>3
  <2>3. CASE j # k
    <3>1. i # k
      BY <1>6, <1>8, <2>1, <2>3, NumbersKnown
    <3> QED
      BY <1>6, <2>1, <2>3, <3>1 DEF Inductive, RetriesFollowRefusals
  <2> QED
    BY <2>2, <2>3
<1>14. DraftFollowsCart'
  <2>1. charges[k].square # "paid"
    BY <1>7 DEF NoCharge
  <2> QED
    BY <1>2, <1>6, <2>1 DEF Inductive, DraftFollowsCart, Loaded
<1>15. PageKnown'
  BY <1>2 DEF Inductive, PageKnown, Loaded
<1> QED
  BY <1>2, <1>10, <1>11, <1>12, <1>13, <1>14, <1>15, RowsKept, PreparationsKept DEF Inductive

-----------------------------------------------------------------------------
(* The theorems *)

LEMMA StepInductive == ASSUME Inductive, [Next]_vars PROVE Inductive'
<1>1. CASE UNCHANGED vars
  <2>1. Ordered' = Ordered
    BY <1>1 DEF vars, Ordered
  <2>2. TypeOK' /\ PageKnown'
    BY <1>1 DEF vars, Inductive, TypeOK, ServerTypeOK, PageKnown, Loaded
  <2> QED
    BY <1>1, <2>1, <2>2, RowsKept, PreparationsKept, PaymentsKept, CardKept,
       RetriesKept, DraftKept DEF vars, Inductive
<1>2. CASE ServerAlone /\ UNCHANGED browser
  BY <1>2, PublishInductive, SquareDecidesInductive DEF ServerAlone
<1>3. CASE MenuArrives \/ MenuFails \/ Reload \/ ChangeCart \/ Prepare
  BY <1>3, MenuArrivesInductive, MenuFailsInductive, ReloadInductive, ChangeCartInductive,
     PrepareInductive
<1>4. CASE \E next \in {"selecting", "details", "reviewing"} : GoTo(next)
  BY <1>4, GoToInductive
<1>5. CASE \E v \in Visits : Step(v)
  BY <1>5, CallAnsweredInductive, CallFailsInductive DEF Step
<1>6. CASE \E r \in late : LateRequest(r)
  BY <1>6, LateRequestInductive
<1>7. CASE CardMounts \/ Submit \/ RetryDeclinedPayment
  BY <1>7, CardMountsInductive, SubmitInductive, RetryInductive
<1>8. CASE \E k \in Payments : Pays(k)
  BY <1>8, TokenFailsInductive, TokenMadeInductive, PaymentRefusedInductive,
     ClaimPaymentInductive, PaymentAnsweredInductive, WorkerDiesInductive,
     PaymentUnheardInductive DEF Pays
<1> QED
  BY <1>1, <1>2, <1>3, <1>4, <1>5, <1>6, <1>7, <1>8 DEF Next

\* The invariant: rows come from the review they are numbered for, a
\* preparation relies on the quote it has, payments on an order that was shown.
THEOREM StorefrontInductive == Spec => []Inductive
<1>1. Inductive /\ [Next]_vars => Inductive'
  BY StepInductive
<1> QED
  BY <1>1, InitInductive, PTL DEF Spec

\* Every variable keeps its type.
THEOREM StorefrontTypes == Spec => []TypeOK
<1>1. Inductive => TypeOK
  BY DEF Inductive
<1> QED
  BY <1>1, StorefrontInductive, PTL

\* However a review's calls are lost, late or repeated, it makes one order.
THEOREM ReviewsOrderOnce == Spec => []OneOrderPerVisit
<1>1. Inductive => OneOrderPerVisit
  <2> SUFFICES ASSUME Inductive PROVE OneOrderPerVisit
    OBVIOUS
  <2>1. \A c \in Ordered : quotes[c].visit = c
    BY DEF Inductive, RowsKnown, Ordered
  <2> QED
    BY <2>1 DEF OneOrderPerVisit
<1> QED
  BY <1>1, StorefrontInductive, PTL

\* The order whose card form is shown is the one its customer reviewed.
THEOREM OrdersAreAsPrepared == Spec => []OrderIsAsPrepared
<1>1. Inductive => OrderIsAsPrepared
  BY DEF Inductive, PreparationsKnown, OrderIsAsPrepared
<1> QED
  BY <1>1, StorefrontInductive, PTL

\* Another card is taken only after the one before was refused.
THEOREM RetriesComeAfterRefusals == Spec => []RetriesFollowRefusals
<1>1. Inductive => RetriesFollowRefusals
  BY DEF Inductive
<1> QED
  BY <1>1, StorefrontInductive, PTL

\* What is known of the payments of the order whose card form is shown.
FormTrue ==
    /\ card.key \in Payments
    /\ \A k \in Payments :
          charges[k].checkout = charges[card.key].checkout /\ k # card.key
             => charges[k].square = "declined"
    /\ card.receipt \in {"paid", "declined"} => charges[card.key].square = card.receipt
    /\ card.phase = "unavailable" => charges[card.key].square = "none"

LEMMA FormIsTrue == Inductive /\ Locked => FormTrue
<1> SUFFICES ASSUME Inductive, Locked PROVE FormTrue
  OBVIOUS
<1>1. /\ card.key \in Payments /\ charges[card.key].checkout # 0
      /\ charges[card.key] # NoCharge
  BY NumbersKnown DEF Inductive, TypeOK, Card, Locked, CardKnown, NoCharge
<1>2. \A k \in Payments :
         charges[k].checkout = charges[card.key].checkout /\ k # card.key
            => charges[k].square = "declined"
  <2>1. SUFFICES ASSUME NEW k \in Payments, k # card.key,
                        charges[k].checkout = charges[card.key].checkout
                 PROVE  charges[k].square = "declined"
    OBVIOUS
  <2>2. ~(k > card.key)
    BY <2>1 DEF Inductive, CardKnown
  <2>3. k < card.key
    BY <1>1, <2>1, <2>2, NumbersKnown
  <2> QED
    BY <1>1, <2>1, <2>3 DEF Inductive, RetriesFollowRefusals
<1>3. /\ card.receipt \in {"paid", "declined"} => charges[card.key].square = card.receipt
      /\ card.phase = "unavailable" => charges[card.key].square = "none"
  BY <1>1 DEF Inductive, CardKnown, PaymentsKnown
<1> QED
  BY <1>1, <1>2, <1>3 DEF FormTrue

\* The review never denies a charge Square has, nor claims one it has not.
THEOREM OutcomesAreTrue == Spec => []OutcomeIsTrue
<1>1. Inductive => OutcomeIsTrue
  BY FormIsTrue DEF FormTrue, OutcomeIsTrue, Money
<1> QED
  BY <1>1, StorefrontInductive, PTL

\* While the page is loaded, what it would recover is the cart.
THEOREM DraftsFollowCarts == Spec => []DraftFollowsCart
<1>1. Inductive => DraftFollowsCart
  BY DEF Inductive
<1> QED
  BY <1>1, StorefrontInductive, PTL

-----------------------------------------------------------------------------
(* The refinement of CheckoutPromise *)

\* The card form stays on the screen it was opened on.
LEMMA ScreenKept ==
    ASSUME Inductive, CardOnScreen, card'.key = card.key, view' = view, visit' = visit,
           Locked => prep'[visit].phase = "ready",
           \A k \in Payments : charges'[k].checkout = charges[k].checkout
    PROVE  CardOnScreen'
<1>1. card.key \in 0 .. MaxCheckouts + MaxRetries
  BY DEF Inductive, TypeOK, Card
<1> QED
  BY <1>1, NumbersKnown DEF CardOnScreen, Locked

LEMMA ScreenCleared == ASSUME card' = NoCard \/ (~Locked /\ card' = card) PROVE CardOnScreen'
BY EmptyKnown DEF CardOnScreen, Locked

\* Orders neither made nor changed.
LEMMA OrdersStand ==
    ASSUME Inductive, Ordered' = Ordered, \A c \in Ordered : quotes'[c] = quotes[c]
    PROVE  OrdersMade' = OrdersMade
<1>1. \A v \in Visits : (orders'[v] # "none" <=> orders[v] # "none")
  BY NumbersKnown DEF Ordered
<1>2. \A v \in Visits : orders[v] # "none" => quotes'[v] = quotes[v]
  BY NumbersKnown DEF Ordered
<1> QED
  BY <1>1, <1>2 DEF OrdersMade, OrderOf

\* One order made, of a review that had none.
LEMMA OrderIsMade ==
    ASSUME Inductive, Inductive', NEW v \in Visits, v \notin Ordered,
           Ordered' = Ordered \cup {v}, \A c \in Ordered : quotes'[c] = quotes[c]
    PROVE  Promise!MakesOrder(v) /\ OrdersMade'[v] = {OrderOf(v)'}
<1>1. orders[v] = "none" /\ orders'[v] # "none"
  BY NumbersKnown DEF Ordered
<1>2. \A w \in Visits \ {v} :
         /\ orders'[w] # "none" <=> orders[w] # "none"
         /\ orders[w] # "none" => quotes'[w] = quotes[w]
  BY NumbersKnown DEF Ordered
<1>3. OrderOf(v)' \in OrderRows
  BY NumbersKnown DEF OrderOf, OrderRows, Inductive, TypeOK, ServerTypeOK, Quote
<1>4. OrdersMade[v] = {} /\ OrdersMade'[v] = {OrderOf(v)'}
  BY <1>1 DEF OrdersMade
<1>5. OrdersMade' = [OrdersMade EXCEPT ![v] = {OrderOf(v)'}]
  BY <1>1, <1>2 DEF OrdersMade, OrderOf
<1> QED
  BY <1>3, <1>4, <1>5 DEF Promise!MakesOrder

\* A payment command that moves on pays the same order, and Square has at most
\* that payment in another state.
LEMMA PaymentMoves ==
    ASSUME TypeOK, NEW k \in Payments, NEW at, NEW square, Moved(k, at, square)
    PROVE  /\ PaysFor' = PaysFor
           /\ SquareHas' = [SquareHas EXCEPT ![k] = square]
           /\ SquareHas'[k] = square /\ SquareHas[k] = charges[k].square
           /\ square = charges[k].square => SquareHas' = SquareHas
<1>1. /\ \A j \in Payments : /\ charges'[j].checkout = charges[j].checkout
                             /\ j # k => charges'[j] = charges[j]
      /\ charges'[k].square = square
  BY MovedFields
<1> QED
  BY <1>1 DEF PaysFor, SquareHas

LEMMA ChargesStand ==
    ASSUME \A k \in Payments : /\ charges'[k].checkout = charges[k].checkout
                               /\ charges'[k].square = charges[k].square
    PROVE  PaysFor' = PaysFor /\ SquareHas' = SquareHas
BY DEF PaysFor, SquareHas

\* What the screen says at the end of a step is so.
LEMMA SaysTruth ==
    ASSUME Inductive', CardOnScreen', Locked',
           OnScreen'.review = OnScreen.review, PaysFor' = PaysFor
    PROVE  OnScreen'.says \in Promise!Sayings /\ Promise!Truth(OnScreen'.says)
<1>1. FormTrue'
  <2>1. (Inductive /\ Locked => FormTrue)'
    BY FormIsTrue, PTL
  <2> QED
    BY <2>1
<1>2. /\ card'.key \in Payments /\ charges'[card'.key].checkout = visit'
      /\ OnScreen'.review = visit' /\ OnScreen'.says = Said'
  BY <1>1 DEF FormTrue, CardOnScreen, OnScreen
<1>3. \A k \in Payments : /\ PaysFor'[k] = charges'[k].checkout
                          /\ SquareHas'[k] = charges'[k].square
  BY DEF PaysFor, SquareHas
<1>4. card'.key \in Promise!Tried(OnScreen.review)
  BY <1>2, <1>3 DEF Promise!Tried
<1>5. \A k \in Promise!Tried(OnScreen.review) :
         k \in Payments /\ charges'[k].checkout = charges'[card'.key].checkout
  BY <1>2, <1>3 DEF Promise!Tried
<1>6. Said' = "paid" => SquareHas'[card'.key] = "paid"
  BY <1>1, <1>2, <1>3 DEF Said, FormTrue
<1>7. Said' = "declined" => \A k \in Promise!Tried(OnScreen.review) : SquareHas'[k] = "declined"
  BY <1>1, <1>2, <1>3, <1>5 DEF Said, FormTrue
<1>8. Said' = "unavailable" =>
         \A k \in Promise!Tried(OnScreen.review) : SquareHas'[k] \in {"none", "declined"}
  BY <1>1, <1>2, <1>3, <1>5 DEF Said, FormTrue
<1>9. Said' \in Promise!Sayings
  BY DEF Said, Promise!Sayings
<1> QED
  BY <1>2, <1>4, <1>6, <1>7, <1>8, <1>9 DEF Promise!Truth

\* A step of the card form or of its payment changes what the screen says, and
\* nothing else on it.
LEMMA FormSays ==
    ASSUME Inductive, CardOnScreen, Inductive', CardOnScreen',
           card'.key = card.key, UNCHANGED <<visit, prep>>,
           OrdersMade' = OrdersMade, PaysFor' = PaysFor
    PROVE  Promise!Says \/ OnScreen' = OnScreen
<1>1. CASE ~Locked
  BY <1>1 DEF OnScreen, Locked
<1>2. CASE Locked
  <2>1. /\ OnScreen = [review |-> visit, order |-> {SeenIn(visit)}, says |-> Said]
        /\ OnScreen' = [review |-> visit, order |-> {SeenIn(visit)}, says |-> Said']
        /\ Locked'
    BY <1>2 DEF OnScreen, Locked, SeenIn
  <2>2. OnScreen.review \in Visits /\ OnScreen'.review = OnScreen.review
    BY <1>2, <2>1 DEF CardOnScreen, Inductive, PageKnown
  <2>3. OnScreen' = [OnScreen EXCEPT !.says = OnScreen'.says]
    BY <2>1
  <2>4. OnScreen.review # 0
    BY <2>2, NumbersKnown
  <2> QED
    BY <2>1, <2>2, <2>3, <2>4, SaysTruth DEF Promise!Says
<1> QED
  BY <1>1, <1>2

\* A step that changes nothing of a payment, or that Square is asked to take or
\* decides it.
LEMMA PaymentImplements ==
    ASSUME Inductive, CardOnScreen, Inductive',
           NEW k \in Payments, NEW at, NEW square, Moved(k, at, square),
           charges[k].square \in {"none", "open"},
           square = charges[k].square \/ square # "none",
           charges[k].square = "none" /\ square # "none" => charges[k].at = "claimed",
           card'.key = card.key, UNCHANGED <<view, visit, prep, quotes>>,
           Ordered' = Ordered
    PROVE  CardOnScreen' /\ [Promise!Next]_(Promise!cvars)
<1>1. TypeOK /\ PaymentsKnown /\ RetriesFollowRefusals
  BY DEF Inductive
<1>2. CardOnScreen'
  BY <1>1, MovedFields, ScreenKept DEF CardOnScreen
<1>3. OrdersMade' = OrdersMade
  BY OrdersStand
<1>4. /\ PaysFor' = PaysFor
      /\ SquareHas' = [SquareHas EXCEPT ![k] = square]
      /\ SquareHas'[k] = square /\ SquareHas[k] = charges[k].square
      /\ square = charges[k].square => SquareHas' = SquareHas
  BY <1>1, PaymentMoves
<1>5. Promise!Says \/ OnScreen' = OnScreen
  BY <1>2, <1>3, <1>4, FormSays
<1>6. CASE square = charges[k].square
  BY <1>2, <1>3, <1>4, <1>5, <1>6 DEF Promise!Next, Promise!cvars
<1>7. CASE square # charges[k].square
  <2>1. square \in {"open", "paid", "declined"}
    BY <1>7 DEF Moved
  <2>2. charges[k].checkout # 0 /\ PaysFor[k] = charges[k].checkout /\ charges[k] # NoCharge
    BY <1>1 DEF Moved, PaymentsKnown, PaysFor
  <2>3. ASSUME charges[k].square = "none"
        PROVE  /\ \A j \in Promise!Tried(PaysFor[k]) \ {k} : SquareHas[j] = "declined"
               /\ OnScreen.review = PaysFor[k] => OnScreen.says # "unavailable"
    <3>1. \A j \in Payments \ {k} :
             charges[j].checkout = charges[k].checkout => charges[j].square = "declined"
      <4>1. SUFFICES ASSUME NEW j \in Payments \ {k}, charges[j].checkout = charges[k].checkout
                     PROVE  charges[j].square = "declined"
        OBVIOUS
      <4>2. charges[j] # NoCharge
        BY <2>2, <4>1 DEF NoCharge
      <4>3. j < k \/ k < j
        BY <4>1, NumbersKnown
      <4> QED
        BY <1>1, <2>2, <2>3, <4>1, <4>2, <4>3 DEF RetriesFollowRefusals
    <3>2. \A j \in Promise!Tried(PaysFor[k]) \ {k} : SquareHas[j] = "declined"
      BY <2>2, <3>1 DEF Promise!Tried, PaysFor, SquareHas
    <3>3. OnScreen.review = PaysFor[k] => OnScreen.says # "unavailable"
      <4>1. SUFFICES ASSUME OnScreen.review = PaysFor[k], OnScreen.says = "unavailable"
                     PROVE  FALSE
        OBVIOUS
      <4>2. /\ Locked /\ visit = charges[k].checkout /\ card.phase = "unavailable"
        BY <2>2, <4>1 DEF OnScreen, Said
      <4>3. /\ card.key \in Payments /\ charges[card.key].at = "made"
            /\ charges[card.key].checkout = charges[k].checkout
        BY <4>2, FormIsTrue DEF FormTrue, Inductive, CardKnown, CardOnScreen
      <4>4. charges[card.key].square = "none" /\ charges[k].at = "claimed"
        BY <1>1, <2>1, <2>3, <4>3 DEF PaymentsKnown
      <4>5. card.key # k
        BY <4>3, <4>4
      <4> QED
        BY <3>1, <4>3, <4>4, <4>5
    <3> QED
      BY <3>2, <3>3
  <2>4. Promise!Charge(k)
    BY <1>3, <1>4, <2>1, <2>2, <2>3 DEF Promise!Charge
  <2> QED
    BY <1>2, <1>5, <2>4 DEF Promise!Next
<1> QED
  BY <1>6, <1>7

\* What each step does to the promise, and to what it needs.
Implements == CardOnScreen' /\ [Promise!Next]_(Promise!cvars)

\* No step of the promise: nothing shown, ordered or paid changes.
LEMMA StandsStill ==
    ASSUME Inductive, CardOnScreen, Ordered' = Ordered,
           \A c \in Ordered : quotes'[c] = quotes[c],
           UNCHANGED <<charges, card, visit>>,
           Locked => view' = view /\ prep'[visit] = prep[visit]
    PROVE  Implements
<1>1. OrdersMade' = OrdersMade /\ PaysFor' = PaysFor /\ SquareHas' = SquareHas
  BY OrdersStand, ChargesStand
<1>2. OnScreen' = OnScreen
  BY DEF OnScreen, Locked, Said, SeenIn
<1>3. CardOnScreen'
  BY DEF CardOnScreen, Locked
<1> QED
  BY <1>1, <1>2, <1>3 DEF Implements, Promise!cvars

\* The same with an order that nobody is shown.
LEMMA PlacesUnseen ==
    ASSUME Inductive, CardOnScreen, Inductive', NEW v \in Visits, v \notin Ordered,
           Ordered' = Ordered \cup {v}, \A c \in Ordered : quotes'[c] = quotes[c],
           UNCHANGED <<charges, card, visit>>,
           Locked => view' = view /\ prep'[visit] = prep[visit]
    PROVE  Implements
<1>1. Promise!MakesOrder(v) /\ PaysFor' = PaysFor /\ SquareHas' = SquareHas
  BY OrderIsMade, ChargesStand
<1>2. OnScreen' = OnScreen
  BY DEF OnScreen, Locked, Said, SeenIn
<1>3. CardOnScreen'
  BY DEF CardOnScreen, Locked
<1>4. Promise!Place(v)
  BY <1>1, <1>2 DEF Promise!Place
<1> QED
  BY <1>3, <1>4 DEF Implements, Promise!Next

\* The card form goes, or there was none and none comes.
LEMMA ScreenIsLeft ==
    ASSUME Inductive, UNCHANGED <<quotes, orders>>,
           \A k \in Payments : /\ charges'[k].checkout = charges[k].checkout
                               /\ charges'[k].square = charges[k].square,
           card' = NoCard \/ (~Locked /\ card' = card)
    PROVE  Implements
<1>1. OrdersMade' = OrdersMade /\ PaysFor' = PaysFor /\ SquareHas' = SquareHas
  BY OrdersStand, ChargesStand DEF Ordered
<1>2. ~Locked'
  BY EmptyKnown DEF Locked
<1>3. OnScreen' = Promise!Blank
  BY <1>2 DEF OnScreen, Promise!Blank
<1> QED
  BY <1>1, <1>3, ScreenCleared DEF Implements, Promise!Next, Promise!Leave

LEMMA SubmitImplements ==
    ASSUME Inductive, CardOnScreen, Inductive', Submit PROVE Implements
<1> DEFINE k == card.key
<1>1. TypeOK
  BY DEF Inductive
<1>2. k \in Payments /\ charges[k].at = "made" /\ charges[k].checkout # 0
  BY NumbersKnown DEF Submit, Inductive, TypeOK, Card, Locked, CardKnown
<1>3. charges[k].square = "none" /\ charges[k] # NoCharge
  BY <1>2 DEF Inductive, PaymentsKnown, NoCharge
<1>4. Moved(k, "token", "none")
  BY <1>1, <1>2, <1>3, AtOnly DEF Submit, Moved
<1>5. card'.key = card.key
  BY <1>1 DEF Submit, TypeOK, Card
<1>6. UNCHANGED <<view, visit, prep, quotes>> /\ Ordered' = Ordered
  BY DEF Submit, UnchangedButCard, Ordered
<1> HIDE DEF k
<1> QED
  BY <1>2, <1>3, <1>4, <1>5, <1>6, PaymentImplements DEF Implements

LEMMA TokenImplements ==
    ASSUME Inductive, CardOnScreen, Inductive', NEW k \in Payments,
           TokenFails(k) \/ TokenMade(k)
    PROVE  Implements
<1>1. TypeOK
  BY DEF Inductive
<1>2. charges[k].at = "token" /\ charges[k].square = "none" /\ charges[k] # NoCharge
  BY UnderWay DEF TokenFails, TokenMade
<1>3. Moved(k, "made", "none") \/ Moved(k, "sent", "none")
  BY <1>1, <1>2, AtOnly DEF TokenFails, TokenMade, Moved
<1>4. card'.key = card.key
  BY <1>1 DEF TokenFails, TokenMade, TypeOK, Card
<1>5. UNCHANGED <<view, visit, prep, quotes>> /\ Ordered' = Ordered
  BY DEF TokenFails, TokenMade, UnchangedButCard, Ordered
<1> QED
  BY <1>2, <1>3, <1>4, <1>5, PaymentImplements DEF Implements

LEMMA RefusedImplements ==
    ASSUME Inductive, CardOnScreen, Inductive', NEW k \in Payments, PaymentRefused(k)
    PROVE  Implements
<1>1. TypeOK
  BY DEF Inductive
<1>2. charges[k].at = "sent" /\ charges[k].square = "none" /\ charges[k] # NoCharge
  BY UnderWay DEF PaymentRefused
<1>3. Moved(k, "over", "none")
  BY <1>1, <1>2, AtOnly DEF PaymentRefused, Moved
<1>4. card'.key = card.key
  BY <1>1, CardDoubted DEF PaymentRefused
<1>5. UNCHANGED <<view, visit, prep, quotes>> /\ Ordered' = Ordered
  BY DEF PaymentRefused, UnchangedButCard, Ordered
<1> QED
  BY <1>2, <1>3, <1>4, <1>5, PaymentImplements DEF Implements

LEMMA ClaimImplements ==
    ASSUME Inductive, CardOnScreen, Inductive', NEW k \in Payments, ClaimPayment(k)
    PROVE  Implements
<1>1. TypeOK
  BY DEF Inductive
<1>2. charges[k].at = "sent" /\ charges[k].square = "none" /\ charges[k] # NoCharge
  BY UnderWay DEF ClaimPayment
<1>3. Moved(k, "claimed", "none")
  BY <1>1, <1>2, AtOnly DEF ClaimPayment, Moved
<1>4. Ordered' = Ordered
  BY <1>2, OrderKept DEF ClaimPayment, Order
<1>5. UNCHANGED <<view, visit, prep, quotes, card>>
  BY DEF ClaimPayment, browser
<1> QED
  BY <1>2, <1>3, <1>4, <1>5, PaymentImplements DEF Implements

LEMMA AnsweredImplements ==
    ASSUME Inductive, CardOnScreen, Inductive', NEW k \in Payments, PaymentAnswered(k)
    PROVE  Implements
<1>1. TypeOK
  BY DEF Inductive
<1>2. charges[k].at = "claimed" /\ charges[k].square = "none" /\ charges[k] # NoCharge
  BY UnderWay DEF PaymentAnswered
<1>3. PICK o \in Outcomes, retry \in BOOLEAN :
         /\ charges' = [charges EXCEPT ![k].at = "over", ![k].square = o[1]]
         /\ retry => o[2] = "declined"
         /\ OrderBecomes(k, o[2])
         /\ card' = IF k \in heard THEN Told(k, o[2], retry) ELSE card
  BY DEF PaymentAnswered
<1> DEFINE square == o[1]
           status == o[2]
<1>4. /\ square \in {"none", "open", "paid", "declined"}
      /\ status \in Order \ {"none", "not_started"}
  BY OutcomesAgree
<1>5. Moved(k, "over", square)
  BY <1>2, <1>3, <1>4 DEF Moved
<1>6. Ordered' = Ordered
  BY <1>2, <1>3, <1>4, OrderKept
<1> HIDE DEF square, status
<1>7. card'.key = card.key
  BY <1>1, <1>3, <1>4, CardTold DEF status
<1>8. UNCHANGED <<view, visit, prep, quotes>>
  BY DEF PaymentAnswered
<1> QED
  BY <1>2, <1>5, <1>6, <1>7, <1>8, PaymentImplements DEF Implements

LEMMA DiesImplements ==
    ASSUME Inductive, CardOnScreen, Inductive', NEW k \in Payments, WorkerDies(k)
    PROVE  Implements
<1>1. TypeOK
  BY DEF Inductive
<1>2. charges[k].at = "claimed" /\ charges[k].square = "none" /\ charges[k] # NoCharge
  BY UnderWay DEF WorkerDies
<1>3. PICK s \in {"none", "open"} :
         charges' = [charges EXCEPT ![k].at = "over", ![k].square = s]
  BY DEF WorkerDies
<1>4. Moved(k, "over", s)
  BY <1>2, <1>3 DEF Moved
<1>5. card'.key = card.key
  BY <1>1, CardDoubted DEF WorkerDies
<1>6. UNCHANGED <<view, visit, prep, quotes>> /\ Ordered' = Ordered
  BY DEF WorkerDies, UnchangedButCard, Ordered
<1> QED
  BY <1>2, <1>4, <1>5, <1>6, PaymentImplements DEF Implements

LEMMA DecidesImplements ==
    ASSUME Inductive, CardOnScreen, Inductive', NEW k \in Payments,
           SquareDecides(k), UNCHANGED browser
    PROVE  Implements
<1>1. TypeOK
  BY DEF Inductive
<1>2. charges[k].at = "over" /\ charges[k].square = "open" /\ charges[k] # NoCharge
  BY UnderWay DEF SquareDecides
<1>3. PICK s \in {"paid", "declined"} :
         charges' = [charges EXCEPT ![k].square = s] /\ OrderBecomes(k, s)
  BY DEF SquareDecides
<1>4. Moved(k, "over", s)
  BY <1>1, <1>2, <1>3, SquareOnly DEF Moved
<1>5. Ordered' = Ordered
  BY <1>2, <1>3, OrderKept DEF Order
<1>6. UNCHANGED <<view, visit, prep, quotes, card>>
  BY DEF SquareDecides, browser
<1> QED
  BY <1>2, <1>4, <1>5, <1>6, PaymentImplements DEF Implements

\* A step of the form alone.
LEMMA FormImplements ==
    ASSUME Inductive, CardOnScreen, Inductive', card'.key = card.key,
           UNCHANGED <<quotes, orders, charges, view, visit, prep>>
    PROVE  Implements
<1>1. OrdersMade' = OrdersMade /\ PaysFor' = PaysFor /\ SquareHas' = SquareHas
  BY OrdersStand, ChargesStand DEF Ordered
<1>2. CardOnScreen'
  BY ScreenKept DEF CardOnScreen
<1> QED
  BY <1>1, <1>2, FormSays DEF Implements, Promise!Next, Promise!cvars

LEMMA UnheardImplements ==
    ASSUME Inductive, CardOnScreen, Inductive', NEW k \in Payments, PaymentUnheard(k)
    PROVE  Implements
<1>1. TypeOK
  BY DEF Inductive
<1>2. card'.key = card.key
  BY <1>1, CardDoubted DEF PaymentUnheard
<1>3. UNCHANGED <<view, visit, prep, quotes, orders>> /\ Ordered' = Ordered
  BY DEF PaymentUnheard, UnchangedButCard, Ordered
<1>4. CASE charges' = charges
  BY <1>2, <1>3, <1>4, FormImplements
<1>5. CASE charges[k].at = "sent" /\ charges' = [charges EXCEPT ![k].at = "over"]
  <2>1. charges[k].square = "none" /\ charges[k] # NoCharge
    BY <1>5, UnderWay
  <2>2. Moved(k, "over", "none")
    BY <1>1, <1>5, <2>1, AtOnly DEF Moved
  <2> QED
    BY <1>2, <1>3, <2>1, <2>2, PaymentImplements DEF Implements
<1> QED
  BY <1>4, <1>5 DEF PaymentUnheard

LEMMA MountsImplements ==
    ASSUME Inductive, CardOnScreen, Inductive', CardMounts PROVE Implements
<1>1. card'.key = card.key
  BY DEF CardMounts, Inductive, TypeOK, Card
<1> QED
  BY <1>1, FormImplements DEF CardMounts, UnchangedButCard

\* A request makes its own order or none.
LEMMA ServesOne ==
    ASSUME Inductive, NEW r \in Request, NEW accepted \in BOOLEAN, Serves(r, accepted)
    PROVE  /\ \/ Ordered' = Ordered
              \/ /\ accepted /\ r.call = "order"
                 /\ r.checkout \notin Ordered /\ Ordered' = Ordered \cup {r.checkout}
           /\ accepted /\ r.call = "order" => r.checkout \in Ordered'
<1>1. orders \in [Checkouts -> Order] /\ r.checkout \in Checkouts
  BY DEF Inductive, TypeOK, ServerTypeOK, Request
<1>2. CASE accepted /\ r.call = "order" /\ ServesOrder(r)
  BY <1>1, <1>2 DEF ServesOrder, Ordered
<1>3. CASE UNCHANGED orders /\ ~(accepted /\ r.call = "order")
  BY <1>3 DEF Ordered
<1> QED
  BY <1>2, <1>3 DEF Serves, ServesQuote, ServesHold

LEMMA LateImplements ==
    ASSUME Inductive, CardOnScreen, Inductive', NEW r \in late, LateRequest(r)
    PROVE  Implements
<1>1. r \in Request /\ r.visit = r.checkout /\ r.checkout \in Visits
  BY NumbersKnown DEF Inductive, TypeOK, RowsKnown, Request
<1>2. /\ \A c \in Ordered : quotes'[c] = quotes[c]
      /\ \/ Ordered' = Ordered
         \/ r.checkout \notin Ordered /\ Ordered' = Ordered \cup {r.checkout}
  <2>1. CASE Serves(r, TRUE)
    BY <1>1, <2>1, ServesKeeps, ServesOne DEF Inductive, RowsKnown, Ordered
  <2>2. CASE UNCHANGED <<published, quotes, holds, orders>>
    BY <2>2 DEF Ordered
  <2> QED
    BY <2>1, <2>2 DEF LateRequest
<1>3. UNCHANGED <<charges, card, view, visit, prep>>
  BY DEF LateRequest
<1> QED
  BY <1>1, <1>2, <1>3, StandsStill, PlacesUnseen

\* A new payment command, which Square has not seen.
LEMMA OneMorePayment ==
    ASSUME NEW k \in Payments, NEW c, charges \in [Payments -> Charge],
           charges[k] = NoCharge,
           charges' = [charges EXCEPT ![k] = [NoCharge EXCEPT !.checkout = c]]
    PROVE  /\ charges'[k].checkout = c
           /\ PaysFor' = [PaysFor EXCEPT ![k] = c]
           /\ SquareHas' = SquareHas
<1> DEFINE new == [NoCharge EXCEPT !.checkout = c]
<1>1. new.checkout = c /\ new.square = "none" /\ charges[k].square = "none"
  BY DEF NoCharge
<1> HIDE DEF new
<1>2. charges'[k] = new /\ \A j \in Payments \ {k} : charges'[j] = charges[j]
  BY DEF new
<1>3. PaysFor' = [PaysFor EXCEPT ![k] = c]
  <2>1. \A j \in Payments : charges'[j].checkout = IF j = k THEN c ELSE charges[j].checkout
    BY <1>1, <1>2
  <2> QED
    BY <2>1 DEF PaysFor
<1>4. SquareHas' = SquareHas
  BY <1>1, <1>2 DEF SquareHas
<1> QED
  BY <1>1, <1>2, <1>3, <1>4

\* The first card form of an order, made now or found.
LEMMA OpensImplements ==
    ASSUME Inductive, CardOnScreen, Inductive', NEW v \in Visits, Shown(v), Calling(v),
           v \in Ordered', OpensCard(v), prep'[v].phase = "ready",
           prep[v].checkout = v, UNCHANGED <<view, visit>>,
           \A c \in Ordered : quotes'[c] = quotes[c],
           Ordered' = Ordered \/ Ordered' = Ordered \cup {v}
    PROVE  Implements
<1>1. v \in Payments /\ v # 0 /\ view = "reviewing" /\ visit = v
  BY NumbersKnown DEF Shown
<1>2. prep[v].phase # "ready" /\ ~Locked
  BY <1>1 DEF Calling, Calls, CardOnScreen
<1>3. /\ \A k \in Payments : charges[k].checkout # v
      /\ charges[v] = NoCharge /\ charges \in [Payments -> Charge]
  BY <1>1, <1>2 DEF Inductive, TypeOK, ServerTypeOK, PaymentsKnown
<1>4. /\ card' = [NoCard EXCEPT !.key = v]
      /\ charges' = [charges EXCEPT ![v] = [NoCharge EXCEPT !.checkout = v]]
  BY DEF OpensCard
<1>5. /\ card'.key = v /\ card'.receipt = "none" /\ card'.phase = "loading"
      /\ charges'[v].checkout = v
      /\ PaysFor' = [PaysFor EXCEPT ![v] = v] /\ SquareHas' = SquareHas
  BY <1>1, <1>3, <1>4, OneMorePayment DEF NoCard
<1>6. CardOnScreen'
  BY <1>1, <1>5 DEF CardOnScreen
<1>7. OnScreen' = [review |-> v, order |-> OrdersMade'[v], says |-> "nothing"]
  <2>1. OnScreen' = [review |-> v, order |-> {SeenIn(v)'}, says |-> "nothing"]
    BY <1>1, <1>5 DEF OnScreen, Locked, Said, SeenIn
  <2>2. SeenIn(v)' = OrderOf(v)'
    BY DEF Inductive, PreparationsKnown, SeenIn, OrderOf
  <2>3. OrdersMade'[v] = {OrderOf(v)'}
    BY NumbersKnown DEF Ordered, OrdersMade
  <2> QED
    BY <2>1, <2>2, <2>3
<1>8. \/ OrdersMade[v] # {} /\ OrdersMade' = OrdersMade
      \/ Promise!MakesOrder(v)
  <2>1. CASE v \in Ordered
    <3>1. OrdersMade' = OrdersMade
      BY <2>1, OrdersStand
    <3>2. OrdersMade[v] # {}
      BY <2>1 DEF Ordered, OrdersMade
    <3> QED
      BY <3>1, <3>2
  <2>2. CASE v \notin Ordered
    BY <2>2, OrderIsMade
  <2> QED
    BY <2>1, <2>2
<1>9. Promise!Tried(v) = {} /\ v \in Promise!Tried(0)
  BY <1>1, <1>3 DEF Promise!Tried, PaysFor, NoCharge
<1>10. Promise!Open(v)
  BY <1>5, <1>7, <1>8, <1>9 DEF Promise!Open
<1> QED
  BY <1>6, <1>10 DEF Implements, Promise!Next

LEMMA AnswerImplements ==
    ASSUME Inductive, CardOnScreen, Inductive', NEW v \in Visits, CallAnswered(v)
    PROVE  Implements
<1>1. PICK accepted \in BOOLEAN :
         /\ Serves(AsRequest(v), accepted)
         /\ prep' = [prep EXCEPT ![v] =
                       IF ~accepted THEN Ends(v, "failed")
                       ELSE IF NextCall(v) = "ready" THEN Ends(v, "ready")
                       ELSE [@ EXCEPT !.phase = NextCall(v)]]
         /\ IF accepted /\ NextCall(v) = "ready" /\ Shown(v)
            THEN OpensCard(v)
            ELSE UNCHANGED <<card, charges>>
  BY DEF CallAnswered
<1>2. Calling(v) /\ UNCHANGED <<view, visit>>
  BY DEF CallAnswered
<1>3. /\ prep \in [Visits -> Prep] /\ prep[v].checkout = v /\ prep[v].phase \in Calls
      /\ \A w \in Visits \ {v} : prep'[w] = prep[w]
  BY <1>1, <1>2 DEF Inductive, TypeOK, PreparationsKnown, Calling
<1>4. /\ \A c \in Ordered : quotes'[c] = quotes[c]
      /\ \/ Ordered' = Ordered
         \/ v \notin Ordered /\ Ordered' = Ordered \cup {v}
      /\ accepted /\ prep[v].phase = "order" => v \in Ordered'
  <2>1. /\ AsRequest(v) \in Request
        /\ AsRequest(v).visit = AsRequest(v).checkout
        /\ AsRequest(v).checkout = v
    BY <1>2, RequestKnown
  <2>2. AsRequest(v).call = prep[v].phase
    BY DEF AsRequest
  <2>3. \A c \in Ordered : c \in Checkouts /\ quotes[c] # NoQuote
    BY DEF Inductive, RowsKnown, Ordered
  <2> QED
    BY <1>1, <2>1, <2>2, <2>3, ServesKeeps, ServesOne
<1>5. CASE UNCHANGED <<card, charges>>
  <2>1. Locked => visit \in Visits /\ visit # v
    BY <1>3 DEF CardOnScreen, Calls, Inductive, PageKnown
  <2>2. Locked => view' = view /\ prep'[visit] = prep[visit]
    BY <1>2, <1>3, <2>1
  <2> QED
    BY <1>2, <1>4, <1>5, <2>2, StandsStill, PlacesUnseen
<1>6. CASE accepted /\ NextCall(v) = "ready" /\ Shown(v) /\ OpensCard(v)
  <2>1. prep[v].phase = "order"
    BY <1>3, <1>6 DEF NextCall, Calls
  <2>2. prep'[v].phase = "ready"
    BY <1>1, <1>3, <1>6 DEF Ends, Prep
  <2> QED
    BY <1>2, <1>3, <1>4, <1>6, <2>1, <2>2, OpensImplements
<1> QED
  BY <1>1, <1>5, <1>6

LEMMA FailsImplements ==
    ASSUME Inductive, CardOnScreen, Inductive', NEW v \in Visits, CallFails(v)
    PROVE  Implements
<1>1. Locked => visit \in Visits /\ visit # v
  BY DEF CallFails, Calling, CardOnScreen, Calls, Inductive, PageKnown
<1>2. Locked => prep'[visit] = prep[visit]
  BY <1>1 DEF CallFails, Inductive, TypeOK
<1> QED
  BY <1>2, StandsStill DEF CallFails, Ordered

\* Another card, for the same order.
LEMMA RetryImplements ==
    ASSUME Inductive, CardOnScreen, Inductive', RetryDeclinedPayment PROVE Implements
<1> DEFINE c == charges[card.key].checkout
<1>1. PICK k \in Payments :
         /\ Another(k)
         /\ charges' = [charges EXCEPT ![k] = [NoCharge EXCEPT !.checkout = c]]
         /\ card' = [NoCard EXCEPT !.key = k]
  BY DEF RetryDeclinedPayment
<1>2. /\ UNCHANGED <<quotes, orders, view, visit, prep>>
      /\ Locked /\ card.receipt = "declined" /\ ~card.doubt
  BY DEF RetryDeclinedPayment, UnchangedButCard
<1>3. /\ FormTrue /\ view = "reviewing" /\ c = visit /\ visit \in Visits /\ visit # 0
      /\ prep[visit].phase = "ready"
  BY <1>2, FormIsTrue, NumbersKnown DEF CardOnScreen, Inductive, PageKnown
<1>4. charges[k] = NoCharge /\ charges \in [Payments -> Charge] /\ k # 0
  BY <1>1, NumbersKnown DEF Another, Inductive, TypeOK, ServerTypeOK
<1>5. /\ card'.key = k /\ card'.receipt = "none" /\ card'.phase = "loading"
      /\ charges'[k].checkout = visit
      /\ PaysFor' = [PaysFor EXCEPT ![k] = visit] /\ SquareHas' = SquareHas
  BY <1>1, <1>3, <1>4, OneMorePayment DEF NoCard
<1>6. CardOnScreen'
  BY <1>2, <1>3, <1>5 DEF CardOnScreen
<1>7. OrdersMade' = OrdersMade
  BY <1>2, OrdersStand DEF Ordered
<1>8. OrdersMade[visit] = {SeenIn(visit)}
  BY <1>3, NumbersKnown DEF Inductive, PreparationsKnown, Ordered, OrdersMade, OrderOf, SeenIn
<1>9. /\ OnScreen.review = visit /\ OnScreen.says = "declined"
      /\ OnScreen' = [review |-> visit, order |-> OrdersMade'[visit], says |-> "nothing"]
  BY <1>2, <1>4, <1>5, <1>7, <1>8 DEF OnScreen, Locked, Said, SeenIn
<1>10. \A j \in Promise!Tried(visit) : SquareHas[j] = "declined"
  BY <1>2, <1>3 DEF FormTrue, Promise!Tried, PaysFor, SquareHas
<1>11. k \in Promise!Tried(0)
  BY <1>4 DEF Promise!Tried, PaysFor, NoCharge
<1>12. Promise!Open(visit)
  BY <1>5, <1>7, <1>8, <1>9, <1>10, <1>11 DEF Promise!Open
<1> QED
  BY <1>3, <1>6, <1>12 DEF Implements, Promise!Next

LEMMA PageImplements ==
    ASSUME Inductive, CardOnScreen, Inductive',
           \/ MenuArrives \/ MenuFails \/ Reload \/ ChangeCart \/ Prepare
           \/ \E next \in {"selecting", "details", "reviewing"} : GoTo(next)
    PROVE  Implements
<1>1. CASE MenuArrives
  BY <1>1, StandsStill DEF MenuArrives, CardOnScreen, Loaded, Ordered
<1>2. CASE MenuFails
  BY <1>2, ScreenIsLeft DEF MenuFails
<1>3. CASE Reload
  <2>1. \A k \in Payments : /\ charges'[k].checkout = charges[k].checkout
                            /\ charges'[k].square = charges[k].square
    BY <1>3 DEF Reload, Inductive, TypeOK, ServerTypeOK, Charge
  <2> QED
    BY <1>3, <2>1, ScreenIsLeft DEF Reload
<1>4. CASE ChangeCart
  BY <1>4, StandsStill DEF ChangeCart, Ordered
<1>5. CASE Prepare
  BY <1>5, ScreenIsLeft DEF Prepare
<1>6. ASSUME NEW next \in {"selecting", "details", "reviewing"}, GoTo(next)
      PROVE  Implements
  BY <1>6, ScreenIsLeft DEF GoTo, CardOnScreen
<1> QED
  BY <1>1, <1>2, <1>3, <1>4, <1>5, <1>6

LEMMA StepImplements ==
    ASSUME Inductive, CardOnScreen, [Next]_vars PROVE Implements
<1>1. Inductive'
  BY StepInductive
<1>2. CASE UNCHANGED vars
  BY <1>2, StandsStill DEF vars, Ordered
<1>3. CASE ServerAlone /\ UNCHANGED browser
  <2>1. CASE Publish
    BY <1>3, <2>1, StandsStill DEF Publish, browser, Ordered
  <2> QED
    BY <1>1, <1>3, <2>1, DecidesImplements DEF ServerAlone
<1>4. CASE \/ MenuArrives \/ MenuFails \/ Reload \/ ChangeCart \/ Prepare
           \/ \E next \in {"selecting", "details", "reviewing"} : GoTo(next)
  BY <1>1, <1>4, PageImplements
<1>5. CASE \E v \in Visits : Step(v)
  BY <1>1, <1>5, AnswerImplements, FailsImplements DEF Step
<1>6. CASE \E r \in late : LateRequest(r)
  BY <1>1, <1>6, LateImplements
<1>7. CASE CardMounts \/ Submit \/ RetryDeclinedPayment
  BY <1>1, <1>7, MountsImplements, SubmitImplements, RetryImplements
<1>8. CASE \E k \in Payments : Pays(k)
  BY <1>1, <1>8, TokenImplements, RefusedImplements, ClaimImplements, AnsweredImplements,
     DiesImplements, UnheardImplements DEF Pays
<1> QED
  BY <1>2, <1>3, <1>4, <1>5, <1>6, <1>7, <1>8 DEF Next

\* Whatever the customer does, and whatever is lost or comes late, a review
\* makes one order, Square is asked once at a time for its money, and the
\* screen says nothing of the payment that is not so.
THEOREM ReviewsKeepThePromise == Spec => CheckoutPromiseKept
<1>1. Init => CardOnScreen /\ Promise!Init
  <2>1. ASSUME Init PROVE CardOnScreen /\ Promise!Init
    <3>1. ~Locked /\ \A c \in Checkouts : orders[c] = "none"
      BY <2>1, EmptyKnown DEF Init, ServerInit, Locked
    <3>2. \A k \in Payments : charges[k].checkout = 0 /\ charges[k].square = "none"
      BY <2>1 DEF Init, ServerInit, NoCharge
    <3>3. OnScreen = Promise!Blank
      BY <3>1 DEF OnScreen, Promise!Blank, SeenIn, Said
    <3>4. OrdersMade = [v \in Visits |-> {}]
      BY <3>1, NumbersKnown DEF OrdersMade
    <3>5. PaysFor = [k \in Payments |-> 0] /\ SquareHas = [k \in Payments |-> "none"]
      BY <3>2 DEF PaysFor, SquareHas
    <3> QED
      BY <3>1, <3>3, <3>4, <3>5 DEF CardOnScreen, Promise!Init
  <2> QED
    BY <2>1
<1>2. Inductive /\ CardOnScreen /\ [Next]_vars
      => CardOnScreen' /\ [Promise!Next]_(Promise!cvars)
  BY StepImplements DEF Implements
<1> QED
  BY <1>1, <1>2, StorefrontInductive, PTL DEF Spec, CheckoutPromiseKept, Promise!Spec

\* One step of the promise: what pays for an order, and what Square has of it.
AskedInTurn ==
    /\ \A k \in Payments : PaysFor[k] = 0 => SquareHas[k] = "none"
    /\ \A j, k \in Payments :
          j # k /\ PaysFor[j] = PaysFor[k] /\ PaysFor[k] # 0 =>
             SquareHas[j] = "declined" \/ SquareHas[k] = "declined"

\* The screen shows an order that is there, and says what is so.
ScreenStands ==
    OnScreen.review # 0 =>
        /\ OnScreen.review \in Visits
        /\ OrdersMade[OnScreen.review] # {}
        /\ OnScreen.order = OrdersMade[OnScreen.review]
        /\ OnScreen.says = "paid" =>
              \E k \in Payments : PaysFor[k] = OnScreen.review /\ SquareHas[k] = "paid"
        /\ OnScreen.says = "declined" =>
              \A k \in Payments : PaysFor[k] = OnScreen.review => SquareHas[k] = "declined"
        /\ OnScreen.says = "unavailable" =>
              \A k \in Payments :
                 PaysFor[k] = OnScreen.review => SquareHas[k] \in {"none", "declined"}

LEMMA PromisedMaps ==
    /\ DOMAIN PaysFor = Payments /\ DOMAIN SquareHas = Payments /\ DOMAIN OrdersMade = Visits
    /\ PaysFor = [k \in Payments |-> PaysFor[k]]
    /\ SquareHas = [k \in Payments |-> SquareHas[k]]
    /\ OrdersMade = [v \in Visits |-> OrdersMade[v]]
    /\ OnScreen = [review |-> OnScreen.review, order |-> OnScreen.order,
                   says |-> OnScreen.says]
<1>1. \/ OnScreen = [review |-> visit, order |-> {SeenIn(visit)}, says |-> Said]
      \/ OnScreen = [review |-> 0, order |-> {}, says |-> "nothing"]
  BY DEF OnScreen
<1> QED
  BY <1>1 DEF PaysFor, SquareHas, OrdersMade

\* A promised step, by what it changes of orders and payments.
LEMMA OpenChanges ==
    ASSUME NEW r \in Visits, Promise!Open(r)
    PROVE  /\ OnScreen' = [review |-> r, order |-> OrdersMade'[r], says |-> "nothing"]
           /\ OrdersMade'[r] # {}
           /\ SquareHas' = SquareHas
           /\ \A j \in Payments : PaysFor[j] = r => SquareHas[j] = "declined"
           /\ \E k \in Payments : /\ PaysFor[k] = 0
                                  /\ PaysFor' = [PaysFor EXCEPT ![k] = r]
<1>1. OrdersMade'[r] # {}
  BY PromisedMaps DEF Promise!Open, Promise!MakesOrder
<1> QED
  BY <1>1 DEF Promise!Open, Promise!Tried

LEMMA ChargeChanges ==
    ASSUME NEW k \in Payments, Promise!Charge(k)
    PROVE  /\ PaysFor[k] # 0 /\ SquareHas[k] \in {"none", "open"}
           /\ \A j \in Payments \ {k} : SquareHas'[j] = SquareHas[j]
           /\ SquareHas'[k] \in {"open", "paid", "declined"}
           /\ SquareHas[k] = "none" =>
                 /\ \A j \in Payments \ {k} :
                       PaysFor[j] = PaysFor[k] => SquareHas[j] = "declined"
                 /\ OnScreen.review = PaysFor[k] => OnScreen.says # "unavailable"
           /\ UNCHANGED <<OrdersMade, PaysFor>>
<1>1. \A j \in Payments \ {k} : SquareHas'[j] = SquareHas[j]
  BY PromisedMaps DEF Promise!Charge
<1> QED
  BY <1>1 DEF Promise!Charge, Promise!Tried

LEMMA AskedInTurnKept ==
    ASSUME AskedInTurn, [Promise!Next]_(Promise!cvars)
    PROVE  AskedInTurn'
<1>1. CASE UNCHANGED <<PaysFor, SquareHas>>
  BY <1>1 DEF AskedInTurn
<1>2. ASSUME NEW r \in Visits, Promise!Open(r)
      PROVE  AskedInTurn'
  <2>1. PICK k \in Payments : PaysFor[k] = 0 /\ PaysFor' = [PaysFor EXCEPT ![k] = r]
    BY <1>2, OpenChanges
  <2>2. PaysFor'[k] = r /\ \A j \in Payments \ {k} : PaysFor'[j] = PaysFor[j]
    BY <2>1, PromisedMaps
  <2>3. /\ SquareHas' = SquareHas /\ r # 0
        /\ \A j \in Payments : PaysFor[j] = r => SquareHas[j] = "declined"
    BY <1>2, OpenChanges, NumbersKnown
  <2> QED
    BY <2>2, <2>3 DEF AskedInTurn
<1>3. ASSUME NEW k \in Payments, Promise!Charge(k)
      PROVE  AskedInTurn'
  <2>1. /\ PaysFor[k] # 0 /\ SquareHas[k] \in {"none", "open"} /\ PaysFor' = PaysFor
        /\ \A j \in Payments \ {k} : SquareHas'[j] = SquareHas[j]
    BY <1>3, ChargeChanges
  <2>2. \A j \in Payments \ {k} : PaysFor[j] = PaysFor[k] => SquareHas[j] = "declined"
    BY <2>1 DEF AskedInTurn
  <2> QED
    BY <2>1, <2>2 DEF AskedInTurn
<1> QED
  BY <1>1, <1>2, <1>3 DEF Promise!Next, Promise!cvars, Promise!Leave, Promise!Says,
     Promise!Place

LEMMA ScreenStandsKept ==
    ASSUME ScreenStands, [Promise!Next]_(Promise!cvars)
    PROVE  ScreenStands'
<1>1. CASE UNCHANGED <<OrdersMade, PaysFor, SquareHas, OnScreen>>
  BY <1>1 DEF ScreenStands
<1>2. CASE Promise!Leave
  BY <1>2 DEF Promise!Leave, Promise!Blank, ScreenStands
<1>3. CASE Promise!Says
  <2>1. /\ OnScreen.review # 0 /\ OnScreen'.review = OnScreen.review
        /\ OnScreen'.order = OnScreen.order
        /\ OrdersMade' = OrdersMade /\ PaysFor' = PaysFor
    BY <1>3, PromisedMaps DEF Promise!Says
  <2>2. Promise!Truth(OnScreen'.says)
    BY <1>3 DEF Promise!Says
  <2> QED
    BY <2>1, <2>2 DEF ScreenStands, Promise!Truth, Promise!Tried
<1>4. ASSUME NEW r \in Visits, Promise!Place(r)
      PROVE  ScreenStands'
  <2>1. OrdersMade[r] = {} /\ PaysFor' = PaysFor /\ SquareHas' = SquareHas /\ OnScreen' = OnScreen
    BY <1>4 DEF Promise!Place, Promise!MakesOrder
  <2>2. \A w \in Visits \ {r} : OrdersMade'[w] = OrdersMade[w]
    BY <1>4, PromisedMaps DEF Promise!Place, Promise!MakesOrder
  <2> QED
    BY <2>1, <2>2 DEF ScreenStands
<1>5. ASSUME NEW r \in Visits, Promise!Open(r)
      PROVE  ScreenStands'
  BY <1>5, OpenChanges DEF ScreenStands
<1>6. ASSUME NEW k \in Payments, Promise!Charge(k), OnScreen' = OnScreen
      PROVE  ScreenStands'
  BY <1>6, ChargeChanges DEF ScreenStands
<1> QED
  BY <1>1, <1>2, <1>3, <1>4, <1>5, <1>6 DEF Promise!Next, Promise!cvars

\* What the promise is worth: whoever keeps it never has Square asked for the
\* money of an order while another payment of it is paid or undecided.
THEOREM NeverAskedTwice == CheckoutPromiseKept => []Promise!AskedOnce
<1>1. Promise!Init => AskedInTurn
  BY DEF Promise!Init, AskedInTurn
<1>2. AskedInTurn /\ [Promise!Next]_(Promise!cvars) => AskedInTurn'
  BY AskedInTurnKept
<1>3. AskedInTurn => Promise!AskedOnce
  BY NumbersKnown DEF AskedInTurn, Promise!AskedOnce, Promise!Tried
<1> QED
  BY <1>1, <1>2, <1>3, PTL DEF CheckoutPromiseKept, Promise!Spec

\* And its customer sees the order that was made, and nothing of its payment
\* that is not so, also after Square decides.
THEOREM SeenIsSo == CheckoutPromiseKept => []Promise!ScreenIsTrue
<1>1. Promise!Init => ScreenStands
  BY DEF Promise!Init, Promise!Blank, ScreenStands
<1>2. ScreenStands /\ [Promise!Next]_(Promise!cvars) => ScreenStands'
  BY ScreenStandsKept
<1>3. ScreenStands => Promise!ScreenIsTrue
  BY DEF ScreenStands, Promise!ScreenIsTrue, Promise!Tried
<1> QED
  BY <1>1, <1>2, <1>3, PTL DEF CheckoutPromiseKept, Promise!Spec
=============================================================================

----------------------- MODULE PreorderPaymentProofs -----------------------
(* Safety of the payment of a preorder, for every number of attempts,       *)
(* claims, changes of a payment and webhooks, and whatever Square does that  *)
(* PaymentAssumption allows.                                                *)
EXTENDS PreorderPayment, FiniteSetTheorems, TLAPS

\* Attempts are numbered without gaps.
MadeInOrder == \E k \in 0 .. MaxAttempts : Made = 1 .. k

\* Every fact is about the payment of an attempt.
EventsKnown ==
    \A e \in events :
        e.payment \in Made /\ e.matched /\ e.at >= 1 /\ e.status \in ProviderStatus

\* GetPayment can only answer what was told as an event before.
ChargeTold ==
    \A i \in Attempts :
        IF pay[i].status = "absent" THEN \A e \in events : e.payment # i
        ELSE [payment |-> i, at |-> pay[i].charged, matched |-> TRUE,
              status |-> IF pay[i].status \in {"refund_pending", "refunded"}
                         THEN "paid" ELSE pay[i].status] \in events

\* An attempt that knows its payment was told of it.
Told(i) == \E e \in events : e.payment = i
AttemptsTold == \A i \in Attempts : att[i].provider # 0 => Told(i)

\* What a worker carries is about the payment of its attempt.
CallKnown(c) ==
    /\ c.attempt \in Made
    /\ c.kind = "reconcile" => Told(c.attempt)
    /\ c.reply \in {NoReply, Doubt} \/ (c.reply \in events /\ c.reply.payment = c.attempt)
CallsKnown == \A c \in calls : CallKnown(c)

\* A webhook is resolved to the attempt it is about.
HooksKnown == \A h \in hooks : h[1].payment = h[2]

\* An order in doubt is not confirmed.
DoubtIsNotConfirmed == order.payment = "indeterminate" => order.status # "confirmed"

Inductive ==
    /\ TypeOK
    /\ MadeInOrder
    /\ EventsKnown
    /\ ChargeTold
    /\ AttemptsAreProved
    /\ AttemptsTold
    /\ CallsKnown
    /\ HooksKnown
    /\ DoubtIsNotConfirmed
    /\ ConfirmedIsPaid
-----------------------------------------------------------------------------
(* The rows of attempts and order.                                          *)

RowsOK ==
    /\ att \in [Attempts -> Attempt] /\ order \in Order
    /\ AttemptsAreProved /\ AttemptsTold /\ DoubtIsNotConfirmed /\ ConfirmedIsPaid

\* What an invocation carries, in itself and about the rows.
Carried ==
    /\ calls \subseteq Call /\ hooks \subseteq events \X Attempts
    /\ rows \subseteq (events \cup {Doubt}) \X Attempts /\ lost \subseteq events
    /\ claims \in 0 .. MaxClaims /\ open \in BOOLEAN
    /\ CallsKnown /\ HooksKnown

LEMMA EvidenceFits == Doubt \in Evidence /\ NoReply \in Evidence /\ NoAttempt \in Attempt
BY PaymentAssumption DEF Doubt, NoReply, NoAttempt, Evidence, Attempt, Status, ProviderStatus

\* A step that leaves Square alone and gives away no attempt number.
LEMMA RowsKeep ==
    ASSUME Inductive, UNCHANGED <<pay, events>>, RowsOK', Carried', MadeInOrder',
           Made \subseteq Made'
    PROVE  Inductive'
<1>1. TypeOK'
  BY DEF Inductive, TypeOK, RowsOK, Carried
<1>2. EventsKnown' /\ ChargeTold'
  BY DEF Inductive, EventsKnown, ChargeTold
<1> QED
  BY <1>1, <1>2 DEF Inductive, RowsOK, Carried

\* A step on one attempt that exists: what it must keep of it.
KeepsAttempt(i) ==
    /\ att'[i] \in Attempt /\ att'[i].status # "none"
    /\ att'[i].provider \in {0, i} /\ (att'[i].provider # 0 => Told(i))
    /\ att'[i].status \notin {"pending", "indeterminate"} =>
          /\ att'[i].provider = i
          /\ [payment |-> i, status |-> att'[i].status, at |-> att'[i].seen,
              matched |-> TRUE] \in events

LEMMA MadeKeeps ==
    ASSUME Inductive, NEW i \in Made, UNCHANGED events,
           att' = [att EXCEPT ![i] = att'[i]], KeepsAttempt(i)
    PROVE  /\ att' \in [Attempts -> Attempt] /\ Made' = Made
           /\ AttemptsAreProved' /\ AttemptsTold' /\ MadeInOrder'
<1>1. i \in Attempts /\ att \in [Attempts -> Attempt]
  BY DEF Made, Inductive, TypeOK
<1>2. \A j \in Attempts : j # i => att'[j] = att[j]
  BY <1>1
<1>3. att' \in [Attempts -> Attempt]
  BY <1>1 DEF KeepsAttempt
<1>4. Made' = Made
  BY <1>1, <1>2 DEF Made, KeepsAttempt
<1>5. AttemptsAreProved'
  BY <1>2, <1>4 DEF Inductive, AttemptsAreProved, KeepsAttempt, Made
<1>6. AttemptsTold'
  BY <1>2 DEF Inductive, AttemptsTold, Told, KeepsAttempt
<1>7. MadeInOrder'
  BY <1>4 DEF Inductive, MadeInOrder
<1> QED
  BY <1>3, <1>4, <1>5, <1>6, <1>7

\* An order status and payment status together: no doubt on a confirmed order,
\* and a confirmed order has a paid attempt.
OrderOK(a, o) ==
    /\ o \in Order
    /\ o.payment = "indeterminate" => o.status # "confirmed"
    /\ o.status = "confirmed" =>
          \E i \in Attempts : a[i].status \in {"paid", "refund_pending", "refunded"}

LEMMA OrderKeeps ==
    ASSUME OrderOK(att', order')
    PROVE  order' \in Order /\ DoubtIsNotConfirmed' /\ ConfirmedIsPaid'
BY DEF OrderOK, DoubtIsNotConfirmed, ConfirmedIsPaid, Made

LEMMA InductiveOrder == ASSUME Inductive PROVE OrderOK(att, order)
BY DEF Inductive, TypeOK, OrderOK, DoubtIsNotConfirmed, ConfirmedIsPaid, Made

\* Evidence about attempt i: one of its facts, or doubt.
About(i, ev) == ev \in Evidence /\ (ev = Doubt \/ (ev \in events /\ ev.payment = i))

\* What AttemptAfter may make of an attempt.
LEMMA AttemptAfterCases ==
    ASSUME Inductive, NEW i \in Made, NEW ev, About(i, ev), NEW byWorker \in BOOLEAN,
           NEW b, b = AttemptAfter(i, ev, byWorker)
    PROVE  /\ b \in Attempt
           /\ CASE Verdict(i, ev) = "applied" ->
                     /\ b.status = ev.status /\ b.provider = i /\ b.seen = ev.at
                     /\ ev \in events /\ ev.payment = i
                     /\ ev.at > att[i].seen
                     /\ TransitionAllowed(att[i].status, ev.status)
                     /\ ev.status = "paid" => ~OtherUnresolved(i)
                [] Verdict(i, ev) = "mismatch" ->
                     /\ b.provider = att[i].provider /\ b.seen = att[i].seen
                     /\ b.status = IF \/ att[i].status \in {"paid", "refunded"}
                                      \/ OtherUnresolved(i)
                                   THEN att[i].status ELSE "indeterminate"
                [] OTHER -> /\ b.provider = att[i].provider /\ b.seen = att[i].seen
                            /\ b.status = att[i].status
<1>1. att[i] \in Attempt /\ i \in Attempts /\ ev \in Evidence
  BY DEF Inductive, TypeOK, Made, About
<1>2. Unclaimed(att[i]) \in Attempt
  <2>1. 0 \in 0 .. MaxClaims
    BY PaymentAssumption
  <2> QED
    BY <1>1, <2>1 DEF Unclaimed, Attempt
<1> DEFINE kept == IF byWorker THEN Unclaimed(att[i]) ELSE att[i]
<1>3. /\ kept \in Attempt /\ kept.status = att[i].status
      /\ kept.provider = att[i].provider /\ kept.seen = att[i].seen
  BY <1>1, <1>2 DEF Unclaimed, Attempt
<1>4. Verdict(i, ev) \in {"mismatch", "stale", "duplicate", "conflict", "contested", "applied"}
  BY DEF Verdict
<1> HIDE DEF kept
<1>5. CASE Verdict(i, ev) = "applied"
  <2>1. /\ Identified(i, ev) /\ ~(ev.at < att[i].seen) /\ ev.at # att[i].seen
        /\ TransitionAllowed(att[i].status, ev.status)
        /\ ev.status = "paid" => ~OtherUnresolved(i)
    BY <1>5 DEF Verdict
  <2>2. ev \in events /\ ev.payment = i
    BY <2>1 DEF Identified, About, Doubt
  <2>3. ev.at > att[i].seen
    BY <1>1, <2>1 DEF Evidence, Attempt
  <2>4. b = [kept EXCEPT !.status = ev.status, !.provider = ev.payment,
                         !.seen = ev.at, !.proved = TRUE, !.review = FALSE]
    BY <1>5 DEF AttemptAfter, kept
  <2>5. b \in Attempt /\ b.status = ev.status /\ b.provider = ev.payment /\ b.seen = ev.at
    BY <1>1, <1>3, <2>4 DEF Attempt, Evidence
  <2> QED
    BY <1>5, <2>1, <2>2, <2>3, <2>5
<1>6. CASE Verdict(i, ev) = "mismatch"
  <2>1. b = [kept EXCEPT !.review = TRUE,
                !.status = IF @ \in {"paid", "refunded"} \/ OtherUnresolved(i)
                           THEN @ ELSE "indeterminate"]
    BY <1>6 DEF AttemptAfter, kept
  <2> QED
    BY <1>3, <1>6, <2>1 DEF Attempt, Status
<1>7. CASE Verdict(i, ev) \in {"stale", "duplicate"}
  <2>1. b = kept
    BY <1>7 DEF AttemptAfter, kept
  <2> QED
    BY <1>3, <1>7, <2>1
<1>8. CASE Verdict(i, ev) \in {"conflict", "contested"}
  <2>1. b = [Unclaimed(att[i]) EXCEPT !.review = TRUE]
    BY <1>8 DEF AttemptAfter
  <2> QED
    BY <1>1, <1>2, <1>8, <2>1 DEF Unclaimed, Attempt
<1> QED
  BY <1>4, <1>5, <1>6, <1>7, <1>8

LEMMA PaidFits ==
    ASSUME NEW o \in Order, NEW status, NEW payment \in Status,
           status \in {"awaiting_payment", "payment_pending", "confirmed",
                       "attention_required", "change_pending", "expired"}
    PROVE  /\ Paid(o, status, payment) \in Order
           /\ Paid(o, status, payment).payment = payment
           /\ Paid(o, status, payment).status \in {status, "attention_required"}
           /\ Paid(o, status, payment).released = o.released
BY DEF Paid, Order
\* A projection keeps the rows, whatever the evidence says.
LEMMA ProjectsKeep ==
    ASSUME Inductive, NEW i \in Made, NEW ev, About(i, ev), NEW byWorker \in BOOLEAN,
           Projects(i, ev, byWorker), UNCHANGED events
    PROVE  /\ RowsOK' /\ Made' = Made /\ MadeInOrder'
           /\ \A j \in Attempts \ {i} : att'[j] = att[j]
<1> DEFINE b == AttemptAfter(i, ev, byWorker)
           v == Verdict(i, ev)
<1>1. /\ i \in Attempts /\ att[i] \in Attempt /\ att \in [Attempts -> Attempt]
      /\ order \in Order /\ ev \in Evidence /\ att[i].status # "none"
  BY DEF Inductive, TypeOK, Made, About
<1>2. CASE UNCHANGED <<att, order>>
  BY <1>2 DEF Inductive, TypeOK, RowsOK, AttemptsAreProved, AttemptsTold, Told, Made,
     DoubtIsNotConfirmed, ConfirmedIsPaid, MadeInOrder
<1>3. CASE att' = AttAfter(i, ev, byWorker) /\ order' = OrderAfter(i, ev)
  <2>1. att' = [att EXCEPT ![i] = b] /\ att'[i] = b
    BY <1>1, <1>3 DEF AttAfter
  <2>2. /\ b \in Attempt
        /\ CASE v = "applied" ->
                  /\ b.status = ev.status /\ b.provider = i /\ b.seen = ev.at
                  /\ ev \in events /\ ev.payment = i
                  /\ ev.at > att[i].seen
                  /\ TransitionAllowed(att[i].status, ev.status)
                  /\ ev.status = "paid" => ~OtherUnresolved(i)
             [] v = "mismatch" ->
                  /\ b.provider = att[i].provider /\ b.seen = att[i].seen
                  /\ b.status = IF \/ att[i].status \in {"paid", "refunded"}
                                   \/ OtherUnresolved(i)
                                THEN att[i].status ELSE "indeterminate"
             [] OTHER -> /\ b.provider = att[i].provider /\ b.seen = att[i].seen
                         /\ b.status = att[i].status
    BY AttemptAfterCases
  <2> HIDE DEF b
  <2>3. v \in {"mismatch", "stale", "duplicate", "conflict", "contested", "applied"}
    BY DEF Verdict
  <2>4. KeepsAttempt(i)
    <3>1. CASE v = "applied"
      <4>1. /\ b.status = ev.status /\ b.provider = i /\ b.seen = ev.at
            /\ ev \in events /\ ev.payment = i
        BY <2>2, <3>1
      <4>2. ev.matched /\ ev.status \in ProviderStatus
        BY <4>1 DEF Inductive, EventsKnown
      <4>3. ev = [payment |-> i, status |-> b.status, at |-> b.seen, matched |-> TRUE]
        BY <1>1, <4>1, <4>2 DEF Evidence
      <4> QED
        BY <2>1, <2>2, <4>1, <4>2, <4>3 DEF KeepsAttempt, Told, ProviderStatus
    <3>2. CASE v # "applied"
      <4>1. /\ b.provider = att[i].provider /\ b.seen = att[i].seen
            /\ b.status \in {att[i].status, "indeterminate"}
        BY <2>2, <2>3, <3>2
      <4> QED
        BY <1>1, <2>1, <2>2, <4>1
           DEF Inductive, AttemptsAreProved, AttemptsTold, KeepsAttempt
    <3> QED
      BY <3>1, <3>2
  <2>5. OrderOK(att', order')
    <3>1. CASE v = "applied"
      <4>1. order' = Paid(order, StatusFor(ev.status), ev.status)
        BY <1>3, <3>1 DEF OrderAfter
      <4>2. /\ b.status = ev.status /\ ev \in events /\ ev.status \in ProviderStatus
            /\ ev.status \in Status
        BY <2>2, <3>1 DEF Inductive, EventsKnown, Status
      <4>3. /\ StatusFor(ev.status) \in {"awaiting_payment", "payment_pending", "confirmed",
                       "attention_required", "change_pending", "expired"}
            /\ StatusFor(ev.status) = "confirmed" => ev.status = "paid"
        BY <1>1, <4>2 DEF StatusFor, ProviderStatus, Settled, Order
      <4> HIDE DEF v
      <4>4. /\ order' \in Order /\ order'.payment = ev.status
            /\ order'.status \in {StatusFor(ev.status), "attention_required"}
        BY <1>1, <4>1, <4>2, <4>3, PaidFits
      <4> QED
        BY <1>1, <2>1, <4>2, <4>3, <4>4 DEF OrderOK, ProviderStatus
    <3>2. CASE v = "mismatch"
      <4> DEFINE payment == IF order.payment \in {"paid", "refunded"}
                            THEN order.payment ELSE "indeterminate"
      <4>1. order' = Paid(order, "attention_required", payment)
        BY <1>3, <3>2 DEF OrderAfter
      <4>2. payment \in Status
        BY DEF Status, ProviderStatus
      <4> HIDE DEF payment
      <4>3. order' \in Order /\ order'.status = "attention_required"
        BY <1>1, <4>1, <4>2, PaidFits
      <4> QED
        BY <4>3 DEF OrderOK
    <3>3. CASE v \in {"stale", "duplicate"}
      <4>1. order' = order /\ b.status = att[i].status
        BY <1>3, <2>2, <3>3 DEF OrderAfter
      <4>2. \A j \in Attempts : att'[j].status = att[j].status
        BY <1>1, <2>1, <4>1
      <4> QED
        BY <4>1, <4>2, InductiveOrder DEF OrderOK
    <3>4. CASE v = "conflict"
      <4>1. order' = [order EXCEPT !.status = "attention_required"]
        BY <1>3, <3>4 DEF OrderAfter
      <4> QED
        BY <1>1, <4>1 DEF OrderOK, Order
    <3>5. CASE v = "contested"
      <4>1. order' = Paid(order, "attention_required", "indeterminate")
        BY <1>3, <3>5 DEF OrderAfter
      <4>2. "indeterminate" \in Status
        BY DEF Status
      <4>3. order' \in Order /\ order'.status = "attention_required"
        BY <1>1, <4>1, <4>2, PaidFits
      <4> QED
        BY <4>3 DEF OrderOK
    <3> QED
      BY <2>3, <3>1, <3>2, <3>3, <3>4, <3>5
  <2>6. att' = [att EXCEPT ![i] = att'[i]]
    BY <2>1
  <2> QED
    BY <1>1, <2>1, <2>4, <2>5, <2>6, MadeKeeps, OrderKeeps DEF RowsOK
<1> QED
  BY <1>2, <1>3 DEF Projects
-----------------------------------------------------------------------------
(* The actions.                                                             *)

\* The calls, hooks and evidence rows of a step that adds none.
LEMMA CarriedKeeps ==
    ASSUME Inductive, UNCHANGED <<events, claims>>, open' \in BOOLEAN,
           calls' \subseteq calls, hooks' \subseteq hooks, UNCHANGED lost,
           rows' \subseteq (events \cup {Doubt}) \X Attempts, Made \subseteq Made'
    PROVE  Carried'
BY DEF Inductive, TypeOK, Carried, CallsKnown, CallKnown, HooksKnown, Told

LEMMA ClaimPaymentKeeps ==
    ASSUME Inductive, ClaimPayment
    PROVE  Inductive'
<1> DEFINE n == Cardinality(Made) + 1
           new == Claimed([NoAttempt EXCEPT !.status = "pending"], "initiate")
           call == [claim |-> claims + 1, kind |-> "initiate", attempt |-> n, reply |-> NoReply]
<1>1. PICK k \in 0 .. MaxAttempts : Made = 1 .. k
  BY DEF Inductive, MadeInOrder
<1>2. n = k + 1 /\ n \in Attempts /\ n \notin Made
  <2>1. Cardinality(1 .. k) = k
    <3>1. k \in Int /\ 1 \in Int /\ k >= 0
      BY <1>1, PaymentAssumption
    <3> QED
      BY <3>1, FS_Interval
  <2>2. k < MaxAttempts
    BY <1>1, <2>1 DEF ClaimPayment
  <2> QED
    BY <1>1, <2>1, <2>2, PaymentAssumption DEF Attempts
<1>3. claims \in 0 .. MaxClaims /\ claims + 1 \in 1 .. MaxClaims /\ claims + 1 \in 0 .. MaxClaims
  BY PaymentAssumption DEF Inductive, TypeOK, ClaimPayment
<1>4. /\ new \in Attempt /\ new.status = "pending" /\ new.provider = 0
  BY <1>3, EvidenceFits DEF Claimed, NoAttempt, Attempt, Status, ProviderStatus
<1>5. call \in Call
  BY <1>2, <1>3, EvidenceFits DEF Call
<1> HIDE DEF n, new
<1>6. /\ att' = [att EXCEPT ![n] = new] /\ order' = Paid(order, "payment_pending", "pending")
      /\ calls' = calls \cup {call} /\ claims' = claims + 1
      /\ UNCHANGED <<open, pay, events, hooks, rows, lost>>
  BY DEF ClaimPayment, n, new
<1>7. /\ att' \in [Attempts -> Attempt] /\ att'[n] = new
      /\ \A j \in Attempts \ {n} : att'[j] = att[j]
  BY <1>2, <1>4, <1>6 DEF Inductive, TypeOK
<1>8. Made' = Made \cup {n}
  BY <1>2, <1>4, <1>7 DEF Made
<1>9. MadeInOrder'
  <2>1. k + 1 \in 0 .. MaxAttempts /\ Made' = 1 .. (k + 1)
    BY <1>1, <1>2, <1>8, PaymentAssumption DEF Attempts
  <2> QED
    BY <2>1 DEF MadeInOrder
<1>10. AttemptsAreProved' /\ AttemptsTold'
  BY <1>4, <1>6, <1>7, <1>8 DEF Inductive, AttemptsAreProved, AttemptsTold, Told, Made
<1>11. order' \in Order /\ order'.status \in {"payment_pending", "attention_required"}
  <2>1. order \in Order /\ "pending" \in Status
    BY DEF Inductive, TypeOK, Status, ProviderStatus
  <2> QED
    BY <1>6, <2>1, PaidFits
<1>12. RowsOK'
  BY <1>7, <1>10, <1>11 DEF RowsOK, DoubtIsNotConfirmed, ConfirmedIsPaid
<1>13. \A c \in calls' : c = call => CallKnown(c)'
  BY <1>8 DEF CallKnown
<1>14. Carried'
  BY <1>3, <1>5, <1>6, <1>8, <1>13
     DEF Inductive, TypeOK, Carried, CallsKnown, CallKnown, HooksKnown, Told
<1> QED
  BY <1>6, <1>8, <1>9, <1>12, <1>14, RowsKeep

\* An attempt without an answer goes to an operator.
LEMMA DoubtKeeps ==
    ASSUME Inductive, NEW i \in Attempts, ReplayInitiate(i) \/ LeaveToOperator(i)
    PROVE  Inductive'
<1> DEFINE b == Unclaimed([att[i] EXCEPT !.status = "indeterminate", !.review = TRUE])
<1>1. /\ att[i] \in Attempt /\ order \in Order /\ i \in Made
      /\ UNCHANGED <<open, pay, events, calls, hooks, rows, lost, claims>>
  BY DEF Inductive, TypeOK, Made, ReplayInitiate, LeaveToOperator, Unresolved
<1>2. b \in Attempt /\ b.status = "indeterminate" /\ b.provider = att[i].provider
  <2>1. 0 \in 0 .. MaxClaims
    BY PaymentAssumption
  <2> QED
    BY <1>1, <2>1 DEF Unclaimed, Attempt, Status
<1> HIDE DEF b
<1>3. att' = [att EXCEPT ![i] = b] /\ att'[i] = b /\ att' = [att EXCEPT ![i] = att'[i]]
  BY DEF Inductive, TypeOK, ReplayInitiate, LeaveToOperator, b
<1>4. KeepsAttempt(i)
  BY <1>1, <1>2, <1>3 DEF KeepsAttempt, Inductive, AttemptsAreProved, AttemptsTold
<1>5. OrderOK(att', order')
  <2>1. CASE order' = Paid(order, "attention_required", "indeterminate")
    <3>1. "indeterminate" \in Status
      BY DEF Status
    <3>2. order' \in Order /\ order'.status = "attention_required"
      BY <1>1, <2>1, <3>1, PaidFits
    <3> QED
      BY <3>2 DEF OrderOK
  <2>2. CASE order' = order /\ order.payment = "indeterminate"
    BY <1>1, <2>2 DEF OrderOK, Inductive, DoubtIsNotConfirmed
  <2> QED
    BY <2>1, <2>2 DEF ReplayInitiate, LeaveToOperator
<1>6. RowsOK' /\ Made' = Made /\ MadeInOrder'
  BY <1>1, <1>3, <1>4, <1>5, MadeKeeps, OrderKeeps DEF RowsOK
<1>7. Carried'
  BY <1>1, <1>6, CarriedKeeps DEF Inductive, TypeOK
<1> QED
  BY <1>1, <1>6, <1>7, RowsKeep

LEMMA ClaimReconciliationKeeps ==
    ASSUME Inductive, NEW i \in Attempts, ClaimReconciliation(i)
    PROVE  Inductive'
<1> DEFINE b == Claimed(att[i], "reconcile")
           call == [claim |-> claims + 1, kind |-> "reconcile", attempt |-> i, reply |-> NoReply]
<1>1. /\ att[i] \in Attempt /\ i \in Made /\ att[i].provider # 0
      /\ UNCHANGED <<order, open, pay, events, hooks, rows, lost>>
      /\ calls' = calls \cup {call} /\ claims' = claims + 1
  BY DEF Inductive, TypeOK, Made, ClaimReconciliation, Unresolved
<1>2. claims + 1 \in 1 .. MaxClaims /\ claims + 1 \in 0 .. MaxClaims
  BY PaymentAssumption DEF Inductive, TypeOK, ClaimReconciliation
<1>3. /\ b \in Attempt /\ b.status = att[i].status /\ b.provider = att[i].provider
      /\ b.seen = att[i].seen
  BY <1>1, <1>2 DEF Claimed, Attempt
<1>4. call \in Call
  BY <1>2, EvidenceFits DEF Call
<1> HIDE DEF b
<1>5. att' = [att EXCEPT ![i] = b] /\ att'[i] = b /\ att' = [att EXCEPT ![i] = att'[i]]
  BY DEF Inductive, TypeOK, ClaimReconciliation, b
<1>6. KeepsAttempt(i)
  BY <1>1, <1>3, <1>5 DEF KeepsAttempt, Inductive, AttemptsAreProved, AttemptsTold, Made
<1>7. \A j \in Attempts : att'[j].status = att[j].status
  BY <1>3, <1>5 DEF Inductive, TypeOK
<1>8. OrderOK(att', order')
  BY <1>1, <1>7, InductiveOrder DEF OrderOK
<1>9. RowsOK' /\ Made' = Made /\ MadeInOrder'
  BY <1>1, <1>5, <1>6, <1>8, MadeKeeps, OrderKeeps DEF RowsOK
<1>10. \A c \in calls' : c = call => CallKnown(c)'
  BY <1>1, <1>9 DEF CallKnown, Inductive, AttemptsTold, Told
<1>11. Carried'
  BY <1>1, <1>2, <1>4, <1>9, <1>10
     DEF Inductive, TypeOK, Carried, CallsKnown, CallKnown, HooksKnown, Told
<1> QED
  BY <1>1, <1>9, <1>11, RowsKeep
\* A step that changes neither attempts nor the order.
LEMMA SameRows ==
    ASSUME Inductive, UNCHANGED <<att, order, events>>
    PROVE  RowsOK' /\ Made' = Made /\ MadeInOrder'
BY DEF Inductive, TypeOK, RowsOK, AttemptsAreProved, AttemptsTold, Told, Made,
   DoubtIsNotConfirmed, ConfirmedIsPaid, MadeInOrder

LEMMA ProjectDeliveryKeeps ==
    ASSUME Inductive, NEW c \in calls, ProjectDelivery(c)
    PROVE  Inductive'
<1>1. /\ c.attempt \in Made /\ c.attempt \in Attempts
      /\ calls' = calls \ {c} /\ UNCHANGED <<open, pay, events, hooks, rows, lost, claims>>
  BY DEF Inductive, CallsKnown, CallKnown, ProjectDelivery, Made
<1>2. PICK ev \in {e \in events : e.payment = c.attempt /\ e.at = 1} \cup {Doubt} :
        IF att[c.attempt].claim = c.claim
          THEN Projects(c.attempt, ev, TRUE) ELSE UNCHANGED <<att, order>>
  BY DEF ProjectDelivery
<1>3. About(c.attempt, ev)
  BY EvidenceFits DEF About, Inductive, TypeOK
<1>4. RowsOK' /\ Made' = Made /\ MadeInOrder'
  <2>1. CASE Projects(c.attempt, ev, TRUE)
    BY <1>1, <1>3, <2>1, ProjectsKeep
  <2>2. CASE UNCHANGED <<att, order>>
    BY <1>1, <2>2, SameRows
  <2> QED
    BY <1>2, <2>1, <2>2
<1>5. Carried'
  BY <1>1, <1>4, CarriedKeeps DEF Inductive, TypeOK
<1> QED
  BY <1>1, <1>4, <1>5, RowsKeep

LEMMA RetrieveKeeps ==
    ASSUME Inductive, NEW c \in calls, Retrieve(c)
    PROVE  Inductive'
<1> DEFINE p == pay[c.attempt]
           told == [payment |-> c.attempt, at |-> p.charged, matched |-> TRUE,
                    status |-> IF p.status \in {"refund_pending", "refunded"}
                               THEN "paid" ELSE p.status]
<1>1. /\ c \in Call /\ c.attempt \in Made /\ c.attempt \in Attempts /\ Told(c.attempt)
      /\ UNCHANGED <<att, order, open, pay, events, hooks, rows, lost, claims>>
  BY DEF Inductive, TypeOK, CallsKnown, CallKnown, Retrieve, Made
<1>2. told \in events
  BY <1>1 DEF Inductive, ChargeTold, Told
<1>3. told.payment = c.attempt
  OBVIOUS
<1> HIDE DEF told
<1>4. PICK ev \in {Doubt, told} : calls' = (calls \ {c}) \cup {[c EXCEPT !.reply = ev]}
  BY DEF Retrieve, told
<1>5. ev \in Evidence
  BY <1>2, EvidenceFits DEF Inductive, TypeOK
<1> DEFINE d == [c EXCEPT !.reply = ev]
<1>6. d \in Call /\ d.attempt = c.attempt /\ d.reply = ev
  BY <1>1, <1>5 DEF Call
<1> HIDE DEF d
<1>7. calls' = (calls \ {c}) \cup {d}
  BY <1>4 DEF d
<1>8. RowsOK' /\ Made' = Made /\ MadeInOrder'
  BY <1>1, SameRows
<1>9. calls' \subseteq Call
  BY <1>6, <1>7 DEF Inductive, TypeOK
<1>10. CallsKnown'
  <2> SUFFICES ASSUME NEW x \in calls' PROVE CallKnown(x)'
    BY DEF CallsKnown
  <2>1. CASE x = d
    BY <1>1, <1>2, <1>3, <1>4, <1>6, <1>8, <2>1 DEF CallKnown, Told
  <2>2. CASE x \in calls
    BY <1>1, <1>8, <2>2 DEF CallKnown, Told, Inductive, CallsKnown
  <2> QED
    BY <1>7, <2>1, <2>2
<1>11. Carried'
  BY <1>1, <1>9, <1>10 DEF Inductive, TypeOK, Carried, HooksKnown
<1> QED
  BY <1>1, <1>8, <1>11, RowsKeep

LEMMA ProjectReconciliationKeeps ==
    ASSUME Inductive, NEW c \in calls, ProjectReconciliation(c)
    PROVE  Inductive'
<1>1. /\ c.attempt \in Made /\ c.attempt \in Attempts /\ c \in Call
      /\ calls' = calls \ {c} /\ UNCHANGED <<open, pay, events, hooks, lost, claims>>
  BY DEF Inductive, TypeOK, CallsKnown, CallKnown, ProjectReconciliation, Made
<1>2. About(c.attempt, c.reply)
  BY <1>1, EvidenceFits
     DEF ProjectReconciliation, Inductive, TypeOK, CallsKnown, CallKnown, About, Call
<1>3. RowsOK' /\ Made' = Made /\ MadeInOrder'
  <2>1. CASE Projects(c.attempt, c.reply, TRUE)
    BY <1>1, <1>2, <2>1, ProjectsKeep
  <2>2. CASE UNCHANGED <<att, order>>
    BY <1>1, <2>2, SameRows
  <2> QED
    BY <2>1, <2>2 DEF ProjectReconciliation
<1>4. rows' \subseteq (events \cup {Doubt}) \X Attempts
  <2>1. rows' = rows \/ rows' = rows \cup {<<Doubt, c.attempt>>}
    BY DEF ProjectReconciliation
  <2>2. rows \subseteq (events \cup {Doubt}) \X Attempts
    BY DEF Inductive, TypeOK
  <2>3. <<Doubt, c.attempt>> \in (events \cup {Doubt}) \X Attempts
    BY <1>1
  <2> QED
    BY <2>1, <2>2, <2>3
<1>5. Carried'
  BY <1>1, <1>3, <1>4, CarriedKeeps DEF Inductive, TypeOK
<1> QED
  BY <1>1, <1>3, <1>5, RowsKeep

\* A webhook of an attempt that no evidence row identifies finds it, because
\* an attempt without a payment id is still a candidate.
LEMMA ResolveKeeps ==
    ASSUME Inductive, NEW e \in events, Resolve(e)
    PROVE  Inductive'
<1>1. UNCHANGED <<att, order, open, pay, events, calls, rows, claims>>
  BY DEF Resolve
<1>2. e.payment \in Made /\ e.payment \in Attempts /\ e.payment # 0
  BY DEF Inductive, EventsKnown, Made, Attempts
<1>3. e.payment \in Candidates(e)
  BY <1>2 DEF Candidates, Inductive, AttemptsAreProved, Made
<1>4. RowsOK' /\ Made' = Made /\ MadeInOrder'
  BY <1>1, SameRows
<1>5. hooks' \subseteq events \X Attempts /\ HooksKnown' /\ lost' \subseteq events
  <2>1. CASE \E i \in Attempts : Candidates(e) = {i} /\ hooks' = hooks \cup {<<e, i>>}
                                  /\ UNCHANGED lost
    BY <1>1, <1>3, <2>1 DEF Inductive, TypeOK, HooksKnown
  <2>2. CASE UNCHANGED hooks /\ lost' = lost \cup {e}
    BY <2>2 DEF Inductive, TypeOK, HooksKnown
  <2> QED
    BY <2>1, <2>2 DEF Resolve
<1>6. Carried'
  BY <1>1, <1>4, <1>5 DEF Inductive, TypeOK, Carried, CallsKnown, CallKnown, Told
<1> QED
  BY <1>1, <1>4, <1>6, RowsKeep

LEMMA ProjectWebhookKeeps ==
    ASSUME Inductive, NEW h \in hooks, ProjectWebhook(h[1], h[2])
    PROVE  Inductive'
<1> DEFINE e == h[1]
           i == h[2]
<1>1. /\ e \in events /\ e.payment = i /\ i \in Made /\ i \in Attempts
  BY DEF Inductive, TypeOK, HooksKnown, EventsKnown, Made
<1>2. About(i, e)
  BY <1>1 DEF About, Inductive, TypeOK
<1> HIDE DEF e, i
<1>3. /\ hooks' \subseteq hooks /\ UNCHANGED <<open, pay, events, calls, lost, claims>>
      /\ rows' \subseteq (events \cup {Doubt}) \X Attempts
  BY <1>1 DEF ProjectWebhook, Inductive, TypeOK, e, i
<1>4. RowsOK' /\ Made' = Made /\ MadeInOrder'
  <2>1. CASE UNCHANGED <<att, order>>
    BY <1>3, <2>1, SameRows
  <2>2. CASE Projects(i, e, FALSE)
    BY <1>1, <1>2, <1>3, <2>2, ProjectsKeep
  <2>3. CASE /\ att' = [att EXCEPT ![i].review = TRUE]
             /\ order' = [order EXCEPT !.status = "attention_required"]
    <3>1. att[i] \in Attempt /\ att \in [Attempts -> Attempt] /\ order \in Order
      BY <1>1 DEF Inductive, TypeOK
    <3>2. /\ att'[i] = [att[i] EXCEPT !.review = TRUE] /\ att' = [att EXCEPT ![i] = att'[i]]
      BY <1>1, <2>3, <3>1
    <3>3. KeepsAttempt(i)
      BY <1>1, <3>1, <3>2 DEF KeepsAttempt, Attempt, Inductive, AttemptsAreProved,
         AttemptsTold, Made
    <3>4. order' \in Order /\ order'.status = "attention_required"
      BY <2>3, <3>1 DEF Order
    <3>5. OrderOK(att', order')
      BY <3>4 DEF OrderOK
    <3> QED
      BY <1>1, <1>3, <3>2, <3>3, <3>5, MadeKeeps, OrderKeeps DEF RowsOK
  <2> QED
    BY <2>1, <2>2, <2>3 DEF ProjectWebhook, e, i
<1>5. Carried'
  BY <1>3, <1>4, CarriedKeeps DEF Inductive, TypeOK
<1> QED
  BY <1>3, <1>4, <1>5, RowsKeep

LEMMA ClaimTimesOutKeeps ==
    ASSUME Inductive, NEW i \in Attempts, ClaimTimesOut(i)
    PROVE  Inductive'
<1>1. /\ att[i] \in Attempt /\ att \in [Attempts -> Attempt]
      /\ UNCHANGED <<order, open, pay, events, calls, hooks, rows, lost, claims>>
      /\ att' = [att EXCEPT ![i].live = FALSE]
  BY DEF Inductive, TypeOK, ClaimTimesOut
<1>2. att'[i] = [att[i] EXCEPT !.live = FALSE] /\ att' \in [Attempts -> Attempt]
  BY <1>1 DEF Attempt
<1>3. \A j \in Attempts : /\ att'[j].status = att[j].status /\ att'[j].seen = att[j].seen
                           /\ att'[j].provider = att[j].provider
  BY <1>1, <1>2 DEF Attempt
<1>4. Made' = Made
  BY <1>3 DEF Made
<1>5. RowsOK' /\ MadeInOrder'
  BY <1>1, <1>2, <1>3, <1>4
     DEF Inductive, TypeOK, RowsOK, AttemptsAreProved, AttemptsTold, Told, Made,
         DoubtIsNotConfirmed, ConfirmedIsPaid, MadeInOrder
<1>6. Carried'
  BY <1>1, <1>4, CarriedKeeps DEF Inductive, TypeOK
<1> QED
  BY <1>1, <1>4, <1>5, <1>6, RowsKeep

\* Crashes, failed webhooks, the window and the job: attempts stay, and an
\* order changes at most to one that lapsed or expired.
LEMMA OtherStepsKeep ==
    ASSUME Inductive,
           \/ \E c \in calls : WorkerCrashes(c)
           \/ \E h \in hooks : WebhookFails(h[1], h[2])
           \/ WindowCloses \/ OrderLapses \/ ExpireAbandonedOrder
    PROVE  Inductive'
<1>1. /\ UNCHANGED <<att, pay, events, rows, lost, claims>>
      /\ calls' \subseteq calls /\ hooks' \subseteq hooks /\ open' \in BOOLEAN
  BY DEF Inductive, TypeOK, WorkerCrashes, WebhookFails, WindowCloses, OrderLapses,
         ExpireAbandonedOrder
<1>2. OrderOK(att', order')
  <2>1. order \in Order /\ OrderOK(att, order)
    BY InductiveOrder DEF Inductive, TypeOK
  <2>2. CASE UNCHANGED order
    BY <1>1, <2>1, <2>2 DEF OrderOK
  <2>3. CASE OrderLapses
    BY <1>1, <2>1, <2>3 DEF OrderOK, OrderLapses, Order
  <2>4. CASE ExpireAbandonedOrder
    BY <1>1, <2>1, <2>4 DEF OrderOK, ExpireAbandonedOrder, Order
  <2> QED
    BY <2>2, <2>3, <2>4 DEF WorkerCrashes, WebhookFails, WindowCloses
<1>3. RowsOK' /\ Made' = Made /\ MadeInOrder'
  BY <1>1, <1>2, OrderKeeps
     DEF Inductive, TypeOK, RowsOK, AttemptsAreProved, AttemptsTold, Told, Made, MadeInOrder
<1>4. Carried'
  BY <1>1, <1>3, CarriedKeeps DEF Inductive, TypeOK
<1> QED
  BY <1>1, <1>3, <1>4, RowsKeep

\* A payment changes and is told of: older facts stay.
LEMMA SquareMovesKeeps ==
    ASSUME Inductive, NEW i \in Attempts, SquareMoves(i)
    PROVE  Inductive'
<1>1. PICK s \in ProviderStatus :
        /\ <<pay[i].status, s>> \in Moves
        /\ LET now == pay[i].at + 1
               refund == s \in {"refund_pending", "refunded"}
                           \/ pay[i].status = "refund_pending"
           IN  /\ pay' = [pay EXCEPT ![i] =
                      [status |-> s, at |-> now,
                       charged |-> IF refund THEN pay[i].charged ELSE now]]
               /\ events' = events \cup {[payment |-> i, status |-> s, at |-> now,
                                          matched |-> TRUE]}
  BY DEF SquareMoves
<1> DEFINE now == pay[i].at + 1
           refund == s \in {"refund_pending", "refunded"} \/ pay[i].status = "refund_pending"
           charged == IF refund THEN pay[i].charged ELSE now
           new == [payment |-> i, status |-> s, at |-> now, matched |-> TRUE]
           p == [status |-> s, at |-> now, charged |-> charged]
<1>2. /\ i \in Made /\ UNCHANGED <<att, order, open, calls, hooks, rows, lost, claims>>
      /\ pay \in [Attempts -> Payment] /\ pay[i] \in Payment /\ pay[i].at < MaxTick
      /\ pay' = [pay EXCEPT ![i] = p] /\ events' = events \cup {new}
  BY <1>1 DEF SquareMoves, Inductive, TypeOK
<1>3. now \in 0 .. MaxTick /\ now >= 1 /\ charged \in 0 .. MaxTick
  BY <1>2, PaymentAssumption DEF Payment
<1>4. new \in Evidence /\ new.payment = i /\ new.at = now /\ new.matched /\ new.status = s
  BY <1>3 DEF Evidence, Attempts, Status
<1>5. pay' \in [Attempts -> Payment] /\ pay'[i] = p
      /\ \A j \in Attempts \ {i} : pay'[j] = pay[j]
  BY <1>2, <1>3 DEF Payment
<1>6. TypeOK'
  BY <1>2, <1>4, <1>5 DEF Inductive, TypeOK
<1>7. EventsKnown'
  BY <1>2, <1>3, <1>4 DEF Inductive, EventsKnown, Made
<1>8. ChargeTold'
  <2>1. ASSUME NEW j \in Attempts, j # i
        PROVE  (IF pay[j].status = "absent" THEN \A e \in events : e.payment # j
                ELSE [payment |-> j, at |-> pay[j].charged, matched |-> TRUE,
                      status |-> IF pay[j].status \in {"refund_pending", "refunded"}
                                 THEN "paid" ELSE pay[j].status] \in events)'
    BY <1>2, <1>4, <1>5, <2>1 DEF Inductive, ChargeTold
  <2>2. s # "absent" /\ p.status = s /\ p.charged = charged
    BY DEF ProviderStatus
  <2>3. CASE ~refund
    BY <1>2, <1>5, <2>1, <2>2, <2>3 DEF ChargeTold
  <2>4. CASE refund
    <3>1. pay[i].status \in {"paid", "refund_pending"}
      BY <1>1, <2>4, PaymentAssumption
    <3>2. s \in {"paid", "refund_pending", "refunded"}
      BY <1>1, <2>4, PaymentAssumption
    <3>3. [payment |-> i, at |-> pay[i].charged, matched |-> TRUE, status |-> "paid"] \in events
      BY <1>2, <3>1 DEF Inductive, ChargeTold
    <3> QED
      BY <1>2, <1>5, <2>1, <2>2, <2>4, <3>2, <3>3 DEF ChargeTold
  <2> QED
    BY <2>3, <2>4
<1> HIDE DEF new, p
<1>9. /\ MadeInOrder' /\ AttemptsAreProved' /\ AttemptsTold' /\ CallsKnown' /\ HooksKnown'
      /\ DoubtIsNotConfirmed' /\ ConfirmedIsPaid'
  BY <1>2 DEF Inductive, MadeInOrder, AttemptsAreProved, AttemptsTold, CallsKnown,
     CallKnown, HooksKnown, DoubtIsNotConfirmed, ConfirmedIsPaid, Told, Made
<1> QED
  BY <1>6, <1>7, <1>8, <1>9 DEF Inductive
-----------------------------------------------------------------------------
(* The theorems that hold whatever Square does.                             *)

LEMMA InitIsInductive == Init => Inductive
<1> SUFFICES ASSUME Init PROVE Inductive
  OBVIOUS
<1>1. 0 \in 0 .. MaxTick /\ 0 \in 0 .. MaxClaims /\ 0 \in 0 .. MaxAttempts
  BY PaymentAssumption
<1>2. att \in [Attempts -> Attempt] /\ order \in Order
  BY EvidenceFits DEF Init, Order
<1>3. pay \in [Attempts -> Payment]
  BY <1>1 DEF Init, Payment
<1>4. TypeOK
  BY <1>1, <1>2, <1>3 DEF Init, TypeOK
<1>5. Made = {}
  BY DEF Init, Made, NoAttempt
<1>6. MadeInOrder
  BY <1>1, <1>5 DEF MadeInOrder
<1> QED
  BY <1>4, <1>5, <1>6 DEF Init, Inductive, EventsKnown, ChargeTold, AttemptsAreProved,
     AttemptsTold, CallsKnown, HooksKnown, DoubtIsNotConfirmed, ConfirmedIsPaid, NoAttempt

LEMMA StutterKeeps ==
    ASSUME Inductive, UNCHANGED vars
    PROVE  Inductive'
BY DEF vars, Inductive, TypeOK, MadeInOrder, EventsKnown, ChargeTold, AttemptsAreProved,
   AttemptsTold, Told, CallsKnown, CallKnown, HooksKnown, DoubtIsNotConfirmed,
   ConfirmedIsPaid, Made

LEMMA NextKeeps ==
    ASSUME Inductive, [Next]_vars
    PROVE  Inductive'
BY ClaimPaymentKeeps, DoubtKeeps, ClaimReconciliationKeeps, ProjectDeliveryKeeps,
   RetrieveKeeps, ProjectReconciliationKeeps, ResolveKeeps, ProjectWebhookKeeps,
   ClaimTimesOutKeeps, OtherStepsKeep, SquareMovesKeeps, StutterKeeps DEF Next

\* Everything the rows, the invocations and the facts of Square say of each
\* other, for every number of attempts and claims and any moves of Square.
THEOREM PaymentInductive == Spec => []Inductive
<1>1. Init => Inductive
  BY InitIsInductive
<1>2. Inductive /\ [Next]_vars => Inductive'
  BY NextKeeps
<1> QED
  BY <1>1, <1>2, PTL DEF Spec

\* Every row, fact and invocation stays in its type.
THEOREM PaymentTypes == Spec => []TypeOK
<1>1. Inductive => TypeOK
  BY DEF Inductive
<1> QED
  BY <1>1, PaymentInductive, PTL

\* An attempt says only what Square said of the payment made with its key.
THEOREM AttemptsProved == Spec => []AttemptsAreProved
<1>1. Inductive => AttemptsAreProved
  BY DEF Inductive
<1> QED
  BY <1>1, PaymentInductive, PTL

\* A confirmed order has an attempt that was paid.
THEOREM ConfirmedWasPaid == Spec => []ConfirmedIsPaid
<1>1. Inductive => ConfirmedIsPaid
  BY DEF Inductive
<1> QED
  BY <1>1, PaymentInductive, PTL
-----------------------------------------------------------------------------
(* What holds when Square never takes back a refusal: a charge may then be  *)
(* started after every earlier attempt was refused, and only then.          *)

RefusalsAreFinal == \A m \in Moves : m[1] \notin Settled

\* The last change of a payment is the newest fact, and a refusal is the last.
EventsInTime ==
    \A e \in events :
        /\ e.at <= pay[e.payment].at
        /\ e.status \in Settled =>
              pay[e.payment].status \in Settled /\ pay[e.payment].at = e.at

\* An attempt that was followed by another one was refused, knows the last
\* fact about its payment, and so is never applied another one.
OlderAreRefused ==
    \A i \in Made : i + 1 \in Made =>
        /\ att[i].status \in Settled \cup {"indeterminate"}
        /\ pay[i].status \in Settled
        /\ att[i].seen = pay[i].at

OneUnresolved ==
    \A i, j \in Attempts :
        att[i].status \in Unresolved /\ att[j].status \in Unresolved => i = j

\* An order that may be charged again has only refused attempts.
RefusedOrder ==
    order.payment \in {"not_started"} \cup Settled =>
        \A i \in Made : att[i].status \in Settled

\* An order that counts as paid has its newest attempt paid.
PaidOrder ==
    order.payment = "paid" =>
        \E i \in Made : i + 1 \notin Made /\ att[i].status = "paid"

Final ==
    /\ EventsInTime /\ OlderAreRefused /\ OneUnresolved
    /\ RefusedOrder /\ PaidOrder
\* A refused attempt knows the last fact about its payment.
LEMMA RefusedKnowsAll ==
    ASSUME Inductive, Final, NEW i \in Made, att[i].status \in Settled
    PROVE  pay[i].status \in Settled /\ att[i].seen = pay[i].at
<1> DEFINE e == [payment |-> i, status |-> att[i].status, at |-> att[i].seen,
                 matched |-> TRUE]
<1>1. e \in events
  BY DEF Inductive, AttemptsAreProved, Settled
<1>2. e.payment = i /\ e.status = att[i].status /\ e.at = att[i].seen
  OBVIOUS
<1> HIDE DEF e
<1> QED
  BY <1>1, <1>2 DEF Final, EventsInTime

\* Only the newest attempt can be told anything new, and it can be refused only
\* while the attempts before it are refused.
LEMMA AppliedToNewest ==
    ASSUME Inductive, Final, NEW i \in Made, NEW e \in events, e.payment = i,
           e.at > att[i].seen
    PROVE  i + 1 \notin Made /\ att[i].status \notin Settled
<1>1. e.at <= pay[i].at
  BY DEF Final, EventsInTime
<1>2. e.at \in Int /\ att[i].seen \in Int /\ pay[i].at \in Int
  BY PaymentAssumption DEF Inductive, TypeOK, Evidence, Attempt, Payment, Made
<1>3. att[i].seen # pay[i].at
  BY <1>1, <1>2
<1> QED
  BY <1>3, RefusedKnowsAll DEF Final, OlderAreRefused

\* A step that changes no status, no time and no payment status.
LEMMA FinalSame ==
    ASSUME Inductive, Final, UNCHANGED <<pay, events>>,
           \A j \in Attempts : att'[j].status = att[j].status /\ att'[j].seen = att[j].seen,
           order'.payment = order.payment
    PROVE  Final'
<1>1. Made' = Made
  BY DEF Made
<1> QED
  BY <1>1 DEF Final, EventsInTime, OlderAreRefused, OneUnresolved, RefusedOrder, PaidOrder,
     Made

LEMMA ClaimPaymentFinal ==
    ASSUME Inductive, Final, ClaimPayment
    PROVE  Final'
<1> DEFINE n == Cardinality(Made) + 1
           new == Claimed([NoAttempt EXCEPT !.status = "pending"], "initiate")
<1>1. PICK k \in 0 .. MaxAttempts : Made = 1 .. k
  BY DEF Inductive, MadeInOrder
<1>2. k \in Int /\ k >= 0 /\ n = k + 1 /\ n \in Attempts /\ n \notin Made
  <2>1. Cardinality(1 .. k) = k /\ k \in Int /\ k >= 0
    <3>1. k \in Int /\ 1 \in Int /\ k >= 0
      BY <1>1, PaymentAssumption
    <3> QED
      BY <3>1, FS_Interval
  <2>2. k < MaxAttempts
    BY <1>1, <2>1 DEF ClaimPayment
  <2> QED
    BY <1>1, <2>1, <2>2, PaymentAssumption DEF Attempts
<1>3. new.status = "pending"
  BY DEF Claimed, NoAttempt
<1> HIDE DEF n, new
<1>4. /\ att' = [att EXCEPT ![n] = new] /\ order' = Paid(order, "payment_pending", "pending")
      /\ UNCHANGED <<pay, events>>
      /\ order.payment \in {"not_started"} \cup Settled
  BY DEF ClaimPayment, n, new
<1>5. att'[n] = new /\ \A j \in Attempts \ {n} : att'[j] = att[j]
  BY <1>2, <1>4 DEF Inductive, TypeOK
<1>6. Made' = Made \cup {n}
  BY <1>2, <1>3, <1>5 DEF Made
<1>7. \A j \in Made : att[j].status \in Settled /\ pay[j].status \in Settled
                      /\ att[j].seen = pay[j].at
  BY <1>4, RefusedKnowsAll DEF Final, RefusedOrder
<1>8. OlderAreRefused'
  BY <1>1, <1>2, <1>4, <1>5, <1>6, <1>7 DEF OlderAreRefused, Made
<1>9. OneUnresolved'
  BY <1>2, <1>5, <1>7 DEF OneUnresolved, Made, Unresolved, Settled
<1>10. order'.payment = "pending"
  BY <1>4 DEF Inductive, TypeOK, Paid, Order
<1> QED
  BY <1>4, <1>8, <1>9, <1>10 DEF Final, EventsInTime, RefusedOrder, PaidOrder, Settled

LEMMA DoubtFinal ==
    ASSUME Inductive, Final, NEW i \in Attempts, ReplayInitiate(i) \/ LeaveToOperator(i)
    PROVE  Final'
<1> DEFINE b == Unclaimed([att[i] EXCEPT !.status = "indeterminate", !.review = TRUE])
<1>1. /\ att[i] \in Attempt /\ order \in Order /\ i \in Made
      /\ att[i].status \in Unresolved /\ UNCHANGED <<pay, events>>
  BY DEF Inductive, TypeOK, Made, ReplayInitiate, LeaveToOperator, Unresolved
<1>2. b.status = "indeterminate" /\ b.seen = att[i].seen
  BY <1>1 DEF Unclaimed, Attempt
<1> HIDE DEF b
<1>3. att'[i] = b /\ \A j \in Attempts \ {i} : att'[j] = att[j]
  BY DEF Inductive, TypeOK, ReplayInitiate, LeaveToOperator, b
<1>4. order'.payment = "indeterminate"
  BY <1>1 DEF ReplayInitiate, LeaveToOperator, Paid, Order
<1>5. Made' = Made
  BY <1>1, <1>2, <1>3 DEF Made
<1>6. OlderAreRefused' /\ OneUnresolved'
  BY <1>1, <1>2, <1>3, <1>5 DEF Final, OlderAreRefused, OneUnresolved, Made, Unresolved
<1> QED
  BY <1>1, <1>4, <1>6 DEF Final, EventsInTime, RefusedOrder, PaidOrder, Settled

LEMMA ProjectsFinal ==
    ASSUME Inductive, Final, NEW i \in Made, NEW ev, About(i, ev), NEW byWorker \in BOOLEAN,
           Projects(i, ev, byWorker), UNCHANGED <<pay, events>>
    PROVE  Final'
<1> DEFINE b == AttemptAfter(i, ev, byWorker)
           v == Verdict(i, ev)
<1>1. /\ i \in Attempts /\ att[i] \in Attempt /\ att \in [Attempts -> Attempt]
      /\ order \in Order /\ ev \in Evidence /\ att[i].status # "none"
  BY DEF Inductive, TypeOK, Made, About
<1>2. CASE UNCHANGED <<att, order>>
  BY <1>2, FinalSame
<1>3. CASE /\ att' = AttAfter(i, ev, byWorker) /\ order' = OrderAfter(i, ev)
           /\ Consistent(att', order')
  <2>1. att'[i] = b /\ \A j \in Attempts \ {i} : att'[j] = att[j]
    BY <1>1, <1>3 DEF AttAfter
  <2>2. /\ v = "applied" =>
              /\ b.status = ev.status /\ ev \in events /\ ev.payment = i
              /\ ev.at > att[i].seen
              /\ TransitionAllowed(att[i].status, ev.status)
        /\ v # "applied" => b.seen = att[i].seen
        /\ v = "mismatch" => /\ b.status \in {att[i].status, "indeterminate"}
                             /\ att[i].status = "paid" => b.status = "paid"
        /\ v \notin {"applied", "mismatch"} => b.status = att[i].status
    BY AttemptAfterCases
  <2> HIDE DEF b
  <2>3. v \in {"mismatch", "stale", "duplicate", "conflict", "contested", "applied"}
    BY DEF Verdict
  <2>4. OneUnresolved'
    BY <1>3 DEF Consistent, OneUnresolved
  <2>5. EventsInTime'
    BY DEF Final, EventsInTime
  <2>6. Made' = Made
    BY <1>3, ProjectsKeep
  <2>7. CASE v = "applied"
    <3>1. /\ b.status = ev.status /\ ev \in events /\ ev.payment = i /\ ev.at > att[i].seen
          /\ TransitionAllowed(att[i].status, ev.status) /\ ev.status \in ProviderStatus
      BY <2>2, <2>7 DEF Inductive, EventsKnown
    <3>2. i + 1 \notin Made /\ att[i].status \notin Settled
      BY <3>1, AppliedToNewest
    <3>3. order'.payment = ev.status
      BY <1>1, <1>3, <2>7 DEF OrderAfter, Paid, Order
    <3>4. OlderAreRefused'
      BY <2>1, <2>6, <3>2 DEF Final, OlderAreRefused, Made
    <3>5. RefusedOrder'
      <4>1. CASE ev.status \in Settled
        <5>1. att[i].status \in Unresolved
          BY <3>1, <3>2, <4>1 DEF TransitionAllowed, Settled, Unresolved
        <5>2. ASSUME NEW j \in Made, j # i PROVE att[j].status \in Settled
          <6>1. j + 1 \in Made
            <7>1. PICK k \in 0 .. MaxAttempts : Made = 1 .. k
              BY DEF Inductive, MadeInOrder
            <7>2. k \in Int /\ i \in Int /\ j \in Int /\ 1 <= i /\ i <= k /\ 1 <= j /\ j <= k
              BY <7>1, PaymentAssumption
            <7>3. i = k
              BY <3>2, <7>1, <7>2
            <7> QED
              BY <5>2, <7>1, <7>2, <7>3
          <6>2. att[j].status \in Settled \cup {"indeterminate"}
            BY <6>1 DEF Final, OlderAreRefused
          <6>3. att[j].status \notin Unresolved
            BY <5>1, <5>2, <1>1 DEF Final, OneUnresolved, Made
          <6> QED
            BY <6>2, <6>3 DEF Unresolved
        <5> QED
          BY <2>1, <2>6, <3>1, <4>1, <5>2 DEF RefusedOrder, Made
      <4>2. CASE ev.status \notin Settled
        BY <3>1, <3>3, <4>2 DEF RefusedOrder, ProviderStatus
      <4> QED
        BY <4>1, <4>2
    <3>6. PaidOrder'
      BY <2>1, <2>6, <3>1, <3>2, <3>3 DEF PaidOrder
    <3> QED
      BY <2>4, <2>5, <3>4, <3>5, <3>6 DEF Final
  <2>8. CASE v = "mismatch"
    <3>1. /\ b.seen = att[i].seen /\ b.status \in {att[i].status, "indeterminate"}
          /\ att[i].status = "paid" => b.status = "paid"
      BY <2>2, <2>8
    <3>2. order'.payment = IF order.payment \in {"paid", "refunded"}
                           THEN order.payment ELSE "indeterminate"
      BY <1>1, <1>3, <2>8 DEF OrderAfter, Paid, Order
    <3>3. OlderAreRefused'
      BY <2>1, <2>6, <3>1 DEF Final, OlderAreRefused, Made
    <3>4. RefusedOrder' /\ PaidOrder'
      BY <2>1, <2>6, <3>1, <3>2 DEF Final, RefusedOrder, PaidOrder, Settled, Made
    <3> QED
      BY <2>4, <2>5, <3>3, <3>4 DEF Final
  <2>9. CASE v \in {"stale", "duplicate", "conflict"}
    <3>1. b.seen = att[i].seen /\ b.status = att[i].status
      BY <2>2, <2>9
    <3>2. order'.payment = order.payment
      BY <1>1, <1>3, <2>9 DEF OrderAfter, Order
    <3> QED
      BY <2>1, <3>1, <3>2, FinalSame
  <2>10. CASE v = "contested"
    <3>1. b.seen = att[i].seen /\ b.status = att[i].status
      BY <2>2, <2>10
    <3>2. order'.payment = "indeterminate"
      BY <1>1, <1>3, <2>10 DEF OrderAfter, Paid, Order
    <3>3. OlderAreRefused'
      BY <2>1, <2>6, <3>1 DEF Final, OlderAreRefused, Made
    <3> QED
      BY <2>4, <2>5, <3>2, <3>3 DEF Final, RefusedOrder, PaidOrder, Settled
  <2> QED
    BY <2>3, <2>7, <2>8, <2>9, <2>10
<1> QED
  BY <1>2, <1>3 DEF Projects

\* A step that neither projects, claims nor gives up leaves statuses alone.
Quiet ==
    /\ UNCHANGED <<pay, events>> /\ order'.payment = order.payment
    /\ \A j \in Attempts : att'[j].status = att[j].status /\ att'[j].seen = att[j].seen

\* A projection by whoever makes it.
SomeProjection ==
    /\ UNCHANGED <<pay, events>>
    /\ \E i \in Made, ev \in Evidence, byWorker \in BOOLEAN :
          About(i, ev) /\ Projects(i, ev, byWorker)

LEMMA RepliesProject ==
    ASSUME Inductive, NEW c \in calls, ProjectDelivery(c) \/ ProjectReconciliation(c)
    PROVE  Quiet \/ SomeProjection
<1>1. c.attempt \in Made /\ c \in Call /\ UNCHANGED <<pay, events>>
  BY DEF Inductive, TypeOK, CallsKnown, CallKnown, ProjectDelivery, ProjectReconciliation
<1>2. CASE UNCHANGED <<att, order>>
  BY <1>1, <1>2 DEF Quiet
<1>3. CASE ProjectDelivery(c) /\ ~UNCHANGED <<att, order>>
  <2>1. PICK ev \in {e \in events : e.payment = c.attempt /\ e.at = 1} \cup {Doubt} :
          Projects(c.attempt, ev, TRUE)
    BY <1>3 DEF ProjectDelivery
  <2>2. About(c.attempt, ev) /\ ev \in Evidence
    BY EvidenceFits DEF About, Inductive, TypeOK
  <2> QED
    BY <1>1, <2>1, <2>2 DEF SomeProjection
<1>4. CASE ProjectReconciliation(c) /\ ~UNCHANGED <<att, order>>
  <2>1. Projects(c.attempt, c.reply, TRUE)
    BY <1>4 DEF ProjectReconciliation
  <2>2. About(c.attempt, c.reply) /\ c.reply \in Evidence
    BY <1>1, <1>4 DEF ProjectReconciliation, Inductive, CallsKnown, CallKnown, About, Call
  <2> QED
    BY <1>1, <2>1, <2>2 DEF SomeProjection
<1> QED
  BY <1>2, <1>3, <1>4

LEMMA WebhooksProject ==
    ASSUME Inductive, NEW h \in hooks, ProjectWebhook(h[1], h[2])
    PROVE  Quiet \/ SomeProjection
<1> DEFINE e == h[1]
           i == h[2]
<1>1. /\ e \in events /\ e.payment = i /\ i \in Made /\ i \in Attempts /\ e \in Evidence
      /\ UNCHANGED <<pay, events>>
  BY DEF Inductive, TypeOK, HooksKnown, EventsKnown, Made, ProjectWebhook
<1>2. att[i] \in Attempt /\ att \in [Attempts -> Attempt] /\ order \in Order
  BY <1>1 DEF Inductive, TypeOK
<1> HIDE DEF e, i
<1>3. CASE UNCHANGED <<att, order>>
  BY <1>1, <1>3 DEF Quiet
<1>4. CASE Projects(i, e, FALSE)
  BY <1>1, <1>4 DEF SomeProjection, About
<1>5. CASE /\ att' = [att EXCEPT ![i].review = TRUE]
           /\ order' = [order EXCEPT !.status = "attention_required"]
  BY <1>1, <1>2, <1>5 DEF Quiet, Attempt, Order
<1> QED
  BY <1>3, <1>4, <1>5 DEF ProjectWebhook, e, i

LEMMA QuietSteps ==
    ASSUME Inductive,
           \/ \E i \in Attempts : ClaimReconciliation(i) \/ ClaimTimesOut(i)
           \/ \E c \in calls : Retrieve(c) \/ WorkerCrashes(c)
           \/ \E e \in events : Resolve(e)
           \/ \E h \in hooks : WebhookFails(h[1], h[2])
           \/ WindowCloses \/ OrderLapses \/ ExpireAbandonedOrder \/ UNCHANGED vars
    PROVE  Quiet
<1>1. att \in [Attempts -> Attempt] /\ order \in Order
  BY DEF Inductive, TypeOK
<1>2. CASE UNCHANGED <<att, order, pay, events>>
  BY <1>2 DEF Quiet
<1>3. CASE \E i \in Attempts : ClaimReconciliation(i) \/ ClaimTimesOut(i)
  <2>1. PICK i \in Attempts : ClaimReconciliation(i) \/ ClaimTimesOut(i)
    BY <1>3
  <2>2. /\ att[i] \in Attempt /\ UNCHANGED <<pay, events, order>>
        /\ \/ att' = [att EXCEPT ![i] = Claimed(att[i], "reconcile")]
           \/ att' = [att EXCEPT ![i] = [att[i] EXCEPT !.live = FALSE]]
    BY <1>1, <2>1 DEF ClaimReconciliation, ClaimTimesOut
  <2>3. /\ att'[i].status = att[i].status /\ att'[i].seen = att[i].seen
        /\ \A j \in Attempts \ {i} : att'[j] = att[j]
    <3>1. \A a \in {Claimed(att[i], "reconcile"), [att[i] EXCEPT !.live = FALSE]} :
             a.status = att[i].status /\ a.seen = att[i].seen
      BY <2>2 DEF Claimed, Attempt
    <3>2. \E a \in {Claimed(att[i], "reconcile"), [att[i] EXCEPT !.live = FALSE]} :
             att' = [att EXCEPT ![i] = a]
      BY <2>2
    <3> QED BY <1>1, <3>1, <3>2
  <2> QED
    BY <2>2, <2>3 DEF Quiet
<1>4. CASE OrderLapses \/ ExpireAbandonedOrder
  BY <1>1, <1>4 DEF Quiet, OrderLapses, ExpireAbandonedOrder, Order
<1> QED
  BY <1>2, <1>3, <1>4 DEF Retrieve, WorkerCrashes, Resolve, WebhookFails, WindowCloses, vars

\* What a step can be.
LEMMA StepKinds ==
    ASSUME Inductive, [Next]_vars
    PROVE  \/ ClaimPayment \/ Quiet \/ SomeProjection
           \/ \E i \in Attempts : ReplayInitiate(i) \/ LeaveToOperator(i)
           \/ \E i \in Attempts : SquareMoves(i)
BY RepliesProject, WebhooksProject, QuietSteps DEF Next

\* A refusal is not taken back, so the refused attempts stay refused.
LEMMA SquareMovesFinal ==
    ASSUME Inductive, Final, RefusalsAreFinal, NEW i \in Attempts, SquareMoves(i)
    PROVE  Final'
<1>1. PICK s \in ProviderStatus :
        /\ <<pay[i].status, s>> \in Moves
        /\ LET now == pay[i].at + 1
               refund == s \in {"refund_pending", "refunded"}
                           \/ pay[i].status = "refund_pending"
           IN  /\ pay' = [pay EXCEPT ![i] =
                      [status |-> s, at |-> now,
                       charged |-> IF refund THEN pay[i].charged ELSE now]]
               /\ events' = events \cup {[payment |-> i, status |-> s, at |-> now,
                                          matched |-> TRUE]}
  BY DEF SquareMoves
<1> DEFINE now == pay[i].at + 1
           new == [payment |-> i, status |-> s, at |-> now, matched |-> TRUE]
<1>2. /\ UNCHANGED <<att, order>> /\ i \in Made /\ events' = events \cup {new}
      /\ pay'[i].status = s /\ pay'[i].at = now
      /\ \A j \in Attempts \ {i} : pay'[j] = pay[j]
      /\ pay[i].status \notin Settled /\ pay[i].at \in Int
  BY <1>1, PaymentAssumption
     DEF SquareMoves, Inductive, TypeOK, RefusalsAreFinal, Payment
<1>3. new.payment = i /\ new.status = s /\ new.at = now
  OBVIOUS
<1> HIDE DEF new
<1>4. EventsInTime'
  <2> SUFFICES ASSUME NEW e \in events'
               PROVE  /\ e.at <= pay'[e.payment].at
                      /\ e.status \in Settled => /\ pay'[e.payment].status \in Settled
                                                 /\ pay'[e.payment].at = e.at
    BY DEF EventsInTime
  <2>1. CASE e = new
    BY <1>2, <1>3, <2>1
  <2>2. CASE e \in events
    <3>1. e.payment \in Attempts /\ e.at \in Int /\ e.payment \in Made
      BY <2>2, PaymentAssumption DEF Inductive, TypeOK, EventsKnown, Made, Evidence
    <3> QED
      BY <1>2, <2>2, <3>1 DEF Final, EventsInTime
  <2> QED
    BY <1>2, <2>1, <2>2
<1>5. OlderAreRefused'
  BY <1>2 DEF Final, OlderAreRefused, Made
<1> QED
  BY <1>2, <1>4, <1>5 DEF Final, OneUnresolved, RefusedOrder, PaidOrder, Made

LEMMA FinalKeeps ==
    ASSUME Inductive, Final, RefusalsAreFinal, [Next]_vars
    PROVE  Final'
<1>1. CASE SomeProjection
  BY <1>1, ProjectsFinal DEF SomeProjection
<1>2. CASE Quiet
  BY <1>2, FinalSame DEF Quiet
<1> QED
  BY <1>1, <1>2, StepKinds, ClaimPaymentFinal, DoubtFinal, SquareMovesFinal

LEMMA InitIsFinal == Init => Final
<1> SUFFICES ASSUME Init PROVE Final
  OBVIOUS
<1>1. Made = {} /\ \A i \in Attempts : att[i].status = "none"
  BY DEF Init, Made, NoAttempt
<1> QED
  BY <1>1 DEF Init, Final, EventsInTime, OlderAreRefused, OneUnresolved, RefusedOrder,
     PaidOrder, Unresolved

LEMMA FinalInductive == RefusalsAreFinal /\ Spec => [](Inductive /\ Final)
<1>1. Init => Inductive /\ Final
  BY InitIsInductive, InitIsFinal
<1>2. RefusalsAreFinal /\ Inductive /\ Final /\ [Next]_vars => (Inductive /\ Final)'
  BY NextKeeps, FinalKeeps
<1>3. RefusalsAreFinal => RefusalsAreFinal'
  BY DEF RefusalsAreFinal
<1>4. RefusalsAreFinal => []RefusalsAreFinal
  BY <1>3, PTL
<1> QED
  BY <1>1, <1>2, <1>4, PTL DEF Spec

\* Square holds or takes money only for an attempt that exists.
LEMMA ChargedIsMade == ASSUME Inductive PROVE ChargedOnes \subseteq Made
<1> SUFFICES ASSUME NEW i \in ChargedOnes PROVE i \in Made
  OBVIOUS
<1>1. i \in Attempts /\ pay[i].status # "absent"
  BY DEF ChargedOnes, Money
<1>2. PICK e \in events : e.payment = i
  BY <1>1 DEF Inductive, ChargeTold
<1> QED
  BY <1>2 DEF Inductive, EventsKnown

\* What a projection does to the attempt it is about.
LEMMA ProjectionMoves ==
    ASSUME Inductive, NEW i \in Made, NEW ev, About(i, ev), NEW byWorker \in BOOLEAN,
           Projects(i, ev, byWorker)
    PROVE  /\ \A j \in Made \ {i} : att'[j] = att[j]
           /\ att'[i].seen >= att[i].seen
           /\ att'[i].status # att[i].status =>
                 \/ TransitionAllowed(att[i].status, att'[i].status)
                 \/ att[i].status \notin {"paid", "refunded"}
                    /\ att'[i].status = "indeterminate"
<1> DEFINE b == AttemptAfter(i, ev, byWorker)
           v == Verdict(i, ev)
<1>1. att \in [Attempts -> Attempt] /\ i \in Attempts /\ att[i].seen \in Int
  BY PaymentAssumption DEF Inductive, TypeOK, Made, Attempt
<1>2. CASE UNCHANGED <<att, order>>
  BY <1>1, <1>2
<1>3. CASE att' = AttAfter(i, ev, byWorker)
  <2>1. att'[i] = b /\ \A j \in Made \ {i} : att'[j] = att[j]
    BY <1>1, <1>3 DEF AttAfter, Made
  <2>2. /\ v = "applied" => /\ b.status = ev.status /\ b.seen = ev.at /\ ev.at > att[i].seen
                            /\ TransitionAllowed(att[i].status, ev.status)
        /\ v # "applied" => b.seen = att[i].seen
        /\ v = "mismatch" => b.status = IF \/ att[i].status \in {"paid", "refunded"}
                                           \/ OtherUnresolved(i)
                                        THEN att[i].status ELSE "indeterminate"
        /\ v \notin {"applied", "mismatch"} => b.status = att[i].status
    BY AttemptAfterCases
  <2> HIDE DEF b, v
  <2>3. ev.at \in Int
    BY PaymentAssumption DEF About, Evidence
  <2> QED
    BY <1>1, <2>1, <2>2, <2>3
<1> QED
  BY <1>2, <1>3 DEF Projects

\* No attempt moves to an older fact, nor out of a final status but to a refund
\* or to doubt, whatever Square does and however its facts arrive.
THEOREM NoRegress == Spec => AttemptsNeverRegress
<1> DEFINE Forward(i) ==
             /\ att'[i].seen >= att[i].seen
             /\ att[i].status \in {"paid", "refunded"} \cup Settled
                   /\ att'[i].status # att[i].status =>
                   att'[i].status \in {"refund_pending", "refunded", "indeterminate"}
<1>1. Inductive /\ [Next]_vars => \A i \in Made : Forward(i)
  <2> SUFFICES ASSUME Inductive, [Next]_vars, NEW i \in Made PROVE Forward(i)
    OBVIOUS
  <2>1. att \in [Attempts -> Attempt] /\ i \in Attempts /\ att[i].seen \in Int
    BY PaymentAssumption DEF Inductive, TypeOK, Made, Attempt
  <2>2. CASE UNCHANGED att
    BY <2>1, <2>2
  <2>3. CASE Quiet
    BY <2>1, <2>3 DEF Quiet
  <2>4. CASE ClaimPayment
    <3> DEFINE n == Cardinality(Made) + 1
    <3>1. PICK a : att' = [att EXCEPT ![n] = a]
      BY <2>4 DEF ClaimPayment
    <3>2. i # n
      <4>1. PICK k \in 0 .. MaxAttempts : Made = 1 .. k
        BY DEF Inductive, MadeInOrder
      <4>2. k \in Int /\ k >= 0 /\ 1 \in Int
        BY <4>1, PaymentAssumption
      <4>3. Cardinality(Made) = k
        BY <4>1, <4>2, FS_Interval
      <4> QED
        BY <4>1, <4>2, <4>3
    <3> QED
      BY <2>1, <3>1, <3>2
  <2>5. CASE SomeProjection
    <3>1. PICK j \in Made, ev \in Evidence, byWorker \in BOOLEAN :
            About(j, ev) /\ Projects(j, ev, byWorker)
      BY <2>5 DEF SomeProjection
    <3>2. CASE i = j
      BY <3>1, <3>2, ProjectionMoves DEF TransitionAllowed, Settled
    <3>3. CASE i # j
      BY <2>1, <3>1, <3>3, ProjectionMoves
    <3> QED
      BY <3>2, <3>3
  <2>6. CASE \E j \in Attempts : ReplayInitiate(j) \/ LeaveToOperator(j)
    <3>1. PICK j \in Attempts : ReplayInitiate(j) \/ LeaveToOperator(j)
      BY <2>6
    <3> DEFINE b == Unclaimed([att[j] EXCEPT !.status = "indeterminate", !.review = TRUE])
    <3>2. /\ att[j] \in Attempt /\ att[j].status \in Unresolved
          /\ att' = [att EXCEPT ![j] = b]
      BY <2>1, <3>1 DEF ReplayInitiate, LeaveToOperator, Unresolved
    <3>3. b.status = "indeterminate" /\ b.seen = att[j].seen
      BY <3>2 DEF Unclaimed, Attempt
    <3> HIDE DEF b
    <3>4. att'[j] = b /\ \A l \in Made \ {j} : att'[l] = att[l]
      BY <2>1, <3>2 DEF Made
    <3> QED
      BY <2>1, <3>2, <3>3, <3>4
  <2> QED
    BY <2>2, <2>3, <2>4, <2>5, <2>6, StepKinds DEF SquareMoves
<1>2. Inductive /\ [Next]_vars => [\A i \in Made : Forward(i)]_vars
  BY <1>1
<1> QED
  BY <1>2, PaymentInductive, PTL DEF Spec, AttemptsNeverRegress, Forward
-----------------------------------------------------------------------------
(* The theorems that need refusals to be final.                             *)

\* As long as Square takes back no refusal, an order is charged once at most:
\* a further attempt is claimed only when the last fact about the payment of
\* every earlier one is a refusal.
THEOREM ChargedOnce == RefusalsAreFinal /\ Spec => []NoDoubleCharge
<1>1. Inductive /\ Final => NoDoubleCharge
  <2> SUFFICES ASSUME Inductive, Final PROVE NoDoubleCharge
    OBVIOUS
  <2>1. ASSUME NEW i \in ChargedOnes PROVE i \in Made /\ i + 1 \notin Made
    BY ChargedIsMade DEF Final, OlderAreRefused, ChargedOnes, Money, Settled
  <2>2. PICK k \in 0 .. MaxAttempts : Made = 1 .. k
    BY DEF Inductive, MadeInOrder
  <2>3. ChargedOnes \subseteq {k}
    <3> SUFFICES ASSUME NEW i \in ChargedOnes PROVE i = k
      OBVIOUS
    <3>1. i \in 1 .. k /\ i + 1 \notin 1 .. k
      BY <2>1, <2>2
    <3>2. k \in Int
      BY <2>2, PaymentAssumption
    <3> QED
      BY <3>1, <3>2
  <2>4. IsFiniteSet({k}) /\ Cardinality({k}) = 1
    BY FS_Singleton
  <2>5. /\ IsFiniteSet(ChargedOnes) /\ Cardinality(ChargedOnes) <= Cardinality({k})
    BY <2>3, <2>4, FS_Subset
  <2>6. Cardinality(ChargedOnes) \in Nat
    BY <2>5, FS_CardinalityType
  <2> QED
    BY <2>4, <2>5, <2>6 DEF NoDoubleCharge
<1> QED
  BY <1>1, FinalInductive, PTL

\* And the cron job releases the units of no order Square has money for.
THEOREM ReleasedWithoutMoney == RefusalsAreFinal /\ Spec => ReleaseOnlyWithoutMoney
<1>1. Inductive /\ Final /\ [Next]_vars
        => [~order.released /\ order'.released => ChargedOnes = {}]_vars
  <2> SUFFICES ASSUME Inductive, Final, Next, ~order.released, order'.released
               PROVE  ChargedOnes = {}
    BY DEF vars
  <2>1. order \in Order
    BY DEF Inductive, TypeOK
  <2>2. ExpireAbandonedOrder
    <3>1. ASSUME NEW i \in Attempts, ReplayInitiate(i) \/ LeaveToOperator(i) PROVE FALSE
      BY <2>1, <3>1 DEF ReplayInitiate, LeaveToOperator, Paid, Order
    <3>2. ASSUME NEW i, NEW ev, NEW byWorker, Projects(i, ev, byWorker) PROVE FALSE
      <4>1. Verdict(i, ev) \in {"mismatch", "stale", "duplicate", "conflict", "contested",
                                "applied"}
        BY DEF Verdict
      <4>2. order' = OrderAfter(i, ev)
        BY <3>2 DEF Projects
      <4> QED
        BY <2>1, <4>1, <4>2 DEF OrderAfter, Paid, Order
    <3>3. ~ClaimPayment
      BY <2>1 DEF ClaimPayment, Paid, Order
    <3>4. \A i, e : ~ProjectWebhook(i, e)
      BY <2>1, <3>2 DEF ProjectWebhook, Order
    <3> QED
      BY <2>1, <3>1, <3>2, <3>3, <3>4 DEF Next, ClaimReconciliation, ProjectDelivery,
         Retrieve, ProjectReconciliation, WorkerCrashes, Resolve, WebhookFails, SquareMoves,
         ClaimTimesOut, WindowCloses, OrderLapses, Order
  <2>3. order.payment \in {"not_started"} \cup Settled
    BY <2>2 DEF ExpireAbandonedOrder
  <2>4. \A i \in Made : pay[i].status \in Settled
    BY <2>3, RefusedKnowsAll DEF Final, RefusedOrder
  <2> QED
    BY <2>4, ChargedIsMade DEF ChargedOnes, Money, Settled
<1> QED
  BY <1>1, FinalInductive, PTL DEF Spec, ReleaseOnlyWithoutMoney

\* A paid order is not talked out of its payment: newer facts about its paid
\* attempt are refunds, and no other attempt is told anything.
THEOREM PaidStands == RefusalsAreFinal /\ Spec => PaidOrderStands
<1> DEFINE Stands == \/ order'.payment \in {"paid", "refund_pending", "refunded"}
                     \/ order'.status = "attention_required"
<1>1. Inductive /\ Final /\ [Next]_vars => [order.payment = "paid" => Stands]_vars
  <2> SUFFICES ASSUME Inductive, Final, [Next]_vars, order.payment = "paid"
               PROVE  Stands
    OBVIOUS
  <2>1. order \in Order
    BY DEF Inductive, TypeOK
  <2>2. CASE UNCHANGED order \/ Quiet
    BY <2>2 DEF Quiet
  <2>3. CASE \E i \in Attempts : ReplayInitiate(i) \/ LeaveToOperator(i)
    BY <2>1, <2>3 DEF ReplayInitiate, LeaveToOperator, Paid, Order
  <2>4. CASE SomeProjection
    <3>1. PICK i \in Made, ev \in Evidence, byWorker \in BOOLEAN :
            About(i, ev) /\ Projects(i, ev, byWorker)
      BY <2>4 DEF SomeProjection
    <3> DEFINE v == Verdict(i, ev)
    <3>2. v \in {"mismatch", "stale", "duplicate", "conflict", "contested", "applied"}
      BY DEF Verdict
    <3>3. CASE UNCHANGED order
      BY <3>3
    <3>4. CASE order' = OrderAfter(i, ev) /\ v # "applied"
      BY <2>1, <3>2, <3>4 DEF OrderAfter, Paid, Order
    <3>5. CASE order' = OrderAfter(i, ev) /\ v = "applied"
      <4>1. /\ ev \in events /\ ev.payment = i /\ ev.at > att[i].seen
            /\ TransitionAllowed(att[i].status, ev.status)
        BY <3>1, <3>5, AttemptAfterCases
      <4>2. i + 1 \notin Made
        BY <4>1, AppliedToNewest
      <4>3. PICK j \in Made : j + 1 \notin Made /\ att[j].status = "paid"
        BY DEF Final, PaidOrder
      <4>4. i = j
        <5>1. PICK k \in 0 .. MaxAttempts : Made = 1 .. k
          BY DEF Inductive, MadeInOrder
        <5>2. k \in Int /\ i \in 1 .. k /\ j \in 1 .. k
              /\ i + 1 \notin 1 .. k /\ j + 1 \notin 1 .. k
          BY <4>2, <4>3, <5>1, PaymentAssumption
        <5> QED
          BY <5>2
      <4>5. order'.payment = ev.status
        BY <2>1, <3>5 DEF OrderAfter, Paid, Order
      <4> QED
        BY <4>1, <4>3, <4>4, <4>5 DEF TransitionAllowed
    <3> QED
      BY <3>1, <3>3, <3>4, <3>5 DEF Projects
  <2> QED
    BY <2>2, <2>3, <2>4, StepKinds DEF ClaimPayment, SquareMoves, Settled
<1> QED
  BY <1>1, FinalInductive, PTL DEF Spec, PaidOrderStands, Stands
-----------------------------------------------------------------------------
(* The promise.  What it needs beside Final: what rows and facts say of      *)
(* each other, and that an order which gave up its units stays refused.      *)

FactsAreSingle ==
    \A e, f \in events : e.payment = f.payment /\ e.at = f.at => e = f

\* What is refunded was paid.
RefundsTold ==
    \A e \in events : e.status \in {"refund_pending", "refunded"} =>
        \E f \in events : f.payment = e.payment /\ f.status = "paid"

\* The row of a fact names the attempt the fact is about, so that a webhook
\* that comes again finds its own row and no other.
RowsKnown == \A r \in rows : r[1] = Doubt \/ r[1].payment = r[2]

\* A late worker may put a released order in doubt, but no attempt of it can be
\* told anything newer than its refusal.
ReleasedIsRefused ==
    order.released =>
        /\ \/ order.status = "expired" /\ order.payment \in {"not_started"} \cup Settled
           \/ order.status = "attention_required" /\ order.payment = "indeterminate"
        /\ \A i \in Made :
              /\ att[i].status \in Settled \cup {"indeterminate"}
              /\ pay[i].status \in Settled
              /\ att[i].seen = pay[i].at

Kept == FactsAreSingle /\ RefundsTold /\ RowsKnown /\ ReleasedIsRefused

\* A step that leaves the order, the payments, and what counts of the attempts.
Still ==
    /\ UNCHANGED <<order, pay, events>>
    /\ \A j \in Attempts : /\ att'[j].status = att[j].status /\ att'[j].seen = att[j].seen
                           /\ att'[j].review = att[j].review

LEMMA WebhookFindsItsRow ==
    ASSUME Inductive, RowsKnown, NEW h \in hooks, ProjectWebhook(h[1], h[2])
    PROVE  Still \/ SomeProjection
<1> DEFINE e == h[1]
           i == h[2]
<1>1. /\ e \in events /\ e.payment = i /\ i \in Made /\ i \in Attempts /\ e \in Evidence
      /\ e.payment # 0 /\ UNCHANGED <<pay, events>>
  BY DEF Inductive, TypeOK, HooksKnown, EventsKnown, Made, Attempts, ProjectWebhook
<1> HIDE DEF e, i
<1>2. \A j \in Attempts : <<e, j>> \in rows => j = i
  BY <1>1 DEF RowsKnown, Doubt
<1>3. CASE UNCHANGED <<att, order>>
  BY <1>1, <1>3 DEF Still
<1>4. CASE Projects(i, e, FALSE)
  BY <1>1, <1>4 DEF SomeProjection, About
<1> QED
  BY <1>2, <1>3, <1>4 DEF ProjectWebhook, e, i

LEMMA StillSteps ==
    ASSUME Inductive,
           \/ \E i \in Attempts : ClaimReconciliation(i) \/ ClaimTimesOut(i)
           \/ \E c \in calls : Retrieve(c) \/ WorkerCrashes(c)
           \/ \E e \in events : Resolve(e)
           \/ \E h \in hooks : WebhookFails(h[1], h[2])
           \/ WindowCloses \/ UNCHANGED vars
    PROVE  Still
<1>1. att \in [Attempts -> Attempt] /\ order \in Order
  BY DEF Inductive, TypeOK
<1>2. CASE UNCHANGED <<att, order, pay, events>>
  BY <1>2 DEF Still
<1>3. CASE \E i \in Attempts : ClaimReconciliation(i) \/ ClaimTimesOut(i)
  <2>1. PICK i \in Attempts : ClaimReconciliation(i) \/ ClaimTimesOut(i)
    BY <1>3
  <2>2. /\ att[i] \in Attempt /\ UNCHANGED <<pay, events, order>>
        /\ \/ att' = [att EXCEPT ![i] = Claimed(att[i], "reconcile")]
           \/ att' = [att EXCEPT ![i] = [att[i] EXCEPT !.live = FALSE]]
    BY <1>1, <2>1 DEF ClaimReconciliation, ClaimTimesOut
  <2>3. PICK b : /\ att' = [att EXCEPT ![i] = b] /\ b.status = att[i].status
                 /\ b.seen = att[i].seen /\ b.review = att[i].review
    <3>1. CASE att' = [att EXCEPT ![i] = Claimed(att[i], "reconcile")]
      <4>1. /\ Claimed(att[i], "reconcile").status = att[i].status
            /\ Claimed(att[i], "reconcile").seen = att[i].seen
            /\ Claimed(att[i], "reconcile").review = att[i].review
        BY <2>2 DEF Claimed, Attempt
      <4> QED
        BY <3>1, <4>1
    <3>2. CASE att' = [att EXCEPT ![i] = [att[i] EXCEPT !.live = FALSE]]
      <4> DEFINE b == [att[i] EXCEPT !.live = FALSE]
      <4>1. b.status = att[i].status /\ b.seen = att[i].seen /\ b.review = att[i].review
        BY <2>2 DEF Attempt
      <4> QED
        BY <3>2, <4>1
    <3> QED
      BY <2>2, <3>1, <3>2
  <2>4. \A j \in Attempts : /\ att'[j].status = att[j].status /\ att'[j].seen = att[j].seen
                              /\ att'[j].review = att[j].review
    BY <1>1, <2>3
  <2> QED
    BY <2>2, <2>4 DEF Still
<1> QED
  BY <1>2, <1>3 DEF Retrieve, WorkerCrashes, Resolve, WebhookFails, WindowCloses, vars

LEMMA RepliesStill ==
    ASSUME Inductive, NEW c \in calls, ProjectDelivery(c) \/ ProjectReconciliation(c)
    PROVE  Still \/ SomeProjection
<1>1. UNCHANGED <<pay, events>>
  BY DEF ProjectDelivery, ProjectReconciliation
<1>2. CASE UNCHANGED <<att, order>>
  BY <1>1, <1>2 DEF Still
<1>3. CASE ~UNCHANGED <<att, order>>
  <2>1. c.attempt \in Made /\ c \in Call
    BY DEF Inductive, TypeOK, CallsKnown, CallKnown
  <2>2. CASE ProjectDelivery(c)
    <3>1. PICK ev \in {e \in events : e.payment = c.attempt /\ e.at = 1} \cup {Doubt} :
            Projects(c.attempt, ev, TRUE)
      BY <1>3, <2>2 DEF ProjectDelivery
    <3>2. About(c.attempt, ev) /\ ev \in Evidence
      BY EvidenceFits DEF About, Inductive, TypeOK
    <3> QED
      BY <1>1, <2>1, <3>1, <3>2 DEF SomeProjection
  <2>3. CASE ProjectReconciliation(c)
    <3>1. Projects(c.attempt, c.reply, TRUE)
      BY <1>3, <2>3 DEF ProjectReconciliation
    <3>2. About(c.attempt, c.reply) /\ c.reply \in Evidence
      BY <2>1, <2>3 DEF ProjectReconciliation, Inductive, CallsKnown, CallKnown, About, Call
    <3> QED
      BY <1>1, <2>1, <3>1, <3>2 DEF SomeProjection
  <2> QED
    BY <2>2, <2>3
<1> QED
  BY <1>2, <1>3

LEMMA StepKindsOfOrder ==
    ASSUME Inductive, RowsKnown, [Next]_vars
    PROVE  \/ ClaimPayment \/ Still \/ SomeProjection
           \/ \E i \in Attempts : ReplayInitiate(i) \/ LeaveToOperator(i)
           \/ \E i \in Attempts : SquareMoves(i)
           \/ OrderLapses \/ ExpireAbandonedOrder
BY RepliesStill, WebhookFindsItsRow, StillSteps DEF Next

\* A new fact of a payment is newer than all others, and a refund follows a
\* completed payment.
LEMMA SquareMovesKept ==
    ASSUME Inductive, Final, Kept, RefusalsAreFinal, NEW i \in Attempts, SquareMoves(i)
    PROVE  Kept'
<1>1. PICK s \in ProviderStatus :
        /\ <<pay[i].status, s>> \in Moves
        /\ LET now == pay[i].at + 1
               refund == s \in {"refund_pending", "refunded"}
                           \/ pay[i].status = "refund_pending"
           IN  /\ pay' = [pay EXCEPT ![i] =
                      [status |-> s, at |-> now,
                       charged |-> IF refund THEN pay[i].charged ELSE now]]
               /\ events' = events \cup {[payment |-> i, status |-> s, at |-> now,
                                          matched |-> TRUE]}
  BY DEF SquareMoves
<1> DEFINE now == pay[i].at + 1
           new == [payment |-> i, status |-> s, at |-> now, matched |-> TRUE]
<1>2. /\ UNCHANGED <<att, order, rows>> /\ i \in Made /\ events' = events \cup {new}
      /\ pay[i].status \notin Settled /\ pay[i].at \in Int
  BY <1>1, PaymentAssumption
     DEF SquareMoves, Inductive, TypeOK, RefusalsAreFinal, Payment
<1>3. new.payment = i /\ new.status = s /\ new.at = now
  OBVIOUS
<1> HIDE DEF new
<1>4. \A e \in events : e.payment = i => e.at # now
  <2> SUFFICES ASSUME NEW e \in events, e.payment = i, e.at = now PROVE FALSE
    OBVIOUS
  <2>1. e.at <= pay[i].at /\ e.at = pay[i].at + 1
    BY DEF Final, EventsInTime
  <2> QED
    BY <1>2, <2>1
<1>5. FactsAreSingle'
  BY <1>2, <1>3, <1>4 DEF Kept, FactsAreSingle
<1>6. RefundsTold'
  <2>1. s \in {"refund_pending", "refunded"} => \E f \in events : f.payment = i /\ f.status = "paid"
    <3> SUFFICES ASSUME s \in {"refund_pending", "refunded"}
                 PROVE  \E f \in events : f.payment = i /\ f.status = "paid"
      OBVIOUS
    <3> DEFINE told == [payment |-> i, at |-> pay[i].charged, matched |-> TRUE, status |-> "paid"]
    <3>1. pay[i].status \in {"paid", "refund_pending"}
      BY <1>1, PaymentAssumption
    <3>2. told \in events
      BY <3>1 DEF Inductive, ChargeTold
    <3>3. told.payment = i /\ told.status = "paid"
      OBVIOUS
    <3> HIDE DEF told
    <3> QED
      BY <3>2, <3>3
  <2> QED
    BY <1>2, <1>3, <2>1 DEF Kept, RefundsTold
<1>7. RowsKnown'
  BY <1>2 DEF Kept, RowsKnown
<1>8. ReleasedIsRefused'
  BY <1>2 DEF Kept, ReleasedIsRefused, Made
<1> QED
  BY <1>5, <1>6, <1>7, <1>8 DEF Kept

\* Only a worker's doubt and a webhook's fact make rows.
LEMMA RowsStep ==
    ASSUME Inductive, RowsKnown, [Next]_vars
    PROVE  RowsKnown'
<1>1. CASE UNCHANGED rows
  BY <1>1 DEF RowsKnown
<1>2. ASSUME NEW c \in calls, ProjectReconciliation(c)
      PROVE  RowsKnown'
  <2> DEFINE row == <<Doubt, c.attempt>>
  <2>1. rows' \subseteq rows \cup {row}
    BY <1>2 DEF ProjectReconciliation
  <2>2. row[1] = Doubt
    OBVIOUS
  <2> HIDE DEF row
  <2> QED
    BY <2>1, <2>2 DEF RowsKnown
<1>3. ASSUME NEW h \in hooks, ProjectWebhook(h[1], h[2])
      PROVE  RowsKnown'
  <2> DEFINE row == <<h[1], h[2]>>
  <2>1. rows' \subseteq rows \cup {row}
    BY <1>3 DEF ProjectWebhook
  <2>2. row[1] = h[1] /\ row[2] = h[2] /\ h[1].payment = h[2]
    BY DEF Inductive, HooksKnown
  <2> HIDE DEF row
  <2> QED
    BY <2>1, <2>2 DEF RowsKnown
<1> QED
  BY <1>1, <1>2, <1>3 DEF Next, ClaimPayment, ReplayInitiate, ClaimReconciliation,
     LeaveToOperator, ProjectDelivery, Retrieve, WorkerCrashes, Resolve, WebhookFails,
     SquareMoves, ClaimTimesOut, WindowCloses, OrderLapses, ExpireAbandonedOrder, vars

\* No fact is news to a released order, and none contradicts it.
LEMMA NoNewsOfReleased ==
    ASSUME Inductive, Final, Kept, order.released, NEW i \in Made, NEW ev, About(i, ev)
    PROVE  /\ Verdict(i, ev) \in {"mismatch", "stale", "duplicate", "conflict"}
           /\ Verdict(i, ev) = "conflict" => att[i].status = "indeterminate"
<1>1. /\ att[i] \in Attempt /\ ev \in Evidence /\ pay[i] \in Payment
      /\ att[i].seen \in Int /\ ev.at \in Int /\ pay[i].at \in Int
  BY PaymentAssumption DEF Inductive, TypeOK, Made, About, Attempt, Evidence, Payment
<1>2. /\ att[i].status \in Settled \cup {"indeterminate"}
      /\ pay[i].status \in Settled /\ att[i].seen = pay[i].at
  BY DEF Kept, ReleasedIsRefused
<1>3. Verdict(i, ev) \in {"mismatch", "stale", "duplicate", "conflict", "contested", "applied"}
  BY DEF Verdict
<1>4. CASE Verdict(i, ev) \in {"conflict", "contested", "applied"}
  <2>1. Identified(i, ev) /\ ev.at >= att[i].seen
    BY <1>1, <1>4 DEF Verdict
  <2>2. ev \in events /\ ev.payment = i
    BY <2>1 DEF Identified, About, Doubt
  <2>3. ev.at <= pay[i].at
    BY <2>2 DEF Final, EventsInTime
  <2>4. ev.at = att[i].seen
    BY <1>1, <1>2, <2>1, <2>3
  <2>5. Verdict(i, ev) = "conflict" /\ ev.status # att[i].status
    BY <1>4, <2>1, <2>4 DEF Verdict
  <2>6. ASSUME att[i].status \in Settled PROVE FALSE
    <3> DEFINE fact == [payment |-> i, status |-> att[i].status, at |-> att[i].seen,
                        matched |-> TRUE]
    <3>1. fact \in events
      BY <2>6 DEF Inductive, AttemptsAreProved, Settled
    <3>2. fact.payment = i /\ fact.at = att[i].seen /\ fact.status = att[i].status
      OBVIOUS
    <3> HIDE DEF fact
    <3>3. fact = ev
      BY <2>2, <2>4, <3>1, <3>2 DEF Kept, FactsAreSingle
    <3> QED
      BY <2>5, <3>2, <3>3
  <2> QED
    BY <1>2, <2>5, <2>6
<1> QED
  BY <1>3, <1>4

LEMMA ReleasedProjection ==
    ASSUME Inductive, Final, Kept, order.released, NEW i \in Made, NEW ev, About(i, ev),
           NEW byWorker \in BOOLEAN, Projects(i, ev, byWorker), UNCHANGED <<pay, events>>
    PROVE  ReleasedIsRefused'
<1> DEFINE b == AttemptAfter(i, ev, byWorker)
           v == Verdict(i, ev)
<1>1. /\ i \in Attempts /\ att[i] \in Attempt /\ att \in [Attempts -> Attempt]
      /\ order \in Order
  BY DEF Inductive, TypeOK, Made
<1>2. CASE UNCHANGED <<att, order>>
  BY <1>2 DEF Kept, ReleasedIsRefused, Made
<1>3. CASE att' = AttAfter(i, ev, byWorker) /\ order' = OrderAfter(i, ev)
  <2>1. att'[i] = b /\ \A j \in Attempts \ {i} : att'[j] = att[j]
    BY <1>1, <1>3 DEF AttAfter
  <2>2. /\ v \in {"mismatch", "stale", "duplicate", "conflict"}
        /\ v = "conflict" => att[i].status = "indeterminate"
    BY NoNewsOfReleased
  <2>3. b.seen = att[i].seen /\ b.status \in {att[i].status, "indeterminate"}
    BY <2>2, AttemptAfterCases
  <2> HIDE DEF b
  <2>4. Made' = Made
    BY <1>3, ProjectsKeep
  <2>5. \A j \in Made' : /\ att'[j].status \in Settled \cup {"indeterminate"}
                         /\ pay'[j].status \in Settled /\ att'[j].seen = pay'[j].at
    BY <2>1, <2>3, <2>4 DEF Kept, ReleasedIsRefused, Made
  <2>6. \/ order'.status = "expired" /\ order'.payment \in {"not_started"} \cup Settled
        \/ order'.status = "attention_required" /\ order'.payment = "indeterminate"
    <3>1. \/ order.status = "expired" /\ order.payment \in {"not_started"} \cup Settled
          \/ order.status = "attention_required" /\ order.payment = "indeterminate"
      BY DEF Kept, ReleasedIsRefused
    <3>2. CASE v \in {"stale", "duplicate"}
      BY <1>3, <3>1, <3>2 DEF OrderAfter
    <3>3. CASE v = "conflict"
      <4>1. order' = [order EXCEPT !.status = "attention_required"]
        BY <1>3, <3>3 DEF OrderAfter
      <4>2. order.payment \notin {"not_started"} \cup Settled
        BY <2>2, <3>3 DEF Final, RefusedOrder, Settled
      <4> QED
        BY <1>1, <3>1, <4>1, <4>2 DEF Order
    <3>4. CASE v = "mismatch"
      <4>1. order' = Paid(order, "attention_required", "indeterminate")
        BY <1>3, <3>1, <3>4 DEF OrderAfter, Settled
      <4> QED
        BY <1>1, <4>1 DEF Paid, Order
    <3> QED
      BY <2>2, <3>2, <3>3, <3>4
  <2> QED
    BY <2>5, <2>6 DEF ReleasedIsRefused
<1> QED
  BY <1>2, <1>3 DEF Projects

LEMMA ReleasedKeeps ==
    ASSUME Inductive, Final, Kept, RefusalsAreFinal, [Next]_vars
    PROVE  ReleasedIsRefused'
<1>1. order \in Order /\ att \in [Attempts -> Attempt]
  BY DEF Inductive, TypeOK
<1>2. CASE ClaimPayment
  <2>1. order'.released = order.released
    BY <1>1, <1>2 DEF ClaimPayment, Paid, Order
  <2>2. ~order.released
    BY <1>2 DEF ClaimPayment, Kept, ReleasedIsRefused, Settled
  <2> QED
    BY <2>1, <2>2 DEF ReleasedIsRefused
<1>3. CASE Still
  <2>1. Made' = Made /\ UNCHANGED <<order, pay>>
    BY <1>3 DEF Still, Made
  <2> QED
    BY <1>3, <2>1 DEF Still, Kept, ReleasedIsRefused, Made
<1>4. CASE SomeProjection
  <2>1. PICK i \in Made, ev \in Evidence, byWorker \in BOOLEAN :
          About(i, ev) /\ Projects(i, ev, byWorker)
    BY <1>4 DEF SomeProjection
  <2>2. order'.released = order.released
    <3>1. Verdict(i, ev) \in {"mismatch", "stale", "duplicate", "conflict", "contested",
                              "applied"}
      BY DEF Verdict
    <3> QED
      BY <1>1, <2>1, <3>1 DEF Projects, OrderAfter, Paid, Order
  <2>3. CASE order.released
    BY <1>4, <2>1, <2>3, ReleasedProjection DEF SomeProjection
  <2> QED
    BY <2>2, <2>3 DEF ReleasedIsRefused
<1>5. ASSUME NEW i \in Attempts, ReplayInitiate(i) \/ LeaveToOperator(i)
      PROVE  ReleasedIsRefused'
  <2> DEFINE b == Unclaimed([att[i] EXCEPT !.status = "indeterminate", !.review = TRUE])
  <2>1. att[i] \in Attempt /\ i \in Made /\ UNCHANGED pay
    BY <1>1, <1>5 DEF Made, ReplayInitiate, LeaveToOperator, Unresolved
  <2>2. b.status = "indeterminate" /\ b.seen = att[i].seen
    BY <2>1 DEF Unclaimed, Attempt
  <2> HIDE DEF b
  <2>3. att'[i] = b /\ \A j \in Attempts \ {i} : att'[j] = att[j]
    BY <1>1, <1>5 DEF ReplayInitiate, LeaveToOperator, b
  <2>4. Made' = Made
    BY <2>1, <2>2, <2>3 DEF Made
  <2>5. \/ order' = Paid(order, "attention_required", "indeterminate")
        \/ order' = order /\ order.payment = "indeterminate"
    BY <1>5 DEF ReplayInitiate, LeaveToOperator
  <2>6. /\ order'.released = order.released
        /\ order.released => /\ order'.status = "attention_required"
                             /\ order'.payment = "indeterminate"
    BY <1>1, <2>5 DEF Paid, Order, Kept, ReleasedIsRefused, Settled
  <2> QED
    BY <2>1, <2>2, <2>3, <2>4, <2>6 DEF Kept, ReleasedIsRefused, Made
<1>6. ASSUME NEW i \in Attempts, SquareMoves(i)
      PROVE  ReleasedIsRefused'
  BY <1>6, SquareMovesKept DEF Kept
<1>7. CASE OrderLapses
  BY <1>1, <1>7 DEF OrderLapses, Order, Kept, ReleasedIsRefused, Made
<1>8. CASE ExpireAbandonedOrder
  <2>1. \A i \in Made : /\ att[i].status \in Settled /\ pay[i].status \in Settled
                        /\ att[i].seen = pay[i].at
    BY <1>8, RefusedKnowsAll DEF ExpireAbandonedOrder
  <2>2. /\ UNCHANGED <<att, pay>> /\ order'.status = "expired"
        /\ order'.payment \in {"not_started"} \cup Settled
    BY <1>1, <1>8 DEF ExpireAbandonedOrder, Order
  <2> QED
    BY <2>1, <2>2 DEF ReleasedIsRefused, Made
<1> QED
  BY <1>2, <1>3, <1>4, <1>5, <1>6, <1>7, <1>8, StepKindsOfOrder DEF Kept

LEMMA KeptKeeps ==
    ASSUME Inductive, Final, Kept, RefusalsAreFinal, [Next]_vars
    PROVE  Kept'
<1>1. CASE UNCHANGED events
  BY <1>1, ReleasedKeeps, RowsStep DEF Kept, FactsAreSingle, RefundsTold
<1>2. CASE \E i \in Attempts : SquareMoves(i)
  BY <1>2, SquareMovesKept
<1> QED
  BY <1>1, <1>2, StepKinds DEF ClaimPayment, Quiet, SomeProjection, ReplayInitiate,
     LeaveToOperator

LEMMA KeptInductive == RefusalsAreFinal /\ Spec => [](Inductive /\ Final /\ Kept)
<1>1. Init => Kept
  BY DEF Init, Kept, FactsAreSingle, RefundsTold, RowsKnown, ReleasedIsRefused
<1>2. RefusalsAreFinal /\ Inductive /\ Final /\ Kept /\ [Next]_vars => Kept'
  BY KeptKeeps
<1>3. RefusalsAreFinal => RefusalsAreFinal'
  BY DEF RefusalsAreFinal
<1>4. RefusalsAreFinal => []RefusalsAreFinal
  BY <1>3, PTL
<1> QED
  BY <1>1, <1>2, <1>4, FinalInductive, PTL DEF Spec

\* What capacity sees of an order tells what Square has of it.
LEMMA StageTells ==
    ASSUME Inductive, Final, Kept
    PROVE  /\ Stage \in {"unpaid", "exposed", "expired"}
           /\ Stage = "expired" <=> order.released
           /\ Stage # "exposed" => /\ order.status # "confirmed"
                                   /\ \A i \in Made : pay[i].status \in Settled
                                   /\ ChargedOnes = {}
           /\ Stage = "unpaid" => order.status = "awaiting_payment"
<1>1. Stage = "expired" <=> order.released
  BY DEF Stage
<1>2. Stage = "unpaid" => /\ order.status = "awaiting_payment"
                          /\ \A i \in Made : att[i].status \in Settled
  BY DEF Stage
<1>3. Stage # "exposed" => \A i \in Made : pay[i].status \in Settled
  <2>1. CASE Stage = "unpaid"
    BY <1>2, <2>1, RefusedKnowsAll
  <2>2. CASE Stage = "expired"
    BY <1>1, <2>2 DEF Kept, ReleasedIsRefused
  <2> QED
    BY <2>1, <2>2 DEF Stage
<1>4. Stage # "exposed" => ChargedOnes = {}
  BY <1>3, ChargedIsMade DEF ChargedOnes, Money, Settled
<1>5. Stage # "exposed" => order.status # "confirmed"
  BY <1>1, <1>2 DEF Stage, Kept, ReleasedIsRefused
<1> QED
  BY <1>1, <1>2, <1>3, <1>4, <1>5 DEF Stage

LEMMA OneCharged ==
    ASSUME Inductive, Final, NEW i \in ChargedOnes, NEW j \in ChargedOnes
    PROVE  i = j
<1>1. \A k \in ChargedOnes : k \in Made /\ k + 1 \notin Made
  BY ChargedIsMade DEF Final, OlderAreRefused, ChargedOnes, Money, Settled
<1>2. PICK k \in 0 .. MaxAttempts : Made = 1 .. k
  BY DEF Inductive, MadeInOrder
<1>3. /\ i \in 1 .. k /\ i + 1 \notin 1 .. k /\ j \in 1 .. k /\ j + 1 \notin 1 .. k
      /\ k \in Int
  BY <1>1, <1>2, PaymentAssumption
<1> QED
  BY <1>3

\* A confirmed order was paid, as Square told.
LEMMA ConfirmedTold ==
    ASSUME Inductive, Kept, order.status = "confirmed"
    PROVE  CompletedOnes # {}
<1>1. PICK i \in Made : att[i].status \in {"paid", "refund_pending", "refunded"}
  BY DEF Inductive, ConfirmedIsPaid
<1> DEFINE fact == [payment |-> i, status |-> att[i].status, at |-> att[i].seen,
                    matched |-> TRUE]
<1>2. fact \in events
  BY <1>1 DEF Inductive, AttemptsAreProved
<1>3. fact.payment = i /\ fact.status = att[i].status
  OBVIOUS
<1> HIDE DEF fact
<1>4. \E e \in events : e.payment = i /\ e.status = "paid"
  BY <1>1, <1>2, <1>3 DEF Kept, RefundsTold
<1> QED
  BY <1>4 DEF CompletedOnes, Made

\* The three together, of a state and of the one after it.
Footing ==
    /\ Stage \in {"unpaid", "exposed", "expired"}
    /\ Stage = "expired" <=> order.released
    /\ Stage # "exposed" => order.status # "confirmed" /\ ChargedOnes = {}
    /\ Stage = "unpaid" => order.status = "awaiting_payment"
    /\ order.status = "confirmed" => CompletedOnes # {}
    /\ \A i, j \in ChargedOnes : i = j

LEMMA FootingHolds == Inductive /\ Final /\ Kept => Footing
<1> SUFFICES ASSUME Inductive, Final, Kept PROVE Footing
  OBVIOUS
<1>1. /\ Stage \in {"unpaid", "exposed", "expired"}
      /\ Stage = "expired" <=> order.released
      /\ Stage # "exposed" => order.status # "confirmed" /\ ChargedOnes = {}
      /\ Stage = "unpaid" => order.status = "awaiting_payment"
  BY StageTells
<1>2. order.status = "confirmed" => CompletedOnes # {}
  BY ConfirmedTold
<1>3. \A i, j \in ChargedOnes : i = j
  BY OneCharged
<1> QED
  BY <1>1, <1>2, <1>3 DEF Footing

LEMMA FootingNext == (Inductive /\ Final /\ Kept)' => Footing'
BY FootingHolds, PTL

\* A step that leaves Square, the deadline and the release alone is a step of the
\* promise, unless it confirms an order whose units are free or frees those of a
\* confirmed one.
LEMMA RowsMap ==
    ASSUME Inductive, Final, Kept, Inductive', Final', Kept',
           UNCHANGED <<pay, events>>, order'.lapsed = order.lapsed,
           order'.released = order.released,
           order.status = "confirmed" => order'.status # "awaiting_payment",
           order.status = "awaiting_payment" /\ Stage = "unpaid" =>
               order'.status # "confirmed"
    PROVE  [Promise!Next]_(Promise!pvars)
<1>1. ChargedOnes' = ChargedOnes /\ CompletedOnes' = CompletedOnes
  BY DEF ChargedOnes, CompletedOnes
<1>2. Footing
  BY FootingHolds
<1>3. Footing'
  BY FootingNext
<1>6. CASE Stage = Stage' /\ (order.status = "confirmed" <=> order'.status = "confirmed")
  BY <1>1, <1>6 DEF Promise!pvars
<1>7. CASE Stage = Stage' /\ order.status # "confirmed" /\ order'.status = "confirmed"
  <2>1. Promise!Confirm
    BY <1>1, <1>3, <1>7 DEF Footing, Promise!Confirm
  <2> QED
    BY <2>1 DEF Promise!Next
<1>8. CASE Stage = Stage' /\ order.status = "confirmed" /\ order'.status # "confirmed"
  <2>1. Promise!Withdraw
    BY <1>1, <1>8 DEF Promise!Withdraw
  <2> QED
    BY <2>1 DEF Promise!Next
<1>9. CASE Stage = "unpaid" /\ Stage' = "exposed"
  <2>1. Promise!Expose
    BY <1>1, <1>2, <1>3, <1>9 DEF Footing, Promise!Expose
  <2> QED
    BY <2>1 DEF Promise!Next
<1>10. CASE Stage = "exposed" /\ Stage' = "unpaid"
  <2>1. Promise!Settle
    BY <1>1, <1>2, <1>3, <1>10 DEF Footing, Promise!Settle
  <2> QED
    BY <2>1 DEF Promise!Next
<1> QED
  BY <1>2, <1>3, <1>6, <1>7, <1>8, <1>9, <1>10 DEF Footing

\* A projection neither confirms an order with no attempt under way nor takes a
\* confirmed one for unpaid: the only attempt that can be told anything is paid
\* in the one, and there is none in the other.
LEMMA ProjectionsDoNotLeap ==
    ASSUME Inductive, Final, Kept, SomeProjection
    PROVE  /\ order'.lapsed = order.lapsed /\ order'.released = order.released
           /\ order.status = "confirmed" => order'.status # "awaiting_payment"
           /\ order.status = "awaiting_payment" /\ Stage = "unpaid" =>
                  order'.status # "confirmed"
<1>1. PICK i \in Made, ev \in Evidence, byWorker \in BOOLEAN :
        About(i, ev) /\ Projects(i, ev, byWorker)
  BY DEF SomeProjection
<1> DEFINE v == Verdict(i, ev)
<1>2. /\ order \in Order
      /\ v \in {"mismatch", "stale", "duplicate", "conflict", "contested", "applied"}
  BY DEF Inductive, TypeOK, Verdict
<1>3. CASE UNCHANGED order
  BY <1>3
<1>4. CASE order' = OrderAfter(i, ev) /\ v # "applied"
  BY <1>2, <1>4 DEF OrderAfter, Paid, Order
<1>5. CASE order' = OrderAfter(i, ev) /\ v = "applied"
  <2>1. /\ ev \in events /\ ev.payment = i /\ ev.at > att[i].seen
        /\ TransitionAllowed(att[i].status, ev.status)
    BY <1>1, <1>5, AttemptAfterCases
  <2>2. i + 1 \notin Made /\ att[i].status \notin Settled
    BY <2>1, AppliedToNewest
  <2>3. order' = Paid(order, StatusFor(ev.status), ev.status)
    BY <1>5 DEF OrderAfter
  <2>4. /\ order'.lapsed = order.lapsed /\ order'.released = order.released
        /\ order'.status \in {StatusFor(ev.status), "attention_required"}
    BY <1>2, <2>3 DEF Paid, Order
  <2>5. Stage # "unpaid"
    BY <2>2 DEF Stage
  <2>6. ASSUME order.status = "confirmed" PROVE order'.status # "awaiting_payment"
    <3>1. PICK j \in Made : att[j].status \in {"paid", "refund_pending", "refunded"}
      BY <2>6 DEF Inductive, ConfirmedIsPaid
    <3>2. j + 1 \notin Made
      BY <3>1 DEF Final, OlderAreRefused, Settled
    <3>3. i = j
      <4>1. PICK k \in 0 .. MaxAttempts : Made = 1 .. k
        BY DEF Inductive, MadeInOrder
      <4>2. k \in Int /\ i \in 1 .. k /\ j \in 1 .. k
            /\ i + 1 \notin 1 .. k /\ j + 1 \notin 1 .. k
        BY <2>2, <3>2, <4>1, PaymentAssumption
      <4> QED
        BY <4>2
    <3>4. ev.status \in {"paid", "refund_pending", "refunded", "indeterminate"}
      BY <2>1, <3>1, <3>3 DEF TransitionAllowed
    <3>5. StatusFor(ev.status) # "awaiting_payment"
      BY <2>6, <3>4 DEF StatusFor, Settled
    <3> QED
      BY <2>4, <3>5
  <2> QED
    BY <2>4, <2>5, <2>6
<1> QED
  BY <1>1, <1>3, <1>4, <1>5 DEF Projects

\* Square moves only the payment of an order that capacity holds to be exposed.
LEMMA SquareMovesMap ==
    ASSUME Inductive, Final, Kept, RefusalsAreFinal, Inductive', Final', Kept',
           NEW i \in Attempts, SquareMoves(i)
    PROVE  [Promise!Next]_(Promise!pvars)
<1>1. PICK s \in ProviderStatus :
        /\ <<pay[i].status, s>> \in Moves
        /\ LET now == pay[i].at + 1
               refund == s \in {"refund_pending", "refunded"}
                           \/ pay[i].status = "refund_pending"
           IN  /\ pay' = [pay EXCEPT ![i] =
                      [status |-> s, at |-> now,
                       charged |-> IF refund THEN pay[i].charged ELSE now]]
               /\ events' = events \cup {[payment |-> i, status |-> s, at |-> now,
                                          matched |-> TRUE]}
  BY DEF SquareMoves
<1> DEFINE new == [payment |-> i, status |-> s, at |-> pay[i].at + 1, matched |-> TRUE]
<1>2. /\ UNCHANGED <<att, order>> /\ i \in Made /\ events' = events \cup {new}
      /\ pay[i].status \notin Settled /\ pay'[i].status = s
      /\ \A j \in Attempts \ {i} : pay'[j] = pay[j]
  BY <1>1 DEF SquareMoves, Inductive, TypeOK, RefusalsAreFinal
<1>3. new.payment = i /\ new.status = s
  OBVIOUS
<1> HIDE DEF new
<1>4. Stage = "exposed" /\ Stage' = Stage
  <2>1. Stage' = Stage
    BY <1>2 DEF Stage, Made
  <2> QED
    BY <1>2, <2>1, StageTells
<1>5. CompletedOnes' = IF s = "paid" THEN CompletedOnes \cup {i} ELSE CompletedOnes
  BY <1>2, <1>3 DEF CompletedOnes
<1>6. ChargedOnes' \ {i} = ChargedOnes \ {i} /\ (i \in ChargedOnes' <=> s \in Money)
  BY <1>2 DEF ChargedOnes
<1>7. CASE s \in Money
  <2>1. \A j \in ChargedOnes' : j = i
    BY <1>6, <1>7, FootingNext DEF Footing
  <2>2. ChargedOnes' = {i} /\ ChargedOnes \subseteq {i}
    BY <1>6, <1>7, <2>1
  <2>3. Promise!Take(i)
    BY <1>2, <1>4, <1>5, <2>2 DEF Promise!Take
  <2> QED
    BY <2>3 DEF Promise!Next
<1>8. CASE s \notin Money
  <2>1. CompletedOnes' = CompletedOnes
    BY <1>5, <1>8 DEF Money
  <2>2. CASE ChargedOnes \subseteq {i}
    <3>1. ChargedOnes' = {}
      BY <1>6, <1>8, <2>2
    <3>2. Promise!Return
      BY <1>2, <1>4, <2>1, <3>1 DEF Promise!Return
    <3> QED
      BY <3>2 DEF Promise!Next
  <2>3. CASE ~(ChargedOnes \subseteq {i})
    <3>1. i \notin ChargedOnes
      BY <2>3, OneCharged
    <3>2. ChargedOnes' = ChargedOnes
      BY <1>6, <1>8, <3>1
    <3> QED
      BY <1>2, <1>4, <2>1, <3>2 DEF Promise!pvars
  <2> QED
    BY <2>2, <2>3
<1> QED
  BY <1>7, <1>8

LEMMA PaymentPromiseInit == Init => Promise!Init
<1> SUFFICES ASSUME Init PROVE Promise!Init
  OBVIOUS
<1>1. Made = {} /\ ChargedOnes = {} /\ CompletedOnes = {}
  BY DEF Init, Made, NoAttempt, ChargedOnes, Money, CompletedOnes
<1>2. Stage = "unpaid"
  BY <1>1 DEF Init, Stage
<1> QED
  BY <1>1, <1>2 DEF Init, Promise!Init

LEMMA PaymentPromiseNext ==
    ASSUME Inductive, Final, Kept, RefusalsAreFinal, [Next]_vars
    PROVE  [Promise!Next]_(Promise!pvars)
<1>1. Inductive' /\ Final' /\ Kept'
  BY NextKeeps, FinalKeeps, KeptKeeps
<1>2. order \in Order
  BY DEF Inductive, TypeOK
<1>3. CASE ClaimPayment
  <2>1. /\ order'.lapsed = order.lapsed /\ order'.released = order.released
        /\ order'.status \in {"payment_pending", "attention_required"}
    BY <1>2, <1>3 DEF ClaimPayment, Paid, Order
  <2> QED
    BY <1>1, <1>3, <2>1, RowsMap DEF ClaimPayment
<1>4. CASE Still
  BY <1>1, <1>4, RowsMap DEF Still
<1>5. CASE SomeProjection
  BY <1>1, <1>5, ProjectionsDoNotLeap, RowsMap DEF SomeProjection
<1>6. ASSUME NEW i \in Attempts, ReplayInitiate(i) \/ LeaveToOperator(i)
      PROVE  [Promise!Next]_(Promise!pvars)
  <2>1. /\ order'.lapsed = order.lapsed /\ order'.released = order.released
        /\ order'.status \in {order.status, "attention_required"}
        /\ UNCHANGED <<pay, events>>
    BY <1>2, <1>6 DEF ReplayInitiate, LeaveToOperator, Paid, Order
  <2> QED
    BY <1>1, <2>1, RowsMap
<1>7. ASSUME NEW i \in Attempts, SquareMoves(i)
      PROVE  [Promise!Next]_(Promise!pvars)
  BY <1>1, <1>7, SquareMovesMap
<1>8. CASE OrderLapses
  <2>1. /\ Stage' = Stage /\ order'.lapsed = TRUE /\ order'.status = order.status
        /\ ChargedOnes' = ChargedOnes /\ CompletedOnes' = CompletedOnes
    BY <1>2, <1>8 DEF OrderLapses, Order, Stage, Made, ChargedOnes, CompletedOnes
  <2>2. Promise!Lapse
    BY <2>1 DEF Promise!Lapse
  <2> QED
    BY <2>2 DEF Promise!Next
<1>9. CASE ExpireAbandonedOrder
  <2>1. Stage = "unpaid" /\ order.lapsed = TRUE
    BY <1>2, <1>9 DEF ExpireAbandonedOrder, Stage, Order
  <2>2. /\ Stage' = "expired" /\ order'.lapsed = order.lapsed
        /\ order.status # "confirmed" /\ order'.status # "confirmed"
        /\ ChargedOnes' = ChargedOnes /\ CompletedOnes' = CompletedOnes
    BY <1>2, <1>9 DEF ExpireAbandonedOrder, Order, Stage, ChargedOnes, CompletedOnes
  <2>3. Promise!Expire
    BY <2>1, <2>2 DEF Promise!Expire
  <2> QED
    BY <2>3 DEF Promise!Next
<1> QED
  BY <1>3, <1>4, <1>5, <1>6, <1>7, <1>8, <1>9, StepKindsOfOrder DEF Kept

\* With its claims, crashes, late workers and webhooks, payment implements
\* PaymentPromise as long as Square takes back no refusal: in particular Square
\* never gets money for an order that gave up its units, before or after it did.
THEOREM KeepsThePaymentPromise == RefusalsAreFinal /\ Spec => PaymentPromiseKept
<1>1. Init => Promise!Init
  BY PaymentPromiseInit
<1>2. RefusalsAreFinal /\ Inductive /\ Final /\ Kept /\ [Next]_vars
        => [Promise!Next]_(Promise!pvars)
  BY PaymentPromiseNext
<1>3. RefusalsAreFinal => RefusalsAreFinal'
  BY DEF RefusalsAreFinal
<1>4. RefusalsAreFinal => []RefusalsAreFinal
  BY <1>3, PTL
<1> QED
  BY <1>1, <1>2, <1>4, KeptInductive, PTL DEF Spec, PaymentPromiseKept, Promise!Spec
=============================================================================

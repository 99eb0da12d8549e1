-------------------------- MODULE PreorderPayment --------------------------
(***************************************************************************)
(* One preorder and its payment attempts (service preorder-operations with *)
(* square-payment-delivery and square-payment-acquisition): the claim that *)
(* precedes a charge, the call to Square, the evidence that comes back by  *)
(* the call, by reconciliation and by webhook, and the projection of that  *)
(* evidence on the attempt and on the order.                               *)
(*                                                                         *)
(* Every action on attempts and order is one database transaction (both    *)
(* rows are taken FOR UPDATE).  Between two of them a worker may crash,    *)
(* Square may move, and webhooks may arrive late, twice, out of order or   *)
(* never.  The expected order version a command carries is left out: a     *)
(* client may always read the current one and try again.                   *)
(***************************************************************************)
EXTENDS Integers, FiniteSets

CONSTANTS
    MaxAttempts,  \* bound: attempts of the order
    MaxClaims,    \* bound: claims handed to workers
    MaxTick,      \* bound: changes of one Square payment
    MaxHooks,     \* bound: webhooks between resolution and projection
    Moves         \* external: the changes a Square payment may make

ProviderStatus == {"authorized", "pending", "paid", "declined", "canceled",
                   "refund_pending", "refunded"}

ASSUME PaymentAssumption ==
    /\ MaxAttempts \in Nat /\ MaxClaims \in Nat /\ MaxTick \in Nat
    /\ MaxHooks \in Nat
    /\ Moves \subseteq (ProviderStatus \cup {"absent"}) \X ProviderStatus
    \* What is refunded was paid, and a refund that fails leaves it paid.
    /\ \A m \in Moves :
          /\ m[2] \in {"refund_pending", "refunded"} => m[1] \in {"paid", "refund_pending"}
          /\ m[1] = "refund_pending" => m[2] \in {"paid", "refund_pending", "refunded"}

VARIABLES
    att,     \* momi_preorder.payment_attempts, by attempt_number
    order,   \* momi_preorder.orders: the row of this order
    open,    \* its pickup window is enabled and before cutoff and start
    pay,     \* external: the Square payment made with the key of an attempt
    events,  \* external: the facts Square has told, or will tell, by webhook
    calls,   \* edge functions between their claim and their projection
    hooks,   \* webhooks between resolve_payment_attempt_v1 and projection
    rows,    \* momi_preorder.payment_evidence, where its key can be met again
    lost,    \* webhooks answered 'unmatched'
    claims   \* how many claims were handed out

vars == <<att, order, open, pay, events, calls, hooks, rows, lost, claims>>

-----------------------------------------------------------------------------
(* Types *)

Attempts == 1 .. MaxAttempts
Status == ProviderStatus \cup {"indeterminate"}
Unresolved == {"pending", "authorized", "indeterminate", "refund_pending"}
Settled == {"declined", "canceled"}
Money == {"authorized", "paid", "refund_pending"}

\* What Square says of a payment; "payment" 0 and "at" 0 stand for null.
Evidence == [payment : 0 .. MaxAttempts, status : Status, at : 0 .. MaxTick,
             matched : BOOLEAN]
Doubt == [payment |-> 0, status |-> "indeterminate", at |-> 0, matched |-> FALSE]
NoReply == [payment |-> 0, status |-> "pending", at |-> 0, matched |-> FALSE]

\* "provider" is provider_payment_id (0 for null), "seen" provider_updated_at,
\* "claim" claim_id (0 for null), "live" that the claim has not expired, and
\* "proved" that evidence_version is positive.
Attempt == [status : Status \cup {"none"}, provider : 0 .. MaxAttempts,
            seen : 0 .. MaxTick, claim : 0 .. MaxClaims,
            kind : {"none", "initiate", "reconcile"}, live : BOOLEAN,
            proved : BOOLEAN, review : BOOLEAN]
Order == [status : {"awaiting_payment", "payment_pending", "confirmed",
                    "attention_required", "change_pending", "expired"},
          payment : Status \cup {"not_started"},
          lapsed : BOOLEAN, released : BOOLEAN]
Call == [claim : 1 .. MaxClaims, kind : {"initiate", "reconcile"},
         attempt : Attempts, reply : Evidence]
Payment == [status : ProviderStatus \cup {"absent"}, at : 0 .. MaxTick,
            charged : 0 .. MaxTick]

TypeOK ==
    /\ att \in [Attempts -> Attempt]
    /\ order \in Order
    /\ open \in BOOLEAN
    /\ pay \in [Attempts -> Payment]
    /\ events \subseteq Evidence
    /\ calls \subseteq Call
    /\ hooks \subseteq events \X Attempts
    /\ rows \subseteq (events \cup {Doubt}) \X Attempts
    /\ lost \subseteq events
    /\ claims \in 0 .. MaxClaims

NoAttempt == [status |-> "none", provider |-> 0, seen |-> 0, claim |-> 0,
              kind |-> "none", live |-> FALSE, proved |-> FALSE, review |-> FALSE]

Init ==
    /\ att = [i \in Attempts |-> NoAttempt]
    /\ order = [status |-> "awaiting_payment", payment |-> "not_started",
                lapsed |-> FALSE, released |-> FALSE]
    /\ open = TRUE
    /\ pay = [i \in Attempts |-> [status |-> "absent", at |-> 0, charged |-> 0]]
    /\ events = {} /\ calls = {} /\ hooks = {} /\ rows = {} /\ lost = {}
    /\ claims = 0

-----------------------------------------------------------------------------
(* Rows *)

Made == {i \in Attempts : att[i].status # "none"}
UnresolvedOnes == {i \in Attempts : att[i].status \in Unresolved}
OtherUnresolved(i) == UnresolvedOnes \ {i} # {}

Unclaimed(a) == [a EXCEPT !.claim = 0, !.kind = "none", !.live = FALSE]
Claimed(a, kind) == [a EXCEPT !.claim = claims + 1, !.kind = kind, !.live = TRUE]

\* An update of the order that names payment_status goes through the trigger
\* guard_late_payment_after_capacity_release_v1.
Paid(o, status, payment) ==
    [o EXCEPT !.payment = payment,
              !.status = IF o.released /\ payment \in
                              {"pending", "authorized", "paid", "indeterminate",
                               "refund_pending"}
                         THEN "attention_required" ELSE status]

\* The constraints a transaction must leave true, or it is rolled back:
\* orders_capacity_release_consistent, payment_attempts_one_unresolved_per_order
\* and payment_attempts_provider_identity.
Consistent(a, o) ==
    /\ o.released => o.status \in {"expired", "canceled", "attention_required"}
    /\ \A i, j \in Attempts : i # j =>
          /\ ~(a[i].status \in Unresolved /\ a[j].status \in Unresolved)
          /\ a[i].provider # 0 => a[i].provider # a[j].provider

-----------------------------------------------------------------------------
(* Claims *)

\* claim_payment_attempt_v1 with a new command: the next attempt, in the state
\* that says its charge may be under way, and the worker that will ask for it.
ClaimPayment ==
    /\ claims < MaxClaims
    /\ Cardinality(Made) < MaxAttempts
    /\ open
    /\ order.status \in {"awaiting_payment", "attention_required"}
    /\ order.payment \in {"not_started"} \cup Settled
    /\ LET n == Cardinality(Made) + 1
           a == [att EXCEPT ![n] = Claimed([NoAttempt EXCEPT !.status = "pending"],
                                           "initiate")]
           o == Paid(order, "payment_pending", "pending")
       IN  /\ n > 1 => att[n - 1].status \notin Unresolved
           /\ Consistent(a, o)
           /\ att' = a /\ order' = o
           /\ calls' = calls \cup {[claim |-> claims + 1, kind |-> "initiate",
                                    attempt |-> n, reply |-> NoReply]}
    /\ claims' = claims + 1
    /\ UNCHANGED <<open, pay, events, hooks, rows, lost>>

\* Faulty: a claim that expired is taken for a refusal.
ReplayDeclines(i) ==
    /\ att[i].kind = "initiate" /\ ~att[i].live
    /\ ~att[i].proved /\ att[i].status = "pending"
    /\ att' = [att EXCEPT ![i] = Unclaimed([@ EXCEPT !.status = "declined"])]
    /\ order' = Paid(order, "awaiting_payment", "declined")
    /\ UNCHANGED <<open, pay, events, calls, hooks, rows, lost, claims>>

\* The same command again, after its claim expired without evidence.
ReplayInitiate(i) ==
    /\ att[i].kind = "initiate" /\ ~att[i].live
    /\ ~att[i].proved /\ att[i].status = "pending"
    /\ att' = [att EXCEPT ![i] = Unclaimed([@ EXCEPT !.status = "indeterminate",
                                                     !.review = TRUE])]
    /\ order' = Paid(order, "attention_required", "indeterminate")
    /\ UNCHANGED <<open, pay, events, calls, hooks, rows, lost, claims>>

\* claim_payment_reconciliation_v1: Square can only be asked about a payment
\* whose id is known.
ClaimReconciliation(i) ==
    /\ claims < MaxClaims
    /\ att[i].status \in Unresolved
    /\ ~att[i].live
    /\ att[i].provider # 0
    /\ att' = [att EXCEPT ![i] = Claimed(@, "reconcile")]
    /\ calls' = calls \cup {[claim |-> claims + 1, kind |-> "reconcile",
                             attempt |-> i, reply |-> NoReply]}
    /\ claims' = claims + 1
    /\ UNCHANGED <<order, open, pay, events, hooks, rows, lost>>

\* Otherwise the attempt is left to an operator.
LeaveToOperator(i) ==
    /\ att[i].status \in Unresolved
    /\ ~att[i].live
    /\ att[i].provider = 0
    /\ att' = [att EXCEPT ![i] = Unclaimed([@ EXCEPT !.status = "indeterminate",
                                                     !.review = TRUE])]
    /\ order' = IF order.payment = "indeterminate" THEN order
                ELSE Paid(order, "attention_required", "indeterminate")
    /\ UNCHANGED <<open, pay, events, calls, hooks, rows, lost, claims>>

-----------------------------------------------------------------------------
(* Projection: project_payment_evidence_v1 *)

\* payment_transition_allowed_v1
TransitionAllowed(from, to) ==
    \/ from = to
    \/ from = "pending" /\ to \in {"authorized", "paid", "declined", "canceled",
                                   "indeterminate"}
    \/ from = "authorized" /\ to \in {"paid", "canceled", "indeterminate"}
    \/ from = "paid" /\ to \in {"refund_pending", "refunded"}
    \/ from = "refund_pending" /\ to \in {"paid", "refunded", "indeterminate"}
    \/ from = "indeterminate"

\* The evidence is about the payment of attempt i.
Identified(i, ev) ==
    /\ ev.matched /\ ev.payment # 0 /\ ev.at # 0
    /\ att[i].provider \in {0, ev.payment}
    /\ \A j \in Attempts \ {i} : att[j].provider # ev.payment

\* Faulty: provider_updated_at is not compared.
VerdictWithoutTime(i, ev) ==
    IF ~Identified(i, ev) THEN "mismatch"
    ELSE IF ~TransitionAllowed(att[i].status, ev.status) THEN "conflict"
    ELSE IF ev.status = "paid" /\ OtherUnresolved(i) THEN "contested"
    ELSE "applied"

\* Faulty: a fact that is known already is applied again.
VerdictReapplies(i, ev) ==
    IF ~Identified(i, ev) THEN "mismatch"
    ELSE IF ev.at < att[i].seen THEN "stale"
    ELSE IF ~TransitionAllowed(att[i].status, ev.status) THEN "conflict"
    ELSE IF ev.status = "paid" /\ OtherUnresolved(i) THEN "contested"
    ELSE "applied"

Verdict(i, ev) ==
    IF ~Identified(i, ev) THEN "mismatch"
    ELSE IF ev.at < att[i].seen THEN "stale"
    ELSE IF ev.at = att[i].seen /\ ev.status = att[i].status THEN "duplicate"
    ELSE IF ev.at = att[i].seen THEN "conflict"
    ELSE IF ~TransitionAllowed(att[i].status, ev.status) THEN "conflict"
    ELSE IF ev.status = "paid" /\ OtherUnresolved(i) THEN "contested"
    ELSE "applied"

\* Faulty: provider_updated_at is not stored.
AttemptKeepsSeen(i, ev, byWorker) ==
    LET a == att[i]
        kept == IF byWorker THEN Unclaimed(a) ELSE a
    IN  CASE Verdict(i, ev) = "mismatch" ->
                [kept EXCEPT !.review = TRUE,
                     !.status = IF @ \in {"paid", "refunded"} \/ OtherUnresolved(i)
                                THEN @ ELSE "indeterminate"]
          [] Verdict(i, ev) \in {"stale", "duplicate"} -> kept
          [] Verdict(i, ev) \in {"conflict", "contested"} ->
                [Unclaimed(a) EXCEPT !.review = TRUE]
          [] Verdict(i, ev) = "applied" ->
                [kept EXCEPT !.status = ev.status, !.provider = ev.payment,
                     !.proved = TRUE, !.review = FALSE]

\* The attempt after evidence from a worker ("byWorker") or from a webhook,
\* which leaves the claim of a worker alone unless it conflicts.
AttemptAfter(i, ev, byWorker) ==
    LET a == att[i]
        kept == IF byWorker THEN Unclaimed(a) ELSE a
    IN  CASE Verdict(i, ev) = "mismatch" ->
                [kept EXCEPT !.review = TRUE,
                     !.status = IF @ \in {"paid", "refunded"} \/ OtherUnresolved(i)
                                THEN @ ELSE "indeterminate"]
          [] Verdict(i, ev) \in {"stale", "duplicate"} -> kept
          [] Verdict(i, ev) \in {"conflict", "contested"} ->
                [Unclaimed(a) EXCEPT !.review = TRUE]
          [] Verdict(i, ev) = "applied" ->
                [kept EXCEPT !.status = ev.status, !.provider = ev.payment,
                     !.seen = ev.at, !.proved = TRUE, !.review = FALSE]

\* Faulty: an order is canceled together with its payment.
StatusCanceled(status) ==
    CASE status \in {"pending", "authorized"} -> "payment_pending"
      [] status = "paid" -> "confirmed"
      [] status \in Settled -> "canceled"
      [] status \in {"indeterminate", "refunded"} -> "attention_required"
      [] status = "refund_pending" -> "change_pending"

\* Faulty: an authorization confirms the order.
StatusConfirmsEarly(status) ==
    CASE status = "pending" -> "payment_pending"
      [] status \in {"authorized", "paid"} -> "confirmed"
      [] status \in Settled -> "awaiting_payment"
      [] status \in {"indeterminate", "refunded"} -> "attention_required"
      [] status = "refund_pending" -> "change_pending"

StatusFor(status) ==
    CASE status \in {"pending", "authorized"} -> "payment_pending"
      [] status = "paid" ->
            IF order.status \in {"awaiting_payment", "payment_pending",
                                 "attention_required"}
            THEN "confirmed" ELSE order.status
      [] status \in Settled -> "awaiting_payment"
      [] status \in {"indeterminate", "refunded"} -> "attention_required"
      [] status = "refund_pending" -> "change_pending"

OrderAfter(i, ev) ==
    CASE Verdict(i, ev) = "mismatch" ->
            Paid(order, "attention_required",
                 IF order.payment \in {"paid", "refunded"}
                 THEN order.payment ELSE "indeterminate")
      [] Verdict(i, ev) \in {"stale", "duplicate"} -> order
      [] Verdict(i, ev) = "conflict" ->
            [order EXCEPT !.status = "attention_required"]
      [] Verdict(i, ev) = "contested" ->
            Paid(order, "attention_required", "indeterminate")
      [] Verdict(i, ev) = "applied" ->
            Paid(order, StatusFor(ev.status), ev.status)

AttAfter(i, ev, byWorker) == [att EXCEPT ![i] = AttemptAfter(i, ev, byWorker)]

\* The transaction commits, or a constraint turns it into an error answer.
Projects(i, ev, byWorker) ==
    LET a == AttAfter(i, ev, byWorker)
        o == OrderAfter(i, ev)
    IN  IF Consistent(a, o) THEN att' = a /\ order' = o
                            ELSE UNCHANGED <<att, order>>

-----------------------------------------------------------------------------
(* Workers *)

\* The answer of CreatePayment is the payment as it was created, and anything
\* else (a timeout, an error list, a card error without a payment, a payment
\* with other terms) is evidence of doubt.
ProjectDelivery(c) ==
    /\ c \in calls /\ c.kind = "initiate"
    /\ \E ev \in {e \in events : e.payment = c.attempt /\ e.at = 1} \cup {Doubt} :
          IF att[c.attempt].claim = c.claim
          THEN Projects(c.attempt, ev, TRUE)
          ELSE UNCHANGED <<att, order>>
    /\ calls' = calls \ {c}
    /\ UNCHANGED <<open, pay, events, hooks, rows, lost, claims>>

\* GetPayment answers with the payment as it is now, refunds left aside.
Retrieve(c) ==
    /\ c \in calls /\ c.kind = "reconcile" /\ c.reply = NoReply
    /\ LET p == pay[c.attempt] IN
       \E ev \in {Doubt, [payment |-> c.attempt, at |-> p.charged, matched |-> TRUE,
                          status |-> IF p.status \in {"refund_pending", "refunded"}
                                     THEN "paid" ELSE p.status]} :
          calls' = (calls \ {c}) \cup {[c EXCEPT !.reply = ev]}
    /\ UNCHANGED <<att, order, open, pay, events, hooks, rows, lost, claims>>

\* Without a request id, the doubt of a second retrieval has the evidence key
\* of the first: it is found as a duplicate and the claim is left to expire.
ProjectReconciliation(c) ==
    /\ c \in calls /\ c.kind = "reconcile" /\ c.reply # NoReply
    /\ \/ /\ att[c.attempt].claim = c.claim
          /\ Projects(c.attempt, c.reply, TRUE)
          /\ rows' = IF c.reply = Doubt THEN rows \cup {<<Doubt, c.attempt>>} ELSE rows
       \/ /\ \/ att[c.attempt].claim # c.claim
             \/ c.reply = Doubt /\ <<Doubt, c.attempt>> \in rows
          /\ UNCHANGED <<att, order, rows>>
    /\ calls' = calls \ {c}
    /\ UNCHANGED <<open, pay, events, hooks, lost, claims>>

WorkerCrashes(c) ==
    /\ c \in calls
    /\ calls' = calls \ {c}
    /\ UNCHANGED <<att, order, open, pay, events, hooks, rows, lost, claims>>

-----------------------------------------------------------------------------
(* Webhooks.  Square sends an event until it is answered, and may send any  *)
(* event again.                                                            *)

\* Faulty: an attempt whose delivery was lost cannot be found.
CandidatesByIdentity(e) == {i \in Attempts : att[i].provider = e.payment}

\* resolve_payment_attempt_v1, for an event with the order's own terms.
Candidates(e) ==
    {i \in Attempts : \/ att[i].provider = e.payment
                      \/ /\ att[i].provider = 0
                         /\ att[i].status \in {"pending", "authorized", "indeterminate"}}

Resolve(e) ==
    /\ \/ \E i \in Attempts :
             /\ Candidates(e) = {i}
             /\ Cardinality(hooks) < MaxHooks
             /\ hooks' = hooks \cup {<<e, i>>}
             /\ UNCHANGED lost
       \/ /\ Cardinality(Candidates(e)) # 1
          /\ lost' = lost \cup {e}
          /\ UNCHANGED hooks
    /\ UNCHANGED <<att, order, open, pay, events, calls, rows, claims>>

\* A first delivery is projected and recorded; the evidence row of a repeated
\* one is found.  A refused projection records nothing and answers 503.
ProjectWebhook(e, i) ==
    /\ <<e, i>> \in hooks
    /\ hooks' = hooks \ {<<e, i>>}
    /\ IF \E j \in Attempts : <<e, j>> \in rows
       THEN /\ IF <<e, i>> \in rows THEN UNCHANGED <<att, order>>
               ELSE /\ att' = [att EXCEPT ![i].review = TRUE]
                    /\ order' = [order EXCEPT !.status = "attention_required"]
            /\ UNCHANGED rows
       ELSE /\ Projects(i, e, FALSE)
            /\ rows' = IF Consistent(AttAfter(i, e, FALSE), OrderAfter(i, e))
                       THEN rows \cup {<<e, i>>} ELSE rows
    /\ UNCHANGED <<open, pay, events, calls, lost, claims>>

WebhookFails(e, i) ==
    /\ <<e, i>> \in hooks
    /\ hooks' = hooks \ {<<e, i>>}
    /\ UNCHANGED <<att, order, open, pay, events, calls, rows, lost, claims>>

-----------------------------------------------------------------------------
(* Square *)

\* The idempotency key is the attempt, so an attempt has one payment at most;
\* it may be made long after the worker that asked for it is gone.
SquareMoves(i) ==
    /\ i \in Made
    /\ pay[i].at < MaxTick
    /\ \E s \in ProviderStatus :
          /\ <<pay[i].status, s>> \in Moves
          /\ LET now == pay[i].at + 1
                 refund == s \in {"refund_pending", "refunded"}
                             \/ pay[i].status = "refund_pending"
             IN  /\ pay' = [pay EXCEPT ![i] =
                        [status |-> s, at |-> now,
                         charged |-> IF refund THEN pay[i].charged ELSE now]]
                 /\ events' = events \cup {[payment |-> i, status |-> s, at |-> now,
                                            matched |-> TRUE]}
    /\ UNCHANGED <<att, order, open, calls, hooks, rows, lost, claims>>

-----------------------------------------------------------------------------
(* The clock and the cron job *)

\* claim_expires_at, thirty seconds after the claim.
ClaimTimesOut(i) ==
    /\ att[i].live
    /\ att' = [att EXCEPT ![i].live = FALSE]
    /\ UNCHANGED <<order, open, pay, events, calls, hooks, rows, lost, claims>>

WindowCloses ==
    /\ open
    /\ open' = FALSE
    /\ UNCHANGED <<att, order, pay, events, calls, hooks, rows, lost, claims>>

OrderLapses ==
    /\ ~order.lapsed
    /\ order' = [order EXCEPT !.lapsed = TRUE]
    /\ UNCHANGED <<att, open, pay, events, calls, hooks, rows, lost, claims>>

\* Faulty: the deadline alone releases the units.
ExpireLapsedOrder ==
    /\ ~order.released
    /\ order.lapsed
    /\ order' = [order EXCEPT !.status = "expired", !.released = TRUE]
    /\ UNCHANGED <<att, open, pay, events, calls, hooks, rows, lost, claims>>

ExpireAbandonedOrder ==
    /\ order.status = "awaiting_payment"
    /\ order.payment \in {"not_started"} \cup Settled
    /\ \A i \in Made : att[i].status \in Settled /\ ~att[i].review
    /\ ~order.released
    /\ order.lapsed
    /\ order' = [order EXCEPT !.status = "expired", !.released = TRUE]
    /\ UNCHANGED <<att, open, pay, events, calls, hooks, rows, lost, claims>>

-----------------------------------------------------------------------------
Next ==
    \/ ClaimPayment
    \/ \E i \in Attempts : ReplayInitiate(i)
    \/ \E i \in Attempts : ClaimReconciliation(i)
    \/ \E i \in Attempts : LeaveToOperator(i)
    \/ \E c \in calls : ProjectDelivery(c)
    \/ \E c \in calls : Retrieve(c)
    \/ \E c \in calls : ProjectReconciliation(c)
    \/ \E c \in calls : WorkerCrashes(c)
    \/ \E e \in events : Resolve(e)
    \/ \E h \in hooks : ProjectWebhook(h[1], h[2])
    \/ \E h \in hooks : WebhookFails(h[1], h[2])
    \/ \E i \in Attempts : SquareMoves(i)
    \/ \E i \in Attempts : ClaimTimesOut(i)
    \/ WindowCloses
    \/ OrderLapses
    \/ ExpireAbandonedOrder

Spec == Init /\ [][Next]_vars

-----------------------------------------------------------------------------
(* Fairness.  Square sends an event again until it is answered, and not     *)
(* every one of those deliveries fails; an invocation ends, one way or the  *)
(* other.  Nothing else is owed: a worker may crash, and no customer has to *)
(* reconcile.                                                              *)

Unanswered == {e \in events \ lost : \A i \in Attempts : <<e, i>> \notin rows}

Fairness ==
    /\ WF_vars(\E h \in hooks : ProjectWebhook(h[1], h[2]) \/ WebhookFails(h[1], h[2]))
    /\ \A i \in Attempts :
          /\ SF_vars(\E e \in Unanswered : e.payment = i /\ Resolve(e))
          /\ SF_vars(\E e \in Unanswered : e.payment = i /\ ProjectWebhook(e, i))

FairSpec == Spec /\ Fairness

-----------------------------------------------------------------------------
(* Properties *)

\* The attempts Square has taken money for, or reserved it.
ChargedOnes == {i \in Attempts : pay[i].status \in Money}

\* An attempt says only what Square said of the payment made with its own key:
\* evidence of one attempt is never projected on another, whatever resolves
\* it, and its status and provider_updated_at are those of one fact.
AttemptsAreProved ==
    \A i \in Made :
        /\ att[i].provider \in {0, i}
        /\ att[i].status \notin {"pending", "indeterminate"} =>
              /\ att[i].provider = i
              /\ [payment |-> i, status |-> att[i].status, at |-> att[i].seen,
                  matched |-> TRUE] \in events

\* "Only matched durable evidence may confirm payment": a confirmed order has
\* an attempt that is paid, or was and is being refunded.
ConfirmedIsPaid ==
    order.status = "confirmed" =>
        \E i \in Made : att[i].status \in {"paid", "refund_pending", "refunded"}

\* The connection of an order to Square "without allowing a double charge"
\* (payment-initiate README), however claims, crashes and webhooks interleave.
NoDoubleCharge == Cardinality(ChargedOnes) <= 1

\* The cron job never takes the units of an order Square has money for.
ReleaseOnlyWithoutMoney ==
    [][~order.released /\ order'.released => ChargedOnes = {}]_vars

\* "Older provider timestamps cannot regress state": an attempt moves along the
\* allowed transitions, and to an older fact never.
AttemptsNeverRegress ==
    [][\A i \in Made :
          /\ att'[i].seen >= att[i].seen
          /\ att[i].status \in {"paid", "refunded"} \cup Settled
                /\ att'[i].status # att[i].status =>
                att'[i].status \in {"refund_pending", "refunded", "indeterminate"}]_vars

\* A paid order stays paid, is being refunded, or is in an operator's hands.
PaidOrderStands ==
    [][order.payment = "paid" =>
          \/ order'.payment \in {"paid", "refund_pending", "refunded"}
          \/ order'.status = "attention_required"]_vars

\* "Conflicting evidence fails closed" (service README): no attempt is started
\* while another one waits for the review that contradicting facts demand.
ReviewStopsCharges ==
    [][\A i \in Attempts \ Made : att'[i].status # "none" =>
           \A j \in Made : ~att[j].review]_vars

\* The order as capacity sees it: its units may go while no attempt is open, in
\* doubt or paid.
Stage ==
    IF order.released THEN "expired"
    ELSE IF /\ order.status = "awaiting_payment"
            /\ order.payment \in {"not_started"} \cup Settled
            /\ \A i \in Made : att[i].status \in Settled /\ ~att[i].review
         THEN "unpaid" ELSE "exposed"

CompletedOnes == {i \in Attempts : \E e \in events : e.payment = i /\ e.status = "paid"}

Promise == INSTANCE PaymentPromise WITH
    stage <- Stage,
    lapsed <- order.lapsed,
    money <- ChargedOnes,
    paid <- CompletedOnes,
    confirmed <- order.status = "confirmed"

\* With all its claims, crashes and late facts, payment keeps its promise: one
\* charge at a time, of an order that keeps its units; no charge of an order that
\* gave them up; no confirmation without a payment.
PaymentPromiseKept == Promise!Spec

\* A charge ends up on its attempt and on the order, or with an operator,
\* even if the worker that asked for it crashed: the webhook is enough.
ChargeIsRecorded ==
    \A i \in Attempts :
        pay[i].status = "paid" ~>
            /\ att[i].status \in {"paid", "refund_pending", "refunded"}
            /\ \/ order.payment \in {"paid", "refund_pending", "refunded"}
               \/ order.status = "attention_required"
=============================================================================

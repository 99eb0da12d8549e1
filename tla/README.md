# A TLA+ verification of MoXX

MoXX is a monorepo: **MoMi**, the backend of a doughnut shop (Deno edge
functions over PostgreSQL, where most of the state machines are SQL routines of
`src/MoMi/supabase/migrations`), and **MoXi**, its storefront. This directory
holds TLA+ models of its core, their TLC instances, and TLAPS proofs.

Paths below are relative to `src/MoMi` unless they start with `src/`.

## 1. Inventory

| part | state it keeps | operations | what is hard |
|---|---|---|---|
| **preorder capacity** (`services/preorder-operations`, migration `20260906095813`) | `surfaces`, `fulfillment_windows` by policy version and date, `fulfillment_capacity` by date, `quotes`, `checkout_holds`, `orders` | publish (active, inactive), bootstrap, quote, hold create / release / expire, order intent with and without a hold, expiry of abandoned orders | publications between the steps of a checkout; counters kept twice; sweeps inside other commands; deadlines |
| **preorder payment** (same service, migrations `20260731135356`, `20260906110344`) | `payment_attempts` with their claim, `payment_evidence`, payment columns of `orders` | claim, replay, reconcile, resolve, project evidence | a call to Square between two transactions; crashes; late, repeated, reordered facts |
| square-payment-delivery, square-payment-acquisition | none | one charge; one retrieval; webhook authentication | ambiguous answers |
| **momi-event-routing**, **warehouse-projection**, **order-alerting** | event log, `routing_work`, `deliveries`, two queues; projected tables; `api_invocation_work`, alert candidates | append, route, begin, acknowledge, fail, retry, reconcile; project; stage, claim, complete | leases that end under a late worker; requests that are lost or sent twice; a check without a lock; two transactions where one fails |
| **background-work-canary-control** (`local-tools`) | the target jobs and the guard job of `cron.job`, the operator's run | arm, renew, activate, observe, roll back, clean up, dead-man | answers lost after a commit; queries that commit after they were given up; crashes; two hosts |
| **MoXi preorder storefront**, Square web payments (`src/MoXi`) | menu query, cart, draft in `localStorage`, the commands of a review, the card form | choose, review, prepare, pay, try another card, reload | retries of commands that may have been carried out; reviews left in the middle; a payment without an answer |
| toast-data-acquisition, toast-order-hydration | acquisition jobs with bookmarks | claim, page, complete, retry | leases, partial pages |
| slack-order-delivery, trello-task-delivery | delivery work | claim, deliver, settle | ambiguous delivery, retry |
| communications-evaluation, model-execution-gateway, communications-gateway | evaluation jobs, execution ledger, spend limits | lease, execute, complete asynchronously, settle | late completions, limits |
| cron-history-governance, project-baseline-governance | retention marks; decision ledger | retention cycle; append, correct | partial cycles; concurrent appends |
| webhook ingests, archives, read APIs, registries | append-only evidence, projections | capture, read | little beyond idempotence |
| other local tools, scripts, the rest of MoXi | receipts | command lines, CI, static pages | little |

How they interact: the storefront calls the preorder edge functions, each of
which calls one SQL routine in one transaction. Capacity and payment share the
`orders` row: a claim or a piece of evidence decides whether the minute job may
take the order's units back. Payment calls Square between a claim transaction
and a projection transaction; Square's webhooks enter through resolve and
project, two more transactions. Toast and Trello sources append evidence, event
routing hands references to subscribers, projections and alerts consume them.

What makes each correct, briefly: capacity gives units at most once and within
the limit published when they are given; payment charges at most once, confirms
only what was paid, and never lets an old fact undo a newer one; event routing
delivers each event to each subscriber until it is acknowledged or dead-lettered;
acquisition and delivery work is done by one worker at a time and is not lost;
the evaluation and gateway services account for each execution once; the ledgers
are append-only.

`PROJECT.json` lists every part with its status, and the hazards of the modelled
parts line by line.

## 2. Modules

    PickupUnits            units of a set of carts (a sum, as a cardinality)
      PreorderCapacity     publication, windows, ledger, quotes, holds, orders, job
        MCPreorderCapacity               instances for TLC
        PreorderCapacityProofs           inductive invariant and its consequences
          PickupPromiseProofs            PreorderCapacity implements the promises
    PickupPromise          what capacity promises: no windows, versions, counters
    PaymentPromise         what payment promises: no claims, evidence, webhooks
      PreorderPromise      both promises on the same orders (with PickupPromise)
        PreorderPromiseProofs            money has units; the parts make the whole
    PreorderPricing        the lines of a quote, their discounts and totals
      PreorderPricingProofs              totals in order, rows admitted
    PreorderPayment        attempts, claims, evidence, webhooks, Square, the job
      MCPreorderPayment                  instances for TLC: what Square may do
      PreorderPaymentProofs              inductive invariant and its consequences
    CheckoutPromise        what the storefront promises: no retries, requests, tokens
    CheckoutServer         the four commands as the storefront meets them
      Storefront           page, cart, draft, review, card form, payment hand-off
        MCStorefront                     instances for TLC
        StorefrontProofs                 inductive invariant and its consequences
    EventFate              what becomes of an event: no leases, tokens, messages
    EventRouting           event log, routing work, router, deliveries, queues, jobs
      EventDelivery        EventRouting with warehouse projection and order alerting
        MCEventDelivery                  instance for TLC
        EventDeliveryProofs              inductive invariant and its consequences
    CanaryPromise          what a canary promises: no leases, places, receipts
    CanaryGuard            target jobs, guard job, pg_cron, lease, late queries
      CanaryRun            what the operators of both canaries have in common
        RecoveryCanary, DryRunCanary     the two operators
          BackgroundWorkCanary           both on one database
            CanaryProofs                 inductive invariant and its consequences

### PreorderCapacity

One action is one transaction. The routines take the surface `FOR SHARE`
(publication updates it) and the quote, hold, order, window and ledger rows
`FOR UPDATE` before they decide, so they serialise.

| variable | rows |
|---|---|
| `surface` | `surfaces`: one version number (the code moves its four versions together), enabled, `daily_limit`, `limited_threshold` |
| `windows[v][d]` | `fulfillment_windows` of policy version v and date d; `open` is enabled and before `order_cutoff_at` |
| `ledger[d]` | `fulfillment_capacity` |
| `quotes[q]` | `quotes`, with the state of its deadline: fresh, expired, lapsed (the order's `capacity_expires_at` passed too) |
| `holds[q]` | `checkout_holds`, unique for a quote |
| `orders[q]` | `orders` as capacity sees them: unpaid, exposed (a payment under way, made or in doubt), expired |

| action | code |
|---|---|
| `Publish`, `PublishInactive` | `publish_configuration_v1`, with the windows its trigger creates through `ensure_fulfillment_windows_v1` |
| `CreateQuote` | `create_quote_v1` and the routine it wraps |
| `CreateHold`, `ReleaseHold` | `manage_checkout_hold_v1` |
| `SweepHolds` | the commands that return a refusal, or a hold that is active already, or expire a hold: their lasting effect is the sweep |
| `OrderFromHold`, `OrderDirect` | `create_order_intent_v1` |
| `PaymentExposes`, `PaymentSettlesUnpaid` | what payment does to the capacity side of an order; `PreorderPayment` has the detail |
| `ExpireAbandonedOrders` | `expire_abandoned_orders_v1` |
| `QuoteExpires`, `OrderLapses`, `CutoffPasses` | the clock |

Hold and order commands carry the set `S` of due holds their own
`expire_checkout_holds_v1` frees; it may be any subset, since that routine skips
locked rows and takes a hundred at most. A command that raises `P5701` is rolled
back, sweep included, and is therefore no step. The trigger
`sync_physical_capacity_v1` is part of every step that moves units (`Move`).

`read_bootstrap_v1` changes nothing and is the operator `Availability`.

### PreorderPayment

One order, its attempts, and one Square payment per attempt (the idempotency key
is the attempt). Edge functions are members of `calls` between their claim and
their projection; webhooks are members of `hooks` between resolution and
projection. `order.payment` and `att[i].status` are the two `payment_status`
columns. `Paid` is the trigger that guards released orders, `Consistent` the
CHECK and unique constraints that turn a projection into an error answer.
Square is external: `Moves` says which changes a payment may make, and `events`
grows with every change, each of which can be delivered any number of times.
The cron job appears again as `ExpireAbandonedOrder`, with its real guard on the
attempts. The expected order version of a command is left out, because a client
may read the current one and try again.

### PreorderPricing

The loop of `create_quote_window_capacity_v1` over the lines of a request, one
step per line, between the two discounts it starts with and the row it inserts.
Products and totals have the range of `integer`; a line that leaves it is
answered as an invalid request. The discounts are any that the validation of a
published policy admits, the prices any the catalogue's CHECK admits.

### The promises

Six modules say what a component is for, without the means by which the code
does it. Each is instantiated at the end of the module that implements it, with
the mapping below, and the refinement is a property TLC checks and a theorem.

| abstract module | its state, by the state of the code | what it forgets |
|---|---|---|
| `PickupPromise` | an offer (open, daily limit), carts, and the sets of carts held, sold and exposed to payment. Units are given when the date then stays within the limit in force; an exposed order never loses them | windows, versions, counters, deadlines, sweeps |
| `PaymentPromise` | the stage of the order as capacity sees it (`Stage`: a charge may be under way or may have been made, or not, or the order is released), the attempts Square holds money for, whether it is confirmed | claims, evidence, webhooks, `updated_at`, reviews |
| `PreorderPromise` | `PickupPromise` and one `PaymentPromise` per quote, where `exposed` is the stage of the payment and an order loses its units in the step that ends its payment | both lists above |
| `CanaryPromise` | the targets, the run whose guard is there, whether that guard is scheduled, and for each run whether it works, has stopped, reported or given up (`Phase`) | leases, generations, receipts, late queries |
| `EventFate` | the log, for each event open, delivered or dead (`Fates`), how often it was projected, whose alerts were decided | leases, attempts, tokens, queues, workers |
| `CheckoutPromise` | the order of each review (`OrdersMade`), which order a payment command pays (`PaysFor`), what Square has of it (`SquareHas`), and what the screen shows and says (`OnScreen`, `Said`) | menus, carts, late requests, card tokens, workers |

`PreorderCapacity` implements `PreorderPromise` with the part of payment it has
itself: its orders are exposed and unpaid again as they please, and money is not
looked at. `PreorderPayment` implements `PaymentPromise` for one order.
`PreorderPromise` is not instantiated with both; section 5 says how they fit.

### Storefront

One browser: one loaded page at a time, whose calls to the server end in an
answer, in a refusal, or in nothing. `CheckoutServer` holds the rows the commands
leave. A command is carried out once and its receipt returned when the same
command comes with the same data. What capacity decides, and what becomes of a
charge, are choices there: `PreorderCapacity` and `PreorderPayment` have the
detail. The order version, the age of a quote and the rate limits are among the
reasons for which a request may be refused at any time.

| variable | code |
|---|---|
| `view`, `data` | what `PreorderExperience` shows: the query's status, the state of `preorderMachine`; the versions of the loaded menu |
| `cart`, `draft`, `recovered` | `quantities`; `moxi.preorder.draft.v1`; `recoveredDraft`, read once at page load |
| `prep[v]` | by mount of `ReviewPreorder`: its commands, `preparationPhase` and the call under way |
| `late`, `heard` | requests whose client gave up; payment commands whose `handoff` is waited for |
| `card` | phase of `SquarePaymentPanel`, `payment` and `paymentIndeterminate` of the review |
| `charges[k]` | payment command k: its token, its worker, what Square has |

| action | code |
|---|---|
| `MenuArrives`, `MenuFails` | the bootstrap query, the first time or in the background; mount and unmount of `LoadedPreorderExperience` |
| `Reload`, `ChangeCart`, `GoTo` | a page load, possibly after the draft's day; `changeQuantity`; `preorderMachine` |
| `Prepare`, `CallAnswered`, `CallFails`, `LateRequest` | `prepare` and the three calls of `preparePreorderCheckout` |
| `CardMounts`, `Submit`, `TokenFails`, `TokenMade` | `SquarePaymentPanel` and `tokenizeAndHandoff` |
| `PaymentRefused`, `ClaimPayment`, `PaymentAnswered`, `WorkerDies`, `PaymentUnheard` | `handoffPreorderPayment` and the worker of the payment-initiate function |
| `RetryDeclinedPayment` | the button "Try a different card" |

### EventDelivery

An event is appended with its routing work. The job
`momi-event-routing-wakeup-v1` gives due work a new token, which posts a request
to the router; the router claims the work, routes its event, and then claims and
routes others. Routing makes a delivery for the subscription the event matches
and sends its message. The warehouse projection takes deliveries in a database
job, one at a time, and appends warehouse events in the transaction that
acknowledges: one for an order or another resource, one for each node of a menu,
none for what it ignores. Order alerting takes deliveries in edge functions,
which stage work, claim it, read the order and record the decision before they
acknowledge.

| variable | rows or processes |
|---|---|
| `work[e]` | `momi_events.routing_work`; `live` while the lease has not expired, `posted` while the request for its token is under way |
| `routers` | events claimed by invocations of `momi-event-router-v1`, before and after the check of `route_event` |
| `delivery[e]` | `momi_events.deliveries`, with the number of tokens and messages so far |
| `queue`, `letters` | the `pgmq` queues of the subscribers, and their dead-letter queues |
| `projecting` | what `process_delivery_batch` has claimed; `projections` counts its commits |
| `alertWork[e]`, `decided` | `momi_orders.api_invocation_work`; the events whose candidates are recorded |
| `workers` | invocations of `momi-order-alert-worker-v1` and the call each makes next |

| action | code |
|---|---|
| `AppendSource`, `Append` | `append_event_v1`, `append_warehouse_event_v1`, the insert of `project_staged_menu_entities`, and the trigger that enqueues the work |
| `RoutingWakeup`, `RequestLost` | the routing job and `wake_event_router` |
| `ClaimItem`, `ClaimBatch` | `claim_routing_work_item`, `claim_routing_work` |
| `RouteChecks`, `RouteCommits` | `route_event`, up to its look at the lease and from there to its commit: it takes no lock on the work |
| `RouterFails`, `RouterDies` | `fail_routing_work`; an invocation that ends without it |
| `ClaimProjection`, `ProjectAndAck`, `ProjectionFails`, `ProjectorDies` | `claim_warehouse_projection_delivery_v1`, `project_and_ack_delivery`, `process_delivery_batch` |
| `AlertBegins` to `AlertDies` | `process_event_delivery.ts`, `execute_work.ts` and the SQL each call runs |
| `EnqueueRetry`, `ReconcileExpired` | the two delivery jobs |
| `RoutingLeaseExpires`, `DeliveryLeaseExpires`, `AlertLeaseExpires` | the clock |

`Produces[e]` holds the sets of warehouse events that the projection of a source
event `e` may append; `ProjectAndAck` appends one of these sets as a whole, and
the sets of different source events may overlap. The key of such an event is the
version of the entity it is about, so that a version observed again finds the
event of the first: `Append` leaves it, and its routing work, as it is. Where the
replay contradicts the event it finds, `append_warehouse_event_v1` raises, which
is `ProjectionFails`.

A token is replaced whenever what was started under it may no longer act, so a
number stands for it: the claim, for routing work, and the tokens so far, for a
delivery. Back-off delays are left out: what may be tried again may be tried at
once. A request to an alert worker may come whenever its delivery is queued or
its lease has expired, since a trigger and a job of each minute send it.

### BackgroundWorkCanary

Every mutation of the tool is one transaction under one advisory lock, hence one
step. A query as its operator sees it is answered or failed; a failed one was not
sent, was refused, was committed with its answer lost, or is still to run
(`late`), until the statement timeout ends it.

| variable | code |
|---|---|
| `active` | the target jobs (the code switches them together and refuses a mixed state) |
| `guard` | the guard job: its command (armed or terminal), run, generation, schedule, lease; the dead-man run pg_cron has launched; what the dead-man found |
| `late` | queries whose child process was given up |
| `run[p]` | the operator: its place, the generations it accepts, its receipt, flock and provider, the exit it reported |

`RecoveryCanary` follows `run_prepared_recovery_canary.ts` and the files it
calls, `DryRunCanary` `run_prepared_canary_program.ts`; each action names its
query. `DeadmanRuns` is the command of `generate_deadman_command.ts`: it looks at
the lease and not at whether the guard is active. A job id is new at each
bootstrap and stands for the run. Failures are counted (`MaxFaults`); contention
on the try-lock and refusals that are not modelled are among them.

Definitions marked *Faulty* stand beside the definition they distort. No
specification uses them: each is a plausible bug, and putting it in the place
of the true definition makes a property of a run fail, which shows that the
property depends on that code.

## 3. What the runs check

| run | instance | distinct states | shows |
|---|---|---|---|
| capacity_promise | 2 carts of 1-2 units, 1 date, 2 publications, limits 2 and 4, fair clock and job | 182,144 | `TypeOK`, `WindowAccounting`, `WindowWithinLimit`, `ListedIsQuotable`, `LedgerAccounting`, `NoOversell`, `SupersededWindowsDrain`, `HoldFate`, `PublishedLimitRespected`, `PromiseKeptTogether`, `UnpaidOrderSettles` |
| capacity_abandoned | 2 carts of 1 unit | | violated: `AbandonedHoldReturned` |
| payment_refunds | 2 attempts, 2 claims, charges and refunds, 3 changes per payment, fair webhooks | 104,782 | `TypeOK`, `ConfirmedIsPaid`, `NoDoubleCharge`, `AttemptsAreProved`, `PaymentPromiseKept`, `AttemptsNeverRegress`, `PaidOrderStands`, `ChargeIsRecorded` |
| payment_told_again | 3 attempts, refusals repeated with newer times | | violated: `NoDoubleCharge` |
| payment_revised | 2 attempts, a refusal turned into a payment | | violated: `ReviewStopsCharges` |
| canary | a recovery run and a dry run on two hosts, 2 samples, 2 failures | about 425,000 | `TypeOK`, `ActiveIsGuarded`, `RolledBackStaysOff`, `ReportIsTrue`, `GenerationKnown`, `CanaryPromiseKept`, `TargetsAreDrained`, `RunsEnd` |
| canary_pre_guard | the same | | violated: `PreGuardMeansNoGuard` |
| canary_reconciled | the same | | violated: `ReconciledRunIsCleaned` |
| storefront | 2 reviews, 2 page loads, 1 product, 1 publication, 1 other card, 1 late request | 4,259,558 | `TypeOK`, `OneOrderPerVisit`, `OrderIsAsPrepared`, `RetriesFollowRefusals`, `OutcomeIsTrue`, `DraftFollowsCart` |
| storefront_cart | 2 products, of which a publication removes one, 1 page load | | violated: `CartIsSafe` |
| storefront_retry | 1 review, 1 other card, a customer who takes it | | violated: `RetryOpensFreshCard` |
| event_delivery | an order or a menu, its warehouse event or those of its 2 nodes, the menu again with 1 node; 2 attempts, 2 invocations of the router | 739,213 | `TypeOK`, `MessagesMatchDeliveries`, `ProjectedOnce`, `AlertsFollowProjections`, `DeliveredMeansDecided`, `EventsMeetOneFate`, `EventsSettle` |

Each property is stated in words above its definition. The refinements subsume
properties of their own modules that no run needs to repeat:
`ReleaseOnlyWithoutMoney`, `DryRunStaysDry` and `SettledStays` are proved.
`CheckoutPromiseKept` holds on the instance of the storefront run as well; it is
left out of that run because it would double its time, and is proved.

Deadlock is not checked:
bounded publications, commands, attempts and runs come to their end, and
customers may stop.

### Bounds, and why they are enough

*Capacity.* A second version is what separates windows from the ledger. Two
carts compete, and one of them may hold its units and order directly as well, so
that the same quote counts twice. Two units make sums differ from counts. The
limits 2 and 4 let a publication lower a limit below what is promised, and let a
cart order without a hold. Dates share nothing but the publication and the
sweep. The theorems of section 5 hold for any number of carts, dates, units,
versions and any policies.

*Payment.* An order needs two attempts for their facts to mix; two claims let a
claim meet its replay or its reconciliation. `MaxTick` bounds the changes of one
payment: three are a charge, the start of a refund and its end. `MaxHooks` is
the number of webhooks between resolution and projection; one suffices, since
all other actions interleave with it. The theorems remove all four.

*Canary.* A second sample is one that follows a renewal; two failures are one
that starts trouble and one during its handling. The run of each kind is the
smallest set in which two operators on two hosts meet. The theorems hold for any
number of runs, samples and failures.

*Storefront.* Two reviews: the commands of the first may be under way during the
second. One other card: the first that can be charged beside a declined one. Two
page loads: what a load leaves behind is the draft and requests, both in the
first already. One late request, since late requests do not read each other. The
theorems hold for any number of each.

*Events.* Chain length one is all there is: warehouse events have no projection
of their own, and nobody has subscribed to those of menu nodes. Two attempts
stand for twelve: one that is tried again, and the last. Two invocations of the
router, so that a late one meets its successor. What is received first is an
order, a menu of one node or of two, or something the projection ignores. The
menu that is received again has a node that did not change, so that two
projections make one event, in either order. The second source event comes only
where the first appended no order, and where it comes, or a menu has two nodes,
events have their first attempt only (`Bounded`, a condition on the steps of
`MCSpec`, with the fairness of `Spec`). A behaviour that needs a second attempt
there is not a fair one and shows nothing of `EventsSettle`, which an order, a
menu of one node and an ignored event show with all their attempts. The theorems
hold for any number of events, attempts and routers, and any `Produces`.

### Fairness

*Capacity.* The clock, and `pg_cron`, which runs `expire_abandoned_orders_v1`
each minute, so that an order skipped under a lock is taken later. Nobody obliges
a customer to act and nothing schedules the hold sweep, so neither is fair.

*Payment.* Square resends an event until it is answered, and its deliveries do
not all fail (strong fairness per attempt, since another webhook may be in
between); an invocation ends. Workers may crash and nobody has to reconcile, so
nothing else is fair: `ChargeIsRecorded` then says that the webhook alone is
enough.

*Canary.* Time passes, `pg_cron` launches what is due and its runs go on, the
statement timeout ends late queries, and an operator takes its next step unless
it crashes, which it may do at any time. `TargetsAreDrained` therefore holds also
when every operator dies.

*Storefront.* `fetch` and the card form answer or fail in the end, workers end,
and a customer takes the card that is offered (only in storefront_retry).

*Events.* Leases expire, each job runs when its work is due, an invocation ends
in one way or another, and subscribers take what is queued. Only the arrival of
a router's request is strongly fair: the routing job replaces the token every
three seconds, and a request that is always slower would never arrive with a
known token. Nothing in the code excludes that; it is an assumption of
`EventsSettle`, which says nothing of a request that is overtaken for ever. No event is promised a turn of its own, and no invocation is
promised to succeed: `EventsSettle` holds since attempts are bounded, so that an
event that cannot be delivered ends as a dead letter.

## 4. Findings

1. **Expired holds wait for another command** (capacity_abandoned).
   `expire_checkout_holds_v1` runs only inside hold and order commands. Bootstrap
   and quote read the ledger without it. When holds fill a date, the storefront
   lists it sold out, no quote can be made, and a fresh command has to come
   from a quote that exists already, or from another date.
2. **A repeated refusal of an older attempt reopens a paid order**
   (payment_told_again). Projection writes the status of the evidence's attempt
   on the order, whichever attempt is the newest. It needs Square to report
   attempt 1's refusal again with a newer `updated_at`, after attempt 2 was paid.
   When refusals are final, `NoDoubleCharge` holds, and is proved.
3. **A charge may start while contradicting facts are under review**
   (payment_revised). The conflict leaves `payment_status` declined, and the next
   claim reads neither `requires_review` nor the conflict.
4. **A recovery run forgets a guard whose bootstrap answer was lost**
   (canary_pre_guard). `runPreparedRecoveryCanary` takes a failure for a failure
   before the guard when it has no parsed answer. The transaction may have
   committed: the run exits 20 and its guard is scheduled. The dry run remembers
   that a guard may exist and reconciles.
5. **A run recovered by its dead-man cannot clean up** (canary_reconciled). The
   cleanup demands the generation marker in the guard's command, which the
   dead-man has replaced by a command without one. The run ends with exit 40,
   manual reconciliation, where 30 is documented.
6. **The cart is not safe when the menu fails in the background**
   (storefront_cart). The loaded page is unmounted and mounted again with the
   draft of the page load; its save effect then overwrites the newer draft.
7. **"Try a different card" does nothing** (storefront_retry).
   `replacePaymentCommand` calls `crypto.randomUUID` without its receiver. The
   constant `CallableAlone` says whether that is possible; the storefront run
   sets it, so that what follows a retry is checked too.

Met on the way and not modelled: `stage_order_event_work` answers
`ignored_non_live_v2_event` (migration `20260716081447`, line 203), while
`process_event_delivery.ts:19` expects `ignored_non_live_event`, so that an event
which `order-alerting/README.md:54-56` says is acknowledged would fail and end as
a dead letter. The subscription admits only version 2 of
`warehouse.order.observed`, which are live, so that the answer is not reached in
practice. Only an entity version has a lenient replay in
`append_warehouse_event_v1` (migration `20260824153734`, lines 65-80): the same
version of an order, observed again under another correlation id, is
refused, so that the projection of the second observation fails until it is a
dead letter, which is one of the outcomes of `ProjectionFails`.

## 5. What is proved

Each proof module extends the module it is about. The theorems hold for every
value of the constants that satisfies the assumption named in that module. TLC
checked every invariant, the inductive ones included, before it was proved.

### Capacity

`InductiveInvariant`: `Spec => []Inductive`; its parts `TypeCorrect`,
`WindowsBalance`, `LedgerBalances`, `WindowsFit`, `NeverOversold`, and
`ListedMeansQuotable`; the action properties `PublishedLimitKept`,
`SupersededDrain`, `HoldsEndOnce`; the refinements `KeepsThePromise` and
`KeepsTheJointPromise`.

No counter bound is inductive alone: that a release cannot take a counter below
zero needs the counter to be the sum of the carts that own units
(`WindowAccounting`, `LedgerAccounting`), and that a new version starts with
true zeros needs no quote to be ahead of the published version (`QuotesKnown`).
That a promise stays within a published limit needs the windows in force to
carry that limit (`PolicyInForce`) and superseded ones to keep theirs. With
these `Inductive` is preserved by every action: `MoveAccounts` shows that the
window and ledger updates keep the accounts for any four sets of carts, and
`FreeStep` and `AdmitStep` specialise it to commands that only free units and to
those that admit one cart; each action then has a short lemma. The laws of sums
come first in `PreorderCapacityProofs`. A sum is the cardinality of a set of (cart, unit)
pairs, so that it needs no recursion, whose induction the provers cannot do.
`ListedIsQuotable` follows because the ledger counts at least what the current
window counts. `KeepsTheJointPromise` needs one more invariant,
`GivenUpIsLapsed`: units go back only after `capacity_expires_at`, and no command
takes the order up again, so that a sweep which frees several carts, sold and
held, maps to one step that ends exactly the payments that were unpaid.

### Payment

For any moves of Square: `PaymentInductive`, `PaymentTypes`, `AttemptsProved`,
`ConfirmedWasPaid`, `NoRegress`. When refusals are final (`RefusalsAreFinal`, a
condition on `Moves` that the refunds instance satisfies): `ChargedOnce`,
`ReleasedWithoutMoney`, `PaidStands`, and the refinement `KeepsThePaymentPromise`.

That an attempt only says what Square said has to hold of the facts that are
still with a worker or a webhook as well, and of the facts an attempt has
already used. Money is subtler: an order may be charged again when all of its
attempts were refused, and a refused attempt whose refusal is final and known
can be told nothing newer. Hence only the newest attempt can change the order
(`EventsInTime`, `OlderAreRefused`, `OneUnresolved`, `RefusedOrder`, `PaidOrder`).
payment_told_again and payment_revised are two ways in which the condition
fails, and with it the property.

The refinement rests on these and on `Kept`: a payment has one status at a time
of Square's, what is refunded was paid, the row of a fact names the attempt the
fact is about, and every attempt of a released order has been told Square's final
refusal. Then an order whose stage is unpaid has no payment Square could still
complete, which is what lets capacity take its units.

### Capacity and payment together

`PreorderPromiseProofs`, about the promises alone and for any quotes, dates and
attempts. `Owned` says that a payment has a part in an order only while the order
has its units, and is over when they are given back. From it:

- `MoneyHasUnits`: whoever's money Square holds, and whoever was told that the
  order stands, has units; units given back are free of any payment.
- `UnitsGoForGood`: such an order is never paid for, confirmed or served again.
- `TogetherIsPickupPromise`, `TogetherIsPaymentPromise`: the whole implements each
  part, with `exposed` and `stage` read from the same row.
- `PartsMakeThePromise`: the whole is exactly the conjunction of `CapacityAlone`
  (the whole with payments that hold no money, which `PreorderCapacity`
  implements by `KeepsTheJointPromise`), `EachPayment` (a `PaymentPromise` per
  order, which `PreorderPayment` implements by `KeepsThePaymentPromise`), and
  `OneTransaction`, which says how their steps may coincide: a command that
  touches payments touches that of one order with units, or those of the orders
  whose units it gives back.

No run checks `PreorderPromise` by itself. That the code has `OneTransaction` is
read from `expire_abandoned_orders_v1`, which both models contain and which
changes both sides in one transaction; it is not a theorem.

### Canary

`CanaryInductive`, `CanaryTypes`, `TargetsAreGuarded`, `RollbackIsFinal`,
`ReportsAreTrue`, `GenerationIsKnown`, `DryRunsStayDry`, and the refinement
`OperatorsKeepThePromise`. The invariant adds to
the types the shape of the guard, what a late query may still do to it, and what
each run relies on at each of its places: a late activation finds the guard it
was made for, or none that accepts it. In the refinement a run that crashed or gave up
may still arm or switch on, through a late query; one that stopped may not. Of
the promise itself `PromiseIsSafe` and `ReportsStand` are proved: the targets are
on only under a scheduled guard of a recovery run that has not stopped, and a
report stays true after the run has gone.

### Events

`DeliveryInductive`, `DeliveryTypes`, `MessagesMatch`, `EventsProjectedOnce`,
`ProjectionsComeFirst`, `AcknowledgedIsDecided`, the action property
`SettledForGood`, and the refinement `EventsHaveOneFate`. The invariant adds `DeliveryShape` (tokens and messages are
bounded by attempts) and `ActorsKnown`: what is still true of a router, projector
or worker whose lease has ended, that is, which token it carries and what its
next call can meet. That is what the refinement needs: a step of a late actor is
the one step that settles its event, or changes nothing an observer of the log
could see. `ProjectionsComeFirst` supposes neither that a projection appends one
event nor that an event has one projection: `AppendLogs` says that appending a
set adds that set to the log and nothing else, and the projection that added an
event is acknowledged by the same step and for good.

### Storefront

`StorefrontInductive`, `StorefrontTypes`, `ReviewsOrderOnce`,
`OrdersAreAsPrepared`, `RetriesComeAfterRefusals`, `OutcomesAreTrue`,
`DraftsFollowCarts`, and the refinement `ReviewsKeepThePromise`: for every menu and every number of checkouts, retries, page
loads and late requests. The server has rows of reviews that were left, of
requests whose client gave up, and of the review on the page, and none may be
taken for another. `RowsKnown` says that each row comes from a command of the
review whose number it has; `PreparationsKnown` that a preparation beyond its
quote relies on that quote; `PaymentsKnown` that payment commands are for an
order whose review has shown a card, each replacement after the refusal of the
one before; `CardKnown` that the form on the page belongs to the last payment
command of its checkout. Most payment actions change one command;
`MovedInductive` shows once that such a step keeps the invariant.

The refinement adds `CardOnScreen`: the card form is that of the review on the
screen, whose preparation is done. Of the
promise, `NeverAskedTwice` (Square never has two payments of one order that are
paid or undecided) and `SeenIsSo` (what the screen says of the order and the
payment is so) are proved as well.

### Prices

`PreorderPricing` has no run: its integers are those of PostgreSQL, and the
theorems hold for all of them. `QuoteInductive` keeps the totals in the order of
the prices (final, after the quantity level, preorder, shop), since
`DiscountedIsBetween` puts each price between the floor and the price before it.
`QuotesAreAdmitted`: the insert of an accepted quote is never refused by the
CHECKs of `quotes`. `ItemsArePriced`: the branch without a valid preorder price is
never reached. `MoreDiscountCostsLess`: a larger discount, or a lower price to
begin with, never costs more, rounding and floor included.

### Only model-checked

Liveness (`UnpaidOrderSettles`, `ChargeIsRecorded`, `TargetsAreDrained`,
`RunsEnd`, `EventsSettle`): fairness and ENABLED are out of the proof system's
reach. Every safety property of a passing run is proved, refinements included. The violated properties
are refuted by TLC's counterexamples.

### What the models assume

- A routine of the database is one step, because it takes the rows it decides on
  FOR UPDATE or an advisory lock. Where it does not, it is two steps
  (`RouteChecks` and `RouteCommits`; resolve and project).
- A process loses its memory when it ends or crashes.
- Payment: Square's payments change only as `Moves` allows, and an idempotency
  key has one payment.
- Canary: the target jobs are one boolean (the code switches them together); a
  query that was given up ends by the statement timeout before the waits of 35
  and 36 seconds are over; a rolled-back dry run leaves an inactive guard, which
  blocks the runs after it.
- Storefront: what capacity decides, and what becomes of a charge, are choices;
  a webhook and Square's decision are one step; authorized payments count as
  undecided and canceled ones as declined.
- Events: a warehouse event is not also the event of an adapter (`AppendSource`);
  one instance of the projection job runs at a time, as `pg_cron` has it; a router
  routes what it claimed in any order.

## 6. Not modelled

*Of the preorder service:* the rate buckets, allergens and catalogue checks
(they only refuse, and a refusal after the sweep is `SweepHolds`),
authentication, the archive capture of webhooks, the order version check of
payment commands, the rolling fourteen-day horizon (the dates of an instance are
within it), and the backfill of the ledger in the migration. Draft publications
change no row the models have. Row locks are below the grain of the models:
where two commands wait for each other PostgreSQL aborts one, which is answered
503 and leaves no trace.

*Of the canaries:* the set-up check, the read-only classification commands, the
contents of samples and receipts, and the drift of job identities, each of which
can only refuse.

*Of event delivery:* the edge reservations (the inactive rollback path), the
trigger of order alerting that has no delivery, back-off delays, and the
registration of subscriptions.

*Of MoXi:* pickup windows, quantities, allergens, contact details and prices in
the browser; the loading of Square's script; the neutral checkout, which shows a
contract nothing implements; static pages and worker.

*Services:* acquisition, hydration, Slack and Trello delivery, communications,
governance and the read APIs. The first four have state machines like event
delivery's (leases, attempts, ambiguous outcomes) and are the next to be modelled.
Webhook ingests, archives, registries and read APIs append or read and have no
behaviour beyond idempotence. Build, release and validation scripts, generated
contracts, fixtures and assets are no part of the running system; they are most
of the repository's lines.

## 7. Plan

Done: capacity and payment, the promise of each and of both, and their proofs;
the prices of a quote; both canaries, the storefront, event routing with its two
consumers, each with its promise and proofs.

Left, the most important behaviour first:

1. **DeliveryWork**: Slack delivery, with ambiguous outcomes of one message.
2. **ModelExecution**: communications evaluation, the gateway's request and its
   asynchronous completion.
3. **CronRetention**: the retention cycle and its high-water marks.
4. **Proofs**: what the routing jobs and the payment webhooks guarantee short of
   liveness, that is, that work which is not done is always within reach of a
   job (the safety half of `EventsSettle` and `ChargeIsRecorded`).

---------------------------- MODULE EventRouting ----------------------------
(***************************************************************************)
(* The event log of MoMi and what its owner keeps for every event: the     *)
(* routing work, the delivery to the subscriber, and the two queues.  Here *)
(* are the routines of momi_events, the jobs that run some of them, and    *)
(* the router (momi-event-router-v1) that runs the others.  EventDelivery  *)
(* adds the subscribers.                                                   *)
(*                                                                         *)
(* Every routine is one transaction, but route_event, which reads the      *)
(* lease without a lock before it writes.  A capability token is replaced  *)
(* when what was started under it may no longer act, so that a number      *)
(* stands for it: of the claim for routing work, of the tokens so far for  *)
(* a delivery.  Back-off delays are left out: what may be tried again may  *)
(* be tried at once.                                                       *)
(***************************************************************************)
EXTENDS Naturals, FiniteSets

CONSTANTS
    Events,
    Subscriber,  \* external: the active subscription an event matches
    Produces,    \* external: the sets of warehouse events its projection may append
    MaxAttempts, \* 12 in the code
    MaxRouters   \* bound: events that invocations of the router have claimed

VARIABLES
    work,      \* momi_events.routing_work, by event
    routers,   \* events claimed by invocations of the router
    delivery,  \* momi_events.deliveries, by event
    queue,     \* messages of the subscribers' queues
    letters    \* by event: messages in the dead-letter queue

routing == <<work, routers, delivery, queue, letters>>

ASSUME EventAssumption ==
    /\ MaxAttempts \in Nat \ {0}
    /\ Subscriber \in [Events -> {"none", "projection", "alerting"}]
    /\ Produces \in [Events -> SUBSET (SUBSET Events)]
    /\ \A e \in Events : Produces[e] # {} <=> Subscriber[e] = "projection"

-----------------------------------------------------------------------------
(* Types *)

\* "none" before the event is appended; "live" while a lease has not expired;
\* "posted" while the request wake_event_router sent is under way.
Work == [status : {"none", "pending", "running", "retry_wait", "succeeded", "dead_letter"},
         attempts : 0 .. MaxAttempts, live : BOOLEAN, posted : BOOLEAN]
NewWork == [status |-> "pending", attempts |-> 0, live |-> FALSE, posted |-> FALSE]

\* "own" is the event of the request, the others come from claimBatch.
Router == [event : Events, attempt : 1 .. MaxAttempts, own : BOOLEAN,
           at : {"claimed", "routing", "batching"}]

\* "token" and "sent" count the tokens and the messages so far.
Delivery == [status : {"none", "queued", "running", "retry_wait", "delivered", "dead_letter"},
             attempts : 0 .. MaxAttempts, live : BOOLEAN,
             token : 0 .. MaxAttempts, sent : 0 .. MaxAttempts]
NoDelivery == [status |-> "none", attempts |-> 0, live |-> FALSE, token |-> 0, sent |-> 0]

RoutingTypeOK ==
    /\ work \in [Events -> Work]
    /\ routers \subseteq Router
    /\ delivery \in [Events -> Delivery]
    /\ queue \subseteq Events \X (1 .. MaxAttempts)
    /\ letters \in [Events -> Nat]

RoutingInit ==
    /\ work = [e \in Events |-> [NewWork EXCEPT !.status = "none"]]
    /\ routers = {}
    /\ delivery = [e \in Events |-> NoDelivery]
    /\ queue = {}
    /\ letters = [e \in Events |-> 0]

-----------------------------------------------------------------------------
(* The event log *)

Logged(e) == work[e].status # "none"

\* append_event_v1, append_warehouse_event_v1, and the insert of a menu node: an
\* event is known by its key, so that a later source event which observes the
\* same version of an entity again finds the event of the first.
Append(S) ==
    work' = [e \in Events |-> IF e \in S /\ ~Logged(e) THEN NewWork ELSE work[e]]

\* Some projection may append e.
Derived(e) == \E f \in Events : e \in UNION Produces[f]

\* An adapter records a source event.
AppendSource(e) ==
    /\ ~Derived(e)
    /\ Append({e})
    /\ UNCHANGED <<routers, delivery, queue, letters>>

-----------------------------------------------------------------------------
(* Routing *)

\* Routing work or a delivery whose lease is over.
Ended(d, status) == [d EXCEPT !.status = status, !.live = FALSE]

Due(e) ==
    \/ work[e].status \in {"pending", "retry_wait"}
    \/ work[e].status = "running" /\ ~work[e].live

\* The job momi-event-routing-wakeup-v1.
RoutingWakeup(e) ==
    /\ Due(e)
    /\ LET spent == work[e].attempts >= MaxAttempts
       IN work' = [work EXCEPT ![e].status = IF spent THEN "dead_letter" ELSE "retry_wait",
                               ![e].live = FALSE, ![e].posted = ~spent]
    /\ UNCHANGED <<routers, delivery, queue, letters>>

RequestLost(e) ==
    /\ work[e].posted
    /\ work' = [work EXCEPT ![e].posted = FALSE]
    /\ UNCHANGED <<routers, delivery, queue, letters>>

Claimable(e) == Due(e) /\ work[e].attempts < MaxAttempts
Claimed(w) == [w EXCEPT !.status = "running", !.attempts = @ + 1,
                        !.live = TRUE, !.posted = FALSE]

\* claim_routing_work_item, for the request that is under way.
ClaimItem(e) ==
    /\ work[e].posted /\ Claimable(e)
    /\ Cardinality(routers) < MaxRouters
    /\ work' = [work EXCEPT ![e] = Claimed(@)]
    /\ routers' = routers \cup {[event |-> e, attempt |-> work[e].attempts + 1,
                                 own |-> TRUE, at |-> "claimed"]}
    /\ UNCHANGED <<delivery, queue, letters>>

\* claim_routing_work, when the event of the request is routed.
ClaimBatch(r) ==
    /\ r.at = "batching"
    /\ \E S \in SUBSET {e \in Events : Claimable(e)} :
          /\ work' = [e \in Events |-> IF e \in S THEN Claimed(work[e]) ELSE work[e]]
          /\ routers' = (routers \ {r}) \cup
                {[event |-> e, attempt |-> work[e].attempts + 1,
                  own |-> FALSE, at |-> "claimed"] : e \in S}
    /\ Cardinality(routers') <= MaxRouters
    /\ UNCHANGED <<delivery, queue, letters>>

HoldsWork(r) == work[r.event].status = "running" /\ work[r.event].attempts = r.attempt

\* route_event, to its check of the lease.
RouteChecks(r) ==
    /\ r.at = "claimed"
    /\ HoldsWork(r) /\ work[r.event].live
    /\ routers' = (routers \ {r}) \cup {[r EXCEPT !.at = "routing"]}
    /\ UNCHANGED <<work, delivery, queue, letters>>

\* A delivery that has a new message and a new token.
Queued(d) == [d EXCEPT !.status = "queued", !.token = @ + 1, !.sent = @ + 1]

\* Faulty: a delivery that exists is sent again.
RoutesAgain(r) ==
    /\ r.at = "routing"
    /\ delivery' = [delivery EXCEPT ![r.event] = Queued(@)]
    /\ queue' = queue \cup {<<r.event, delivery'[r.event].sent>>}
    /\ work' = [work EXCEPT ![r.event] = Ended(@, "succeeded")]
    /\ routers' = routers \ {r}
    /\ UNCHANGED letters

\* route_event, after its check: what the work has become is not looked at.
RouteCommits(r) ==
    /\ r.at = "routing"
    /\ IF Subscriber[r.event] # "none" /\ delivery[r.event].status = "none"
       THEN /\ delivery' = [delivery EXCEPT ![r.event] = Queued(@)]
            /\ queue' = queue \cup {<<r.event, delivery'[r.event].sent>>}
       ELSE UNCHANGED <<delivery, queue>>
    /\ work' = [work EXCEPT ![r.event] = Ended(@, "succeeded")]
    /\ routers' = (routers \ {r}) \cup
                  (IF r.own THEN {[r EXCEPT !.at = "batching"]} ELSE {})
    /\ UNCHANGED letters

\* Whatever raises is followed by fail_routing_work, whose guard has no lease.
RouterFails(r) ==
    /\ r.at \in {"claimed", "routing"}
    /\ work' = IF HoldsWork(r)
               THEN [work EXCEPT ![r.event] = Ended(@,
                       IF r.attempt >= MaxAttempts THEN "dead_letter" ELSE "retry_wait")]
               ELSE work
    /\ routers' = routers \ {r}
    /\ UNCHANGED <<delivery, queue, letters>>

\* The invocation ends: it is killed, or its answers are lost.
RouterDies(r) ==
    /\ routers' = routers \ {r}
    /\ UNCHANGED <<work, delivery, queue, letters>>

RoutingLeaseExpires(e) ==
    /\ work[e].status = "running" /\ work[e].live
    /\ work' = [work EXCEPT ![e].live = FALSE]
    /\ UNCHANGED <<routers, delivery, queue, letters>>

-----------------------------------------------------------------------------
(* Deliveries *)

\* Faulty: the limit is left to fail_delivery.
BeginsWithoutLimit(e) ==
    /\ \/ delivery[e].status = "queued"
       \/ delivery[e].status = "running" /\ ~delivery[e].live
    /\ delivery' = [delivery EXCEPT ![e].status = "running", ![e].attempts = @ + 1,
                                    ![e].live = TRUE]
    /\ UNCHANGED <<queue, letters>>

\* begin_delivery: of a delivery that is queued, or whose worker is late.
Begin(e) ==
    /\ \/ delivery[e].status = "queued"
       \/ delivery[e].status = "running" /\ ~delivery[e].live
    /\ delivery[e].attempts < MaxAttempts
    /\ delivery' = [delivery EXCEPT ![e].status = "running", ![e].attempts = @ + 1,
                                    ![e].live = TRUE]
    /\ UNCHANGED <<queue, letters>>

\* The token still belongs to the running delivery.  A token has one message.
Current(e, token) == delivery[e].status = "running" /\ delivery[e].token = token
Held(e, token) == Current(e, token) /\ delivery[e].live

Message(e) == <<e, delivery[e].sent>>

\* ack_delivery, once the caller holds the delivery.
Acknowledge(e) ==
    /\ Message(e) \in queue
    /\ queue' = queue \ {Message(e)}
    /\ delivery' = [delivery EXCEPT ![e] = Ended(@, "delivered")]
    /\ UNCHANGED letters

DeadLetter(e) ==
    /\ queue' = queue \ {Message(e)}
    /\ letters' = [letters EXCEPT ![e] = @ + 1]
    /\ delivery' = [delivery EXCEPT ![e] = Ended(@, "dead_letter")]

\* Faulty: the message stays until it is read again.
FailsWithoutDelete(e) ==
    /\ delivery' = [delivery EXCEPT ![e] =
           Ended(@, IF @.attempts >= MaxAttempts THEN "dead_letter" ELSE "retry_wait")]
    /\ UNCHANGED <<queue, letters>>

\* fail_delivery, once the caller holds the delivery.
Fail(e) ==
    IF delivery[e].attempts >= MaxAttempts
    THEN DeadLetter(e)
    ELSE /\ queue' = queue \ {Message(e)}
         /\ delivery' = [delivery EXCEPT ![e] = Ended(@, "retry_wait")]
         /\ UNCHANGED letters

\* The job momi-event-delivery-retries-v1: enqueue_due_delivery_retries.
EnqueueRetry(e) ==
    /\ delivery[e].status = "retry_wait"
    /\ delivery' = [delivery EXCEPT ![e] = Queued(@)]
    /\ queue' = queue \cup {<<e, delivery'[e].sent>>}
    /\ UNCHANGED <<work, routers, letters>>

\* Faulty: only fail_delivery gives up.
ReconcilesAlways(e) ==
    /\ delivery[e].status = "running" /\ ~delivery[e].live
    /\ delivery' = [delivery EXCEPT ![e].status = "queued"]
    /\ UNCHANGED <<work, routers, queue, letters>>

\* The job momi-expired-delivery-reconcile-v1: the message stays, the token not.
ReconcileExpired(e) ==
    /\ delivery[e].status = "running" /\ ~delivery[e].live
    /\ IF delivery[e].attempts >= MaxAttempts
       THEN DeadLetter(e)
       ELSE /\ delivery' = [delivery EXCEPT ![e].status = "queued", ![e].token = @ + 1]
            /\ UNCHANGED <<queue, letters>>
    /\ UNCHANGED <<work, routers>>

DeliveryLeaseExpires(e) ==
    /\ delivery[e].status = "running" /\ delivery[e].live
    /\ delivery' = [delivery EXCEPT ![e].live = FALSE]
    /\ UNCHANGED <<work, routers, queue, letters>>
=============================================================================

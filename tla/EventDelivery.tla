---------------------------- MODULE EventDelivery ----------------------------
(***************************************************************************)
(* What happens to an event of MoMi until it is settled: EventRouting with *)
(* its two subscribers.  The warehouse projection runs in the database, in *)
(* one instance of a job, and appends warehouse events.  Order alerting    *)
(* runs in edge functions, as many as there are requests, which share the  *)
(* work of an event, read the order and decide on its alerts.              *)
(***************************************************************************)
EXTENDS EventRouting

VARIABLES
    projecting,   \* the delivery process_delivery_batch has claimed, if any
    projections,  \* by event: how often its projection was committed
    alertWork,    \* momi_orders.api_invocation_work, by event
    decided,      \* events whose alert candidates are recorded
    workers       \* invocations of momi-order-alert-worker-v1

vars == <<work, routers, delivery, queue, letters,
          projecting, projections, alertWork, decided, workers>>

-----------------------------------------------------------------------------
(* Types *)

Projecting == [event : Events, token : 1 .. MaxAttempts]

AlertWork == [status : {"none", "pending", "running", "failed", "succeeded"}, live : BOOLEAN]

\* An invocation is known by the attempt it began; its place in
\* process_event_delivery and execute_work is the call it makes next.
Worker == [event : Events, attempt : 1 .. MaxAttempts, token : 1 .. MaxAttempts,
           at : {"stage", "claim", "issue", "complete", "record", "acknowledge", "fail"}]

TypeOK ==
    /\ RoutingTypeOK
    /\ projecting \subseteq Projecting /\ Cardinality(projecting) <= 1
    /\ projections \in [Events -> Nat]
    /\ alertWork \in [Events -> AlertWork]
    /\ decided \subseteq Events
    /\ workers \subseteq Worker

Init ==
    /\ RoutingInit
    /\ projecting = {}
    /\ projections = [e \in Events |-> 0]
    /\ alertWork = [e \in Events |-> [status |-> "none", live |-> FALSE]]
    /\ decided = {}
    /\ workers = {}

subscribers == <<projecting, projections, alertWork, decided, workers>>

-----------------------------------------------------------------------------
(* The warehouse projection *)

\* claim_warehouse_projection_delivery_v1, and the commit that follows it.
ClaimProjection(e) ==
    /\ Subscriber[e] = "projection"
    /\ projecting = {}
    /\ delivery[e].status = "queued"
    /\ Begin(e)
    /\ projecting' = {[event |-> e, token |-> delivery[e].token]}
    /\ UNCHANGED <<work, routers, projections, alertWork, decided, workers>>

\* Faulty: an acknowledgement that is refused undoes nothing.
ProjectsAnyway(p) ==
    /\ \E S \in Produces[p.event] : Append(S)
    /\ projections' = [projections EXCEPT ![p.event] = @ + 1]
    /\ IF Current(p.event, p.token)
       THEN Acknowledge(p.event)
       ELSE UNCHANGED <<delivery, queue, letters>>
    /\ projecting' = {}
    /\ UNCHANGED <<routers, alertWork, decided, workers>>

\* project_and_ack_delivery.  Its transaction began right after the claim and
\* reads the lease as of then; the token tells whether it was taken away.  A menu
\* appends an event for each of its nodes, other sources one or none.  A replay
\* that contradicts the event it finds raises: ProjectionFails.
ProjectAndAck(p) ==
    /\ Current(p.event, p.token)
    /\ \E S \in Produces[p.event] : Append(S)
    /\ projections' = [projections EXCEPT ![p.event] = @ + 1]
    /\ Acknowledge(p.event)
    /\ projecting' = {}
    /\ UNCHANGED <<routers, alertWork, decided, workers>>

\* Faulty: what was appended before the error stays.
FailsAfterAppend(p) ==
    /\ IF Current(p.event, p.token)
       THEN Fail(p.event)
       ELSE UNCHANGED <<delivery, queue, letters>>
    /\ \E S \in Produces[p.event] : Append(S)
    /\ projecting' = {}
    /\ UNCHANGED <<routers, projections, alertWork, decided, workers>>

\* The projection raises and is undone; fail_delivery follows.
ProjectionFails(p) ==
    /\ IF Current(p.event, p.token)
       THEN Fail(p.event)
       ELSE UNCHANGED <<delivery, queue, letters>>
    /\ projecting' = {}
    /\ UNCHANGED <<work, routers, projections, alertWork, decided, workers>>

ProjectorDies(p) ==
    /\ projecting' = {}
    /\ UNCHANGED <<work, routers, delivery, queue, letters>>
    /\ UNCHANGED <<projections, alertWork, decided, workers>>

-----------------------------------------------------------------------------
(* Order alerting *)

Goes(w, place) == workers' = (workers \ {w}) \cup {[w EXCEPT !.at = place]}
Leaves(w) == workers' = workers \ {w}

\* A request of wake_order_event_worker.  The trigger and a job of each minute
\* send it while the delivery is queued, so that one more may be under way
\* when the first has begun.
AlertBegins(e) ==
    /\ Subscriber[e] = "alerting"
    /\ Begin(e)
    /\ workers' = workers \cup {[event |-> e, attempt |-> delivery[e].attempts + 1,
                                 token |-> delivery[e].token, at |-> "stage"]}
    /\ UNCHANGED <<work, routers, projecting, projections, alertWork, decided>>

\* stage_order_event_work.
AlertStages(w) ==
    /\ w.at = "stage"
    /\ Held(w.event, w.token)
    /\ alertWork' = IF alertWork[w.event].status = "none"
                    THEN [alertWork EXCEPT ![w.event].status = "pending"]
                    ELSE alertWork
    /\ Goes(w, IF alertWork[w.event].status = "succeeded" THEN "acknowledge" ELSE "claim")
    /\ UNCHANGED <<work, routers, delivery, queue, letters>>
    /\ UNCHANGED <<projecting, projections, decided>>

Available(e) ==
    \/ alertWork[e].status \in {"pending", "failed"}
    \/ alertWork[e].status = "running" /\ ~alertWork[e].live

\* Faulty: work that another invocation has is taken for done.
ClaimsDone(w) ==
    /\ w.at = "claim"
    /\ IF Available(w.event)
       THEN /\ alertWork' = [alertWork EXCEPT ![w.event] = [status |-> "running", live |-> TRUE]]
            /\ Goes(w, "issue")
       ELSE /\ UNCHANGED alertWork
            /\ Goes(w, "acknowledge")
    /\ UNCHANGED <<work, routers, delivery, queue, letters>>
    /\ UNCHANGED <<projecting, projections, decided>>

\* claimWork, whose answer may be lost.  Where another invocation has the work
\* the answer is 409, and this one ends: no acknowledgement and no failure.
AlertClaims(w) ==
    /\ w.at = "claim"
    /\ IF Available(w.event)
       THEN /\ alertWork' = [alertWork EXCEPT ![w.event] = [status |-> "running", live |-> TRUE]]
            /\ Goes(w, "issue") \/ Goes(w, "fail")
       ELSE /\ UNCHANGED alertWork
            /\ IF alertWork[w.event].status = "succeeded"
               THEN Goes(w, "acknowledge")
               ELSE Leaves(w)
    /\ UNCHANGED <<work, routers, delivery, queue, letters>>
    /\ UNCHANGED <<projecting, projections, decided>>

\* issue_order_read_capability, and the read of the order it allows.
AlertIssues(w) ==
    /\ w.at = "issue"
    /\ Held(w.event, w.token)
    /\ alertWork[w.event].status = "running" /\ alertWork[w.event].live
    /\ Goes(w, "complete")
    /\ UNCHANGED <<work, routers, delivery, queue, letters>>
    /\ UNCHANGED <<projecting, projections, alertWork, decided>>

\* completeWork: whoever has the work by now, and whatever its answer says.
AlertCompletes(w) ==
    /\ w.at = "complete"
    /\ decided' = decided \cup {w.event}
    /\ alertWork' = [alertWork EXCEPT ![w.event] = [status |-> "succeeded", live |-> FALSE]]
    /\ Goes(w, "acknowledge") \/ Goes(w, "record")
    /\ UNCHANGED <<work, routers, delivery, queue, letters>>
    /\ UNCHANGED <<projecting, projections>>

\* Something raises inside executeWork, and recordFailure is next.
AlertRaises(w) ==
    /\ w.at \in {"issue", "complete"}
    /\ Goes(w, "record")
    /\ UNCHANGED <<work, routers, delivery, queue, letters>>
    /\ UNCHANGED <<projecting, projections, alertWork, decided>>

\* recordFailure has no guard: the work may have succeeded in the meantime.
AlertRecordsFailure(w) ==
    /\ w.at = "record"
    /\ alertWork' = [alertWork EXCEPT ![w.event] = [status |-> "failed", live |-> FALSE]]
    /\ Goes(w, "fail")
    /\ UNCHANGED <<work, routers, delivery, queue, letters>>
    /\ UNCHANGED <<projecting, projections, decided>>

\* A call is refused or does not answer, and failDelivery is next.
AlertErrs(w) ==
    /\ w.at \in {"stage", "claim", "record", "acknowledge"}
    /\ Goes(w, "fail")
    /\ UNCHANGED <<work, routers, delivery, queue, letters>>
    /\ UNCHANGED <<projecting, projections, alertWork, decided>>

AlertAcknowledges(w) ==
    /\ w.at = "acknowledge"
    /\ Held(w.event, w.token)
    /\ Acknowledge(w.event)
    /\ Leaves(w) \/ Goes(w, "fail")
    /\ UNCHANGED <<work, routers, projecting, projections, alertWork, decided>>

AlertFails(w) ==
    /\ w.at = "fail"
    /\ IF Held(w.event, w.token)
       THEN Fail(w.event)
       ELSE UNCHANGED <<delivery, queue, letters>>
    /\ Leaves(w)
    /\ UNCHANGED <<work, routers, projecting, projections, alertWork, decided>>

AlertDies(w) ==
    /\ Leaves(w)
    /\ UNCHANGED <<work, routers, delivery, queue, letters>>
    /\ UNCHANGED <<projecting, projections, alertWork, decided>>

AlertLeaseExpires(e) ==
    /\ alertWork[e].status = "running" /\ alertWork[e].live
    /\ alertWork' = [alertWork EXCEPT ![e].live = FALSE]
    /\ UNCHANGED <<work, routers, delivery, queue, letters>>
    /\ UNCHANGED <<projecting, projections, decided, workers>>

-----------------------------------------------------------------------------
(* Specification *)

RouterStep(r) ==
    \/ RouteChecks(r) \/ RouteCommits(r) \/ ClaimBatch(r)
    \/ RouterFails(r) \/ RouterDies(r)

RoutingStep(e) ==
    \/ AppendSource(e) \/ RoutingWakeup(e) \/ RequestLost(e) \/ ClaimItem(e)
    \/ RoutingLeaseExpires(e) \/ EnqueueRetry(e) \/ ReconcileExpired(e)
    \/ DeliveryLeaseExpires(e)

ProjectionEnds(p) == ProjectAndAck(p) \/ ProjectionFails(p) \/ ProjectorDies(p)

AlertStep(w) ==
    \/ AlertStages(w) \/ AlertClaims(w) \/ AlertIssues(w) \/ AlertCompletes(w)
    \/ AlertRaises(w) \/ AlertRecordsFailure(w) \/ AlertErrs(w)
    \/ AlertAcknowledges(w) \/ AlertFails(w) \/ AlertDies(w)

Next ==
    \/ \E e \in Events : RoutingStep(e) /\ UNCHANGED subscribers
    \/ \E r \in routers : RouterStep(r) /\ UNCHANGED subscribers
    \/ \E e \in Events : ClaimProjection(e) \/ AlertBegins(e) \/ AlertLeaseExpires(e)
    \/ \E p \in projecting : ProjectionEnds(p)
    \/ \E w \in workers : AlertStep(w)

Clock(e) == RoutingLeaseExpires(e) \/ DeliveryLeaseExpires(e)
DeliveryJobs(e) == EnqueueRetry(e) \/ ReconcileExpired(e)

\* Leases expire, the jobs run, invocations end one way or another, and the
\* subscribers take what is queued for them.  A request to the router may be
\* lost, or overtaken by the job that sends it, any number of times but not
\* for ever.  No event is owed a turn before another.
Fairness ==
    /\ WF_vars(\E e \in Events : (Clock(e) \/ DeliveryJobs(e)) /\ UNCHANGED subscribers)
    /\ WF_vars(\E e \in Events : ClaimProjection(e) \/ AlertBegins(e))
    /\ WF_vars(\E e \in Events : RoutingWakeup(e) /\ UNCHANGED subscribers)
    /\ SF_vars(\E e \in Events : ClaimItem(e) /\ UNCHANGED subscribers)
    /\ WF_vars(\E r \in routers : RouterStep(r) /\ UNCHANGED subscribers)
    /\ WF_vars(\E p \in projecting : ProjectionEnds(p))

Spec == Init /\ [][Next]_vars /\ Fairness

-----------------------------------------------------------------------------
(* Properties *)

\* A subscriber's queue has one message for each delivery that is queued or
\* running and no other, through retries, expired leases and late workers, and
\* a delivery that is given up has one dead letter.
MessagesMatchDeliveries ==
    /\ queue = {Message(e) : e \in {f \in Events :
                                      delivery[f].status \in {"queued", "running"}}}
    /\ \A e \in Events :
          letters[e] = IF delivery[e].status = "dead_letter" THEN 1 ELSE 0

\* A source event is projected once if its delivery is acknowledged, and not at
\* all if it is not: a failed or repeated attempt leaves nothing behind.
ProjectedOnce ==
    \A e \in Events :
        projections[e] = IF Subscriber[e] = "projection" /\ delivery[e].status = "delivered"
                         THEN 1 ELSE 0

\* The log has a warehouse event only if a projection that makes it is
\* acknowledged, however many events the projection makes and however many
\* projections make the event; and nothing is decided about an order before that.
AlertsFollowProjections ==
    \A f \in Events :
        Derived(f) /\ (Logged(f) \/ f \in decided) =>
            \E e \in Events : f \in UNION Produces[e] /\ delivery[e].status = "delivered"

\* Order alerting acknowledges an event only after its alerts were decided,
\* by this invocation or by another that shares the work.
DeliveredMeansDecided ==
    \A e \in Events :
        Subscriber[e] = "alerting" /\ delivery[e].status = "delivered" => e \in decided

\* No late worker, retry, reconciliation or repeated routing changes a delivery
\* that was acknowledged or given up.
SettledStays ==
    [][\A e \in Events :
          delivery[e].status \in {"delivered", "dead_letter"} =>
              delivery'[e].status = delivery[e].status]_vars

\* Every event in the log is settled: delivered, given up with a dead letter,
\* given up by routing, or routed to nobody.
Settled(e) ==
    \/ work[e].status = "dead_letter"
    \/ work[e].status = "succeeded" /\ Subscriber[e] = "none"
    \/ delivery[e].status \in {"delivered", "dead_letter"}
EventsSettle == <>[](\A e \in Events : Logged(e) => Settled(e))

-----------------------------------------------------------------------------
(* The abstract fate of an event *)

Fates ==
    [e \in Events |-> CASE delivery[e].status = "delivered"   -> "delivered"
                        [] delivery[e].status = "dead_letter" -> "dead"
                        [] OTHER                              -> "open"]

Fate == INSTANCE EventFate WITH
    log <- {e \in Events : Logged(e)},
    fate <- Fates,
    projected <- projections

\* Two routers, a batch of the database and workers without number, any of them
\* late, retried or dead, settle an event as one step would, at most once.
EventsMeetOneFate == Fate!Spec
=============================================================================

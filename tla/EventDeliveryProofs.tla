------------------------- MODULE EventDeliveryProofs -------------------------
(***************************************************************************)
(* The safety of EventDelivery for every set of events, any subscriptions  *)
(* and any limit of attempts: an inductive invariant and what follows.     *)
(*                                                                         *)
(* A router, a projector or a worker may be late: the lease it began under *)
(* has ended and others have acted since.  What makes that harmless is     *)
(* what still holds of a late one (ActorsKnown) and what its token says    *)
(* when it is current: that the delivery is running, so not settled.       *)
(***************************************************************************)
EXTENDS EventDelivery, TLAPS, FiniteSetTheorems

\* Tokens and messages are as many as the attempts allow.
DeliveryShape ==
    \A e \in Events :
        LET d == delivery[e]
        IN /\ d.status = "none" => d = NoDelivery
           /\ d.status # "none" => 1 <= d.sent /\ d.sent <= d.token
           /\ d.token <= d.attempts + 1
           /\ d.status = "queued" => d.attempts < MaxAttempts
           /\ d.status = "retry_wait" => d.token <= d.attempts /\ d.attempts < MaxAttempts
           /\ d.status = "running" => d.token <= d.attempts

\* What is true of whoever acts for an event, however late.
ActorsKnown ==
    /\ \A r \in routers : Logged(r.event)
    /\ \A e \in Events : delivery[e].status # "none" => Logged(e)
    /\ \A p \in projecting : Subscriber[p.event] = "projection"
    /\ \A w \in workers : /\ Subscriber[w.event] = "alerting"
                          /\ Logged(w.event)
                          /\ w.at = "acknowledge" => w.event \in decided
    /\ \A e \in Events : alertWork[e].status = "succeeded" => e \in decided
    /\ \A e \in decided : Logged(e)

Inductive ==
    /\ TypeOK
    /\ DeliveryShape
    /\ ActorsKnown
    /\ MessagesMatchDeliveries
    /\ ProjectedOnce
    /\ AlertsFollowProjections
    /\ DeliveredMeansDecided

-----------------------------------------------------------------------------
(* What the routines do to deliveries, the queue and the dead letters *)

InQueue(e) == delivery[e].status \in {"queued", "running"}

\* MessagesMatchDeliveries, message by message.
QueueMatches ==
    /\ \A e \in Events, n \in 1 .. MaxAttempts :
          <<e, n>> \in queue <=> InQueue(e) /\ n = delivery[e].sent
    /\ \A e \in Events :
          letters[e] = IF delivery[e].status = "dead_letter" THEN 1 ELSE 0

\* The parts of the invariant about deliveries alone.
DeliveriesOK ==
    /\ delivery \in [Events -> Delivery]
    /\ queue \subseteq Events \X (1 .. MaxAttempts)
    /\ letters \in [Events -> Nat]
    /\ DeliveryShape
    /\ QueueMatches

LEMMA QueueReadings ==
    (/\ delivery \in [Events -> Delivery] /\ DeliveryShape
     /\ queue \subseteq Events \X (1 .. MaxAttempts))
    => (QueueMatches <=> MessagesMatchDeliveries)
<1> SUFFICES ASSUME delivery \in [Events -> Delivery], DeliveryShape,
                    queue \subseteq Events \X (1 .. MaxAttempts)
             PROVE  QueueMatches <=> MessagesMatchDeliveries
  OBVIOUS
<1>1. \A e \in Events : InQueue(e) => delivery[e].sent \in 1 .. MaxAttempts
  BY SMT DEF DeliveryShape, InQueue, Delivery
<1> DEFINE Wanted == {<<e, delivery[e].sent>> : e \in {f \in Events : InQueue(f)}}
<1>2. (\A e \in Events, n \in 1 .. MaxAttempts :
          <<e, n>> \in queue <=> InQueue(e) /\ n = delivery[e].sent) <=> queue = Wanted
  <2>1. ASSUME \A e \in Events, n \in 1 .. MaxAttempts :
                  <<e, n>> \in queue <=> InQueue(e) /\ n = delivery[e].sent
        PROVE  queue = Wanted
    <3>1. ASSUME NEW m \in queue PROVE m \in Wanted
      <4>1. PICK e \in Events, n \in 1 .. MaxAttempts : m = <<e, n>>
        OBVIOUS
      <4> QED BY <4>1, <2>1
    <3>2. Wanted \subseteq queue
      BY <1>1, <2>1
    <3> QED BY <3>1, <3>2
  <2>2. ASSUME queue = Wanted,
               NEW e \in Events, NEW n \in 1 .. MaxAttempts
        PROVE  <<e, n>> \in queue <=> InQueue(e) /\ n = delivery[e].sent
    <3>1. ASSUME <<e, n>> \in queue PROVE InQueue(e) /\ n = delivery[e].sent
      <4>1. PICK f \in Events : InQueue(f) /\ <<e, n>> = <<f, delivery[f].sent>>
        BY <2>2, <3>1
      <4> QED BY <4>1
    <3>2. ASSUME InQueue(e), n = delivery[e].sent PROVE <<e, n>> \in queue
      BY <2>2, <3>2
    <3> QED BY <3>1, <3>2
  <2> QED BY <2>1, <2>2
<1> QED BY <1>2 DEF QueueMatches, MessagesMatchDeliveries, Message, InQueue

\* Delivery e changes, and no other.
Only(e) == \A f \in Events \ {e} : delivery'[f] = delivery[f]

LEMMA EndedDelivery ==
    ASSUME NEW d \in Delivery, NEW s \in {"retry_wait", "delivered", "dead_letter"}
    PROVE  /\ Ended(d, s) \in Delivery
           /\ Ended(d, s).status = s
           /\ Ended(d, s).attempts = d.attempts
           /\ Ended(d, s).token = d.token /\ Ended(d, s).sent = d.sent
BY DEF Ended, Delivery

LEMMA QueuedDelivery ==
    ASSUME EventAssumption, NEW d \in Delivery,
           d.attempts < MaxAttempts, d.token <= d.attempts, d.sent <= d.token
    PROVE  /\ Queued(d) \in Delivery
           /\ Queued(d).status = "queued"
           /\ Queued(d).attempts = d.attempts
           /\ Queued(d).token = d.token + 1 /\ Queued(d).sent = d.sent + 1
<1>1. d.token + 1 \in 0 .. MaxAttempts /\ d.sent + 1 \in 0 .. MaxAttempts
  BY SMT DEF EventAssumption, Delivery
<1> QED BY <1>1 DEF Queued, Delivery

\* A step that changes delivery e only, and neither acknowledges it nor takes
\* an acknowledgement back.
StaysOpen(e) ==
    /\ delivery[e].status \notin {"delivered", "dead_letter"}
    /\ delivery'[e].status # "delivered"
    /\ Only(e)

\* begin_delivery.
LEMMA BeginKeeps ==
    ASSUME EventAssumption, DeliveriesOK, NEW e \in Events, Begin(e)
    PROVE  DeliveriesOK' /\ StaysOpen(e) /\ delivery[e].status # "none"
<1>1. /\ delivery' \in [Events -> Delivery]
      /\ InQueue(e) /\ delivery'[e].status = "running"
      /\ delivery'[e].attempts = delivery[e].attempts + 1
      /\ delivery'[e].token = delivery[e].token /\ delivery'[e].sent = delivery[e].sent
      /\ Only(e)
  BY SMT DEF EventAssumption, DeliveriesOK, Begin, Delivery, InQueue, Only
<1>2. DeliveryShape'
  BY <1>1, SMT DEF DeliveriesOK, DeliveryShape, Delivery, InQueue, Only
<1>3. QueueMatches'
  BY <1>1, SMT DEF DeliveriesOK, QueueMatches, Begin, InQueue, Only
<1> QED BY <1>1, <1>2, <1>3 DEF DeliveriesOK, Begin, StaysOpen, InQueue

\* Whatever ends in a dead letter.
LEMMA DeadLetterKeeps ==
    ASSUME EventAssumption, DeliveriesOK, NEW e \in Events,
           delivery[e].status = "running", DeadLetter(e)
    PROVE  DeliveriesOK' /\ StaysOpen(e) /\ delivery[e].status # "none"
<1>1. /\ delivery' \in [Events -> Delivery]
      /\ delivery'[e].status = "dead_letter"
      /\ delivery'[e].attempts = delivery[e].attempts
      /\ delivery'[e].token = delivery[e].token /\ delivery'[e].sent = delivery[e].sent
      /\ Only(e)
  BY EndedDelivery DEF DeliveriesOK, DeadLetter, Only
<1>2. DeliveryShape'
  BY <1>1, SMT DEF DeliveriesOK, DeliveryShape, Delivery, Only
<1>3. QueueMatches'
  BY <1>1, SMT DEF DeliveriesOK, QueueMatches, DeadLetter, Message, InQueue, Only
<1>4. queue' \subseteq Events \X (1 .. MaxAttempts) /\ letters' \in [Events -> Nat]
  BY SMT DEF DeliveriesOK, DeadLetter
<1> QED BY <1>1, <1>2, <1>3, <1>4 DEF DeliveriesOK, StaysOpen

\* fail_delivery.
LEMMA FailKeeps ==
    ASSUME EventAssumption, DeliveriesOK, NEW e \in Events,
           delivery[e].status = "running", Fail(e)
    PROVE  DeliveriesOK' /\ StaysOpen(e) /\ delivery[e].status # "none"
<1>1. CASE delivery[e].attempts >= MaxAttempts
  BY <1>1, DeadLetterKeeps DEF Fail
<1>2. CASE ~ delivery[e].attempts >= MaxAttempts
  <2>1. /\ delivery' \in [Events -> Delivery]
        /\ delivery'[e].status = "retry_wait"
        /\ delivery'[e].attempts = delivery[e].attempts
        /\ delivery'[e].token = delivery[e].token /\ delivery'[e].sent = delivery[e].sent
        /\ Only(e)
    BY <1>2, EndedDelivery DEF DeliveriesOK, Fail, Only
  <2>2. DeliveryShape'
    BY <1>2, <2>1, SMT DEF EventAssumption, DeliveriesOK, DeliveryShape, Delivery, Only
  <2>3. QueueMatches'
    BY <1>2, <2>1, SMT DEF DeliveriesOK, QueueMatches, Fail, Message, InQueue, Only
  <2>4. queue' \subseteq Events \X (1 .. MaxAttempts) /\ letters' \in [Events -> Nat]
    BY <1>2, SMT DEF DeliveriesOK, Fail
  <2> QED BY <2>1, <2>2, <2>3, <2>4 DEF DeliveriesOK, StaysOpen
<1> QED BY <1>1, <1>2

\* A new message: route_event and enqueue_due_delivery_retries.
LEMMA QueuedKeeps ==
    ASSUME EventAssumption, DeliveriesOK, NEW e \in Events,
           delivery[e].status \in {"none", "retry_wait"},
           delivery' = [delivery EXCEPT ![e] = Queued(@)],
           queue' = queue \cup {<<e, delivery'[e].sent>>},
           UNCHANGED letters
    PROVE  DeliveriesOK' /\ StaysOpen(e)
<1>1. /\ delivery[e].attempts < MaxAttempts
      /\ delivery[e].token <= delivery[e].attempts /\ delivery[e].sent <= delivery[e].token
      /\ delivery[e] \in Delivery
  BY SMT DEF EventAssumption, DeliveriesOK, DeliveryShape, Delivery, NoDelivery
<1>2. /\ Queued(delivery[e]) \in Delivery
      /\ Queued(delivery[e]).status = "queued"
      /\ Queued(delivery[e]).attempts = delivery[e].attempts
      /\ Queued(delivery[e]).token = delivery[e].token + 1
      /\ Queued(delivery[e]).sent = delivery[e].sent + 1
  BY <1>1, QueuedDelivery
<1>3. /\ delivery' \in [Events -> Delivery]
      /\ delivery'[e] = Queued(delivery[e]) /\ Only(e)
  BY <1>2, SMT DEF DeliveriesOK, Only
<1>4. DeliveryShape'
  BY <1>1, <1>2, <1>3, SMT DEF DeliveriesOK, DeliveryShape, Delivery, Only
<1>5. QueueMatches'
  BY <1>2, <1>3, SMT DEF DeliveriesOK, QueueMatches, InQueue, Only
<1>6. delivery'[e].sent \in 1 .. MaxAttempts
  BY <1>1, <1>2, <1>3, SMT DEF Delivery, EventAssumption
<1> QED BY <1>2, <1>3, <1>4, <1>5, <1>6 DEF DeliveriesOK, StaysOpen

\* reconcile_expired_deliveries.
LEMMA ReconcileKeeps ==
    ASSUME EventAssumption, DeliveriesOK, NEW e \in Events, ReconcileExpired(e)
    PROVE  DeliveriesOK' /\ StaysOpen(e) /\ delivery[e].status # "none"
<1>1. CASE delivery[e].attempts >= MaxAttempts
  BY <1>1, DeadLetterKeeps DEF ReconcileExpired
<1>2. CASE ~ delivery[e].attempts >= MaxAttempts
  <2>1. delivery[e] \in Delivery /\ delivery[e].token <= delivery[e].attempts
    BY SMT DEF DeliveriesOK, DeliveryShape, ReconcileExpired
  <2>2. /\ delivery' \in [Events -> Delivery]
        /\ delivery'[e].status = "queued"
        /\ delivery'[e].attempts = delivery[e].attempts
        /\ delivery'[e].token = delivery[e].token + 1 /\ delivery'[e].sent = delivery[e].sent
        /\ Only(e)
    BY <1>2, <2>1, SMT DEF EventAssumption, DeliveriesOK, ReconcileExpired, Delivery, Only
  <2>3. DeliveryShape'
    BY <1>2, <2>1, <2>2, SMT DEF EventAssumption, DeliveriesOK, DeliveryShape,
                                 ReconcileExpired, Delivery, Only
  <2>4. QueueMatches'
    BY <1>2, <2>2, SMT DEF DeliveriesOK, QueueMatches, ReconcileExpired, InQueue, Only
  <2> QED BY <1>2, <2>2, <2>3, <2>4 DEF DeliveriesOK, ReconcileExpired, StaysOpen
<1> QED BY <1>1, <1>2 DEF ReconcileExpired

LEMMA LeaseKeeps ==
    ASSUME EventAssumption, DeliveriesOK, NEW e \in Events, DeliveryLeaseExpires(e)
    PROVE  DeliveriesOK' /\ StaysOpen(e) /\ delivery[e].status # "none"
<1>1. /\ delivery' \in [Events -> Delivery]
      /\ delivery'[e].status = delivery[e].status
      /\ delivery'[e].attempts = delivery[e].attempts
      /\ delivery'[e].token = delivery[e].token /\ delivery'[e].sent = delivery[e].sent
      /\ Only(e)
  <2>1. delivery[e] \in Delivery
    BY DEF DeliveriesOK
  <2>2. /\ [delivery[e] EXCEPT !.live = FALSE] \in Delivery
        /\ [delivery[e] EXCEPT !.live = FALSE].status = delivery[e].status
        /\ [delivery[e] EXCEPT !.live = FALSE].attempts = delivery[e].attempts
        /\ [delivery[e] EXCEPT !.live = FALSE].token = delivery[e].token
        /\ [delivery[e] EXCEPT !.live = FALSE].sent = delivery[e].sent
    BY <2>1 DEF Delivery
  <2>3. delivery' = [delivery EXCEPT ![e] = [delivery[e] EXCEPT !.live = FALSE]]
    BY DEF DeliveryLeaseExpires
  <2> QED BY <2>2, <2>3 DEF DeliveriesOK, Only
<1>2. DeliveryShape'
  BY <1>1, SMT DEF DeliveriesOK, DeliveryShape, DeliveryLeaseExpires, Delivery, Only
<1>3. QueueMatches'
  BY <1>1, SMT DEF DeliveriesOK, QueueMatches, DeliveryLeaseExpires, InQueue, Only
<1> QED BY <1>1, <1>2, <1>3 DEF DeliveriesOK, DeliveryLeaseExpires, StaysOpen

\* ack_delivery.
LEMMA AcknowledgeKeeps ==
    ASSUME EventAssumption, DeliveriesOK, NEW e \in Events,
           delivery[e].status = "running", Acknowledge(e)
    PROVE  DeliveriesOK' /\ delivery'[e].status = "delivered" /\ Only(e)
<1>1. /\ delivery' \in [Events -> Delivery]
      /\ delivery'[e].status = "delivered"
      /\ delivery'[e].attempts = delivery[e].attempts
      /\ delivery'[e].token = delivery[e].token /\ delivery'[e].sent = delivery[e].sent
      /\ Only(e)
  BY EndedDelivery DEF DeliveriesOK, Acknowledge, Only
<1>2. DeliveryShape'
  BY <1>1, SMT DEF DeliveriesOK, DeliveryShape, Delivery, Only
<1>3. QueueMatches'
  BY <1>1, SMT DEF DeliveriesOK, QueueMatches, Acknowledge, Message, InQueue, Only
<1> QED BY <1>1, <1>2, <1>3 DEF DeliveriesOK, Acknowledge

-----------------------------------------------------------------------------
(* The invariant, by kinds of step *)

LEMMA InductiveParts ==
    Inductive => DeliveriesOK
BY QueueReadings DEF Inductive, TypeOK, RoutingTypeOK, DeliveriesOK

\* Routing steps that do not touch a delivery: what they add to the log is no
\* warehouse event, and a claim is for an event in the log.
LEMMA WorkStep ==
    ASSUME EventAssumption, Inductive,
           UNCHANGED <<delivery, queue, letters>>, UNCHANGED subscribers,
           work' \in [Events -> Work], routers' \subseteq Router,
           \A e \in Events : Logged(e) => Logged(e)',
           \A f \in Events : Derived(f) /\ Logged(f)' => Logged(f),
           \A r \in routers' : Logged(r.event)'
    PROVE  Inductive'
<1>1. TypeOK'
  BY DEF Inductive, TypeOK, RoutingTypeOK, subscribers
<1>2. DeliveryShape' /\ MessagesMatchDeliveries' /\ ProjectedOnce' /\ DeliveredMeansDecided'
  BY DEF Inductive, DeliveryShape, MessagesMatchDeliveries, Message, ProjectedOnce,
         DeliveredMeansDecided, subscribers
<1>3. ActorsKnown'
  BY DEF Inductive, ActorsKnown, TypeOK, Worker, subscribers
<1>4. AlertsFollowProjections'
  BY DEF Inductive, AlertsFollowProjections, subscribers
<1> QED BY <1>1, <1>2, <1>3, <1>4 DEF Inductive

\* Steps of jobs, subscribers and the clock that leave delivery e open.
LEMMA OpenStep ==
    ASSUME EventAssumption, Inductive, NEW e \in Events,
           DeliveriesOK', StaysOpen(e), delivery[e].status # "none",
           UNCHANGED <<work, routers, projections, alertWork, decided>>,
           projecting' \subseteq Projecting, Cardinality(projecting') <= 1,
           \A p \in projecting' : Subscriber[p.event] = "projection",
           workers' \subseteq Worker,
           \A w \in workers' : /\ Subscriber[w.event] = "alerting"
                               /\ Logged(w.event)
                               /\ w.at = "acknowledge" => w.event \in decided
    PROVE  Inductive'
<1>1. TypeOK' /\ DeliveryShape'
  BY DEF Inductive, TypeOK, RoutingTypeOK, DeliveriesOK
<1>2. MessagesMatchDeliveries'
  <2>1. /\ delivery' \in [Events -> Delivery] /\ DeliveryShape'
        /\ queue' \subseteq Events \X (1 .. MaxAttempts) /\ QueueMatches'
    BY DEF DeliveriesOK
  <2>2. ((/\ delivery \in [Events -> Delivery] /\ DeliveryShape
          /\ queue \subseteq Events \X (1 .. MaxAttempts))
         => (QueueMatches <=> MessagesMatchDeliveries))'
    BY QueueReadings, PTL
  <2> QED BY <2>1, <2>2
<1>3. \A f \in Events : delivery'[f].status = "delivered" <=> delivery[f].status = "delivered"
  BY DEF StaysOpen, Only
<1>4. ProjectedOnce' /\ DeliveredMeansDecided'
  BY <1>3 DEF Inductive, ProjectedOnce, DeliveredMeansDecided
<1>5. AlertsFollowProjections'
  BY <1>3 DEF Inductive, AlertsFollowProjections, Logged
<1>6. ActorsKnown'
  BY DEF Inductive, ActorsKnown, StaysOpen, Only, Logged
<1> QED BY <1>1, <1>2, <1>4, <1>5, <1>6 DEF Inductive

\* Steps of alert workers that leave the deliveries alone: work succeeds when
\* its event is decided, and only what is decided is acknowledged.
LEMMA AlertingStep ==
    ASSUME EventAssumption, Inductive,
           UNCHANGED <<work, routers, delivery, queue, letters, projecting, projections>>,
           alertWork' \in [Events -> AlertWork],
           workers' \subseteq Worker,
           decided \subseteq decided', decided' \subseteq Events,
           \A e \in decided' : Logged(e),
           \A e \in Events : alertWork'[e].status = "succeeded" => e \in decided',
           \A w \in workers' : /\ Subscriber[w.event] = "alerting"
                               /\ Logged(w.event)
                               /\ w.at = "acknowledge" => w.event \in decided'
    PROVE  Inductive'
<1>1. TypeOK'
  BY DEF Inductive, TypeOK, RoutingTypeOK
<1>2. DeliveryShape' /\ MessagesMatchDeliveries' /\ ProjectedOnce' /\ DeliveredMeansDecided'
  BY DEF Inductive, DeliveryShape, MessagesMatchDeliveries, Message, ProjectedOnce,
         DeliveredMeansDecided
<1>3. ActorsKnown'
  BY DEF Inductive, ActorsKnown, Logged
<1>4. AlertsFollowProjections'
  BY DEF Inductive, AlertsFollowProjections, Logged
<1> QED BY <1>1, <1>2, <1>3, <1>4 DEF Inductive

-----------------------------------------------------------------------------
(* Initial states *)

LEMMA InitInductive == ASSUME EventAssumption, Init PROVE Inductive
<1> USE DEF Init, RoutingInit, NoDelivery, NewWork
<1>1. TypeOK
  <2>1. Cardinality(projecting) <= 1
    BY FS_EmptySet
  <2>2. [NewWork EXCEPT !.status = "none"] \in Work /\ NoDelivery \in Delivery
    <3>1. 0 \in 0 .. MaxAttempts
      BY SMT DEF EventAssumption
    <3> QED BY <3>1 DEF Work, Delivery
  <2>3. alertWork \in [Events -> AlertWork]
    BY DEF AlertWork
  <2> QED BY <2>1, <2>2, <2>3 DEF TypeOK, RoutingTypeOK
<1>2. DeliveryShape
  BY SMT DEF EventAssumption, DeliveryShape
<1>3. ActorsKnown
  BY DEF ActorsKnown
<1>4. MessagesMatchDeliveries
  BY DEF MessagesMatchDeliveries
<1>5. ProjectedOnce /\ DeliveredMeansDecided
  BY DEF ProjectedOnce, DeliveredMeansDecided
<1>6. AlertsFollowProjections
  BY DEF AlertsFollowProjections, Logged
<1> QED BY <1>1, <1>2, <1>3, <1>4, <1>5, <1>6 DEF Inductive

-----------------------------------------------------------------------------
(* Routing *)

LEMMA WorkRecords ==
    ASSUME EventAssumption, NEW w \in Work
    PROVE  /\ \A s \in {"succeeded", "retry_wait", "dead_letter"} :
                 /\ Ended(w, s) \in Work /\ Ended(w, s).status = s
                 /\ \A b \in BOOLEAN :
                      [w EXCEPT !.status = s, !.live = FALSE, !.posted = b] \in Work
           /\ [w EXCEPT !.posted = FALSE] \in Work
           /\ [w EXCEPT !.live = FALSE] \in Work
           /\ w.attempts < MaxAttempts =>
                 /\ Claimed(w) \in Work /\ Claimed(w).status = "running"
                 /\ w.attempts + 1 \in 1 .. MaxAttempts
<1>1. w.attempts < MaxAttempts =>
        w.attempts + 1 \in 0 .. MaxAttempts /\ w.attempts + 1 \in 1 .. MaxAttempts
  BY SMT DEF Work, EventAssumption
<1>2. w.attempts < MaxAttempts => Claimed(w) \in Work /\ Claimed(w).status = "running"
  BY <1>1 DEF Claimed, Work
<1> QED BY <1>1, <1>2 DEF Ended, Work

\* What an append does to the log.
LEMMA AppendLogs ==
    ASSUME EventAssumption, work \in [Events -> Work], NEW S \in SUBSET Events, Append(S)
    PROVE  /\ work' \in [Events -> Work]
           /\ \A f \in Events : Logged(f)' <=> Logged(f) \/ f \in S
<1>1. NewWork \in Work /\ NewWork.status = "pending"
  <2>1. 0 \in 0 .. MaxAttempts BY SMT DEF EventAssumption
  <2> QED BY <2>1 DEF NewWork, Work
<1> QED BY <1>1 DEF Append, Logged

LEMMA RoutingKeeps ==
    ASSUME EventAssumption, Inductive, UNCHANGED subscribers, NEW e \in Events,
           \/ AppendSource(e) \/ RoutingWakeup(e) \/ RequestLost(e)
           \/ ClaimItem(e) \/ RoutingLeaseExpires(e)
    PROVE  Inductive'
<1> USE DEF Inductive, TypeOK, RoutingTypeOK, Logged
<1>1. CASE AppendSource(e)
  <2>1. /\ work' \in [Events -> Work]
        /\ \A f \in Events : Logged(f)' <=> Logged(f) \/ f = e
    BY <1>1, AppendLogs DEF AppendSource
  <2>2. \A f \in Events : Derived(f) /\ Logged(f)' => Logged(f)
    BY <1>1, <2>1 DEF AppendSource
  <2>3. \A r \in routers : Logged(r.event) /\ r.event \in Events
    BY DEF ActorsKnown, Router
  <2> QED BY <1>1, <2>1, <2>2, <2>3, WorkStep DEF AppendSource
<1>2. CASE RoutingWakeup(e)
  <2>1. work' \in [Events -> Work]
    <3>1. PICK s \in {"retry_wait", "dead_letter"}, b \in BOOLEAN :
             work' = [work EXCEPT ![e] = [work[e] EXCEPT !.status = s, !.live = FALSE,
                                                         !.posted = b]]
      BY <1>2 DEF RoutingWakeup
    <3> QED BY <3>1, WorkRecords
  <2>2. Logged(e) /\ \A f \in Events : Logged(f)' <=> Logged(f)
    BY <1>2, SMT DEF RoutingWakeup, Due, Work
  <2>3. \A r \in routers : Logged(r.event) /\ r.event \in Events
    BY DEF ActorsKnown, Router
  <2> QED BY <1>2, <2>1, <2>2, <2>3, WorkStep DEF RoutingWakeup
<1>3. CASE RequestLost(e)
  <2>1. work' \in [Events -> Work]
    BY <1>3, WorkRecords DEF RequestLost
  <2>2. \A f \in Events : Logged(f)' <=> Logged(f)
    BY <1>3 DEF RequestLost, Work
  <2>3. \A r \in routers : Logged(r.event) /\ r.event \in Events
    BY DEF ActorsKnown, Router
  <2> QED BY <1>3, <2>1, <2>2, <2>3, WorkStep DEF RequestLost
<1>4. CASE ClaimItem(e)
  <2>1. Claimed(work[e]) \in Work /\ Claimed(work[e]).status = "running"
    BY <1>4, WorkRecords DEF ClaimItem, Claimable
  <2>2. work' \in [Events -> Work] /\ Logged(e)
    BY <1>4, <2>1 DEF ClaimItem, Claimable, Due
  <2>3. \A f \in Events : Logged(f)' <=> Logged(f)
    BY <1>4, <2>1, <2>2 DEF ClaimItem
  <2>4. work[e].attempts + 1 \in 1 .. MaxAttempts
    BY <1>4, WorkRecords DEF ClaimItem, Claimable
  <2>5. routers' \subseteq Router
    <3>1. [event |-> e, attempt |-> work[e].attempts + 1, own |-> TRUE, at |-> "claimed"]
             \in Router
      BY <2>4 DEF Router
    <3> QED BY <1>4, <3>1 DEF ClaimItem
  <2>6. \A r \in routers' : Logged(r.event) /\ r.event \in Events
    BY <1>4, <2>2, <2>5 DEF ClaimItem, ActorsKnown, Router
  <2> QED BY <1>4, <2>2, <2>3, <2>5, <2>6, WorkStep DEF ClaimItem
<1>5. CASE RoutingLeaseExpires(e)
  <2>1. work' \in [Events -> Work]
    BY <1>5, WorkRecords DEF RoutingLeaseExpires
  <2>2. \A f \in Events : Logged(f)' <=> Logged(f)
    BY <1>5 DEF RoutingLeaseExpires, Work
  <2>3. \A r \in routers : Logged(r.event) /\ r.event \in Events
    BY DEF ActorsKnown, Router
  <2> QED BY <1>5, <2>1, <2>2, <2>3, WorkStep DEF RoutingLeaseExpires
<1> QED BY <1>1, <1>2, <1>3, <1>4, <1>5

LEMMA RouterKeeps ==
    ASSUME EventAssumption, Inductive, UNCHANGED subscribers, NEW r \in routers,
           \/ RouteChecks(r) \/ ClaimBatch(r) \/ RouterFails(r) \/ RouterDies(r)
    PROVE  Inductive'
<1> USE DEF Inductive, TypeOK, RoutingTypeOK, Logged
<1>1. r \in Router /\ r.event \in Events
  BY DEF Router
<1>2. \A s \in routers : Logged(s.event) /\ s.event \in Events
  BY DEF ActorsKnown, Router
<1>3. CASE RouteChecks(r)
  <2>1. [r EXCEPT !.at = "routing"] \in Router /\ [r EXCEPT !.at = "routing"].event = r.event
    BY <1>1 DEF Router
  <2>2. routers' \subseteq Router /\ \A s \in routers' : Logged(s.event)
    BY <1>2, <1>3, <2>1 DEF RouteChecks
  <2> QED BY <1>3, <2>2, WorkStep DEF RouteChecks
<1>4. CASE ClaimBatch(r)
  <2>1. PICK S \in SUBSET {e \in Events : Claimable(e)} :
          /\ work' = [e \in Events |-> IF e \in S THEN Claimed(work[e]) ELSE work[e]]
          /\ routers' = (routers \ {r}) \cup
                {[event |-> e, attempt |-> work[e].attempts + 1,
                  own |-> FALSE, at |-> "claimed"] : e \in S}
    BY <1>4 DEF ClaimBatch
  <2>2. \A e \in S : /\ e \in Events /\ Logged(e)
                     /\ Claimed(work[e]) \in Work /\ Claimed(work[e]).status = "running"
                     /\ work[e].attempts + 1 \in 1 .. MaxAttempts
    BY WorkRecords DEF Claimable, Due
  <2>3. work' \in [Events -> Work] /\ \A f \in Events : Logged(f)' <=> Logged(f)
    BY <2>1, <2>2
  <2>4. routers' \subseteq Router
    <3>1. \A e \in S : [event |-> e, attempt |-> work[e].attempts + 1,
                        own |-> FALSE, at |-> "claimed"] \in Router
      BY <2>2 DEF Router
    <3> QED BY <2>1, <3>1
  <2>5. \A s \in routers' : Logged(s.event) /\ s.event \in Events
    BY <1>2, <2>1, <2>2
  <2> QED BY <1>4, <2>3, <2>4, <2>5, WorkStep DEF ClaimBatch
<1>5. CASE RouterFails(r)
  <2>1. work' \in [Events -> Work]
    BY <1>1, <1>5, WorkRecords DEF RouterFails
  <2>2. \A f \in Events : Logged(f)' <=> Logged(f)
    BY <1>1, <1>2, <1>5, WorkRecords DEF RouterFails
  <2> QED BY <1>2, <1>5, <2>1, <2>2, WorkStep DEF RouterFails
<1>6. CASE RouterDies(r)
  BY <1>2, <1>6, WorkStep DEF RouterDies
<1> QED BY <1>3, <1>4, <1>5, <1>6

\* route_event commits, however late: the delivery is made once.
LEMMA RouteCommitsKeeps ==
    ASSUME EventAssumption, Inductive, UNCHANGED subscribers,
           NEW r \in routers, RouteCommits(r)
    PROVE  Inductive'
<1> USE DEF Inductive, TypeOK, RoutingTypeOK, subscribers
<1> DEFINE e == r.event
<1>1. r \in Router /\ e \in Events /\ Logged(e)
  BY DEF ActorsKnown, Router
<1>2. /\ work' \in [Events -> Work]
      /\ \A f \in Events : Logged(f)' <=> Logged(f)
  BY <1>1, WorkRecords DEF RouteCommits, Logged
<1>3. routers' \subseteq Router /\ \A s \in routers' : Logged(s.event)'
  <2>1. [r EXCEPT !.at = "batching"] \in Router /\ [r EXCEPT !.at = "batching"].event = e
    BY <1>1 DEF Router
  <2>2. routers' \subseteq Router /\ \A s \in routers' : Logged(s.event) /\ s.event \in Events
    BY <1>1, <2>1 DEF RouteCommits, ActorsKnown, Router
  <2> QED BY <1>2, <2>2
<1>4. /\ DeliveriesOK' /\ Only(e)
      /\ \A f \in Events : delivery'[f].status = "delivered" <=>
                           delivery[f].status = "delivered"
  <2>1. CASE Subscriber[e] # "none" /\ delivery[e].status = "none"
    <3>1. DeliveriesOK' /\ StaysOpen(e)
      BY <1>1, <2>1, InductiveParts, QueuedKeeps DEF RouteCommits
    <3> QED BY <3>1 DEF StaysOpen, Only
  <2>2. CASE ~(Subscriber[e] # "none" /\ delivery[e].status = "none")
    <3>1. UNCHANGED <<delivery, queue, letters>>
      BY <2>2 DEF RouteCommits
    <3>2. DeliveriesOK'
      BY <3>1, InductiveParts DEF DeliveriesOK, DeliveryShape, QueueMatches, InQueue
    <3> QED BY <3>1, <3>2 DEF Only
  <2> QED BY <2>1, <2>2
<1>5. TypeOK' /\ DeliveryShape'
  BY <1>2, <1>3, <1>4 DEF DeliveriesOK
<1>6. MessagesMatchDeliveries'
  <2>1. ((/\ delivery \in [Events -> Delivery] /\ DeliveryShape
          /\ queue \subseteq Events \X (1 .. MaxAttempts))
         => (QueueMatches <=> MessagesMatchDeliveries))'
    BY QueueReadings, PTL
  <2> QED BY <1>4, <2>1 DEF DeliveriesOK
<1>7. ProjectedOnce' /\ DeliveredMeansDecided'
  BY <1>4 DEF ProjectedOnce, DeliveredMeansDecided
<1>8. AlertsFollowProjections'
  BY <1>2, <1>4 DEF AlertsFollowProjections
<1>9. ActorsKnown'
  BY <1>1, <1>2, <1>3, <1>4 DEF ActorsKnown, Only, Worker
<1> QED BY <1>5, <1>6, <1>7, <1>8, <1>9

-----------------------------------------------------------------------------
(* Deliveries and the projection *)

LEMMA DeliveryJobsKeep ==
    ASSUME EventAssumption, Inductive, UNCHANGED subscribers, NEW e \in Events,
           EnqueueRetry(e) \/ ReconcileExpired(e) \/ DeliveryLeaseExpires(e)
    PROVE  Inductive'
<1>1. DeliveriesOK' /\ StaysOpen(e) /\ delivery[e].status # "none"
  <2>1. CASE EnqueueRetry(e)
    BY <2>1, InductiveParts, QueuedKeeps DEF EnqueueRetry
  <2>2. CASE ReconcileExpired(e)
    BY <2>2, InductiveParts, ReconcileKeeps
  <2>3. CASE DeliveryLeaseExpires(e)
    BY <2>3, InductiveParts, LeaseKeeps
  <2> QED BY <2>1, <2>2, <2>3
<1>2. UNCHANGED <<work, routers>>
  BY DEF EnqueueRetry, ReconcileExpired, DeliveryLeaseExpires
<1> QED BY <1>1, <1>2, OpenStep DEF Inductive, TypeOK, ActorsKnown, subscribers

LEMMA ClaimProjectionKeeps ==
    ASSUME EventAssumption, Inductive, NEW e \in Events, ClaimProjection(e)
    PROVE  Inductive'
<1>1. DeliveriesOK' /\ StaysOpen(e) /\ delivery[e].status # "none"
  BY InductiveParts, BeginKeeps DEF ClaimProjection
<1>2. delivery[e].token \in 1 .. MaxAttempts
  BY <1>1, SMT DEF ClaimProjection, Inductive, TypeOK, RoutingTypeOK, DeliveryShape, Delivery
<1>3. projecting' \subseteq Projecting /\ Cardinality(projecting') <= 1
  <2>1. Cardinality(projecting') = 1
    BY FS_Singleton DEF ClaimProjection
  <2> QED BY <1>2, <2>1 DEF ClaimProjection, Projecting
<1>4. \A p \in projecting' : Subscriber[p.event] = "projection"
  BY DEF ClaimProjection
<1> QED BY <1>1, <1>3, <1>4, OpenStep DEF ClaimProjection, Inductive, TypeOK, ActorsKnown

LEMMA ProjectionEndsKeeps ==
    ASSUME EventAssumption, Inductive, NEW p \in projecting,
           ProjectionFails(p) \/ ProjectorDies(p)
    PROVE  Inductive'
<1> USE DEF Inductive, TypeOK
<1>1. projecting' = {} /\ Cardinality({}) = 0 /\ p.event \in Events
  BY FS_EmptySet DEF ProjectionFails, ProjectorDies, Projecting
<1>2. CASE UNCHANGED <<delivery, queue, letters>>
  <2>1. UNCHANGED <<work, routers, projections, alertWork, decided, workers>>
    BY DEF ProjectionFails, ProjectorDies
  <2>2. TypeOK'
    BY <1>1, <1>2, <2>1 DEF RoutingTypeOK
  <2>3. DeliveryShape' /\ MessagesMatchDeliveries' /\ ProjectedOnce'
    BY <1>2, <2>1 DEF DeliveryShape, MessagesMatchDeliveries, Message, ProjectedOnce
  <2>4. DeliveredMeansDecided' /\ AlertsFollowProjections'
    BY <1>2, <2>1 DEF DeliveredMeansDecided, AlertsFollowProjections, Logged
  <2>5. ActorsKnown'
    BY <1>1, <1>2, <2>1 DEF ActorsKnown, Logged
  <2> QED BY <2>2, <2>3, <2>4, <2>5
<1>3. CASE ~ UNCHANGED <<delivery, queue, letters>>
  <2>1. ProjectionFails(p) /\ Current(p.event, p.token) /\ Fail(p.event)
    BY <1>3 DEF ProjectionFails, ProjectorDies
  <2>2. DeliveriesOK' /\ StaysOpen(p.event) /\ delivery[p.event].status # "none"
    BY <1>1, <2>1, InductiveParts, FailKeeps DEF Current
  <2> QED BY <1>1, <2>1, <2>2, OpenStep DEF ProjectionFails, ActorsKnown
<1> QED BY <1>2, <1>3

\* The projection and its acknowledgement are one transaction, of a delivery
\* that is running: neither acknowledged nor projected before.
LEMMA ProjectAndAckKeeps ==
    ASSUME EventAssumption, Inductive, NEW p \in projecting, ProjectAndAck(p)
    PROVE  Inductive'
<1> USE DEF Inductive, TypeOK, RoutingTypeOK
<1> DEFINE e == p.event
<1>1. /\ e \in Events /\ Subscriber[e] = "projection" /\ delivery[e].status = "running"
      /\ Logged(e)
  BY DEF Projecting, ActorsKnown, ProjectAndAck, Current
<1>2. DeliveriesOK' /\ delivery'[e].status = "delivered" /\ Only(e)
  BY <1>1, InductiveParts, AcknowledgeKeeps DEF ProjectAndAck
<1>3. PICK S \in Produces[e] : Append(S)
  BY DEF ProjectAndAck
<1>4. /\ work' \in [Events -> Work]
      /\ \A f \in Events : Logged(f)' <=> Logged(f) \/ f \in S
  <2>1. S \subseteq Events
    BY <1>1, <1>3 DEF EventAssumption
  <2> QED BY <1>3, <2>1, AppendLogs
<1>5. TypeOK' /\ DeliveryShape'
  <2>1. projecting' = {} /\ Cardinality({}) = 0
    BY FS_EmptySet DEF ProjectAndAck
  <2>2. projections' \in [Events -> Nat]
    BY <1>1 DEF ProjectAndAck
  <2> QED BY <1>2, <1>4, <2>1, <2>2 DEF ProjectAndAck, DeliveriesOK
<1>6. MessagesMatchDeliveries'
  <2>1. ((/\ delivery \in [Events -> Delivery] /\ DeliveryShape
          /\ queue \subseteq Events \X (1 .. MaxAttempts))
         => (QueueMatches <=> MessagesMatchDeliveries))'
    BY QueueReadings, PTL
  <2> QED BY <1>2, <2>1 DEF DeliveriesOK
<1>7. ProjectedOnce'
  <2>1. projections[e] = 0
    BY <1>1 DEF ProjectedOnce
  <2> QED BY <1>1, <1>2, <2>1 DEF ProjectAndAck, ProjectedOnce, Only
<1>8. DeliveredMeansDecided'
  BY <1>1, <1>2 DEF ProjectAndAck, DeliveredMeansDecided, Only
<1>9. AlertsFollowProjections'
  <2> SUFFICES ASSUME NEW f \in Events, Derived(f), Logged(f)' \/ f \in decided'
               PROVE  \E h \in Events : f \in UNION Produces[h]
                                       /\ delivery'[h].status = "delivered"
    BY DEF AlertsFollowProjections, Derived
  <2>1. CASE Logged(f) \/ f \in decided
    <3>1. PICK h \in Events : f \in UNION Produces[h] /\ delivery[h].status = "delivered"
      BY <2>1 DEF AlertsFollowProjections
    <3> QED BY <1>1, <1>2, <3>1 DEF Only
  <2>2. CASE f \in S
    BY <1>1, <1>2, <1>3, <2>2
  <2> QED BY <1>4, <2>1, <2>2 DEF ProjectAndAck
<1>10. ActorsKnown'
  <2>1. UNCHANGED <<routers, alertWork, decided, workers>> /\ projecting' = {}
    BY DEF ProjectAndAck
  <2>2. \A r \in routers : Logged(r.event)'
    BY <1>4 DEF ActorsKnown, Router
  <2>3. \A f \in Events : delivery'[f].status # "none" => Logged(f)'
    BY <1>1, <1>2, <1>4 DEF ActorsKnown, Only
  <2>4. \A w \in workers : Logged(w.event)'
    BY <1>4 DEF ActorsKnown, Worker
  <2>5. \A f \in decided : Logged(f)'
    BY <1>4 DEF ActorsKnown
  <2> QED BY <2>1, <2>2, <2>3, <2>4, <2>5 DEF ActorsKnown
<1> QED BY <1>5, <1>6, <1>7, <1>8, <1>9, <1>10

-----------------------------------------------------------------------------
(* Order alerting *)

LEMMA AlertBeginsKeeps ==
    ASSUME EventAssumption, Inductive, NEW e \in Events, AlertBegins(e)
    PROVE  Inductive'
<1> USE DEF Inductive, TypeOK, RoutingTypeOK
<1> DEFINE w == [event |-> e, attempt |-> delivery[e].attempts + 1,
                 token |-> delivery[e].token, at |-> "stage"]
<1>1. DeliveriesOK' /\ StaysOpen(e) /\ delivery[e].status # "none"
  BY InductiveParts, BeginKeeps DEF AlertBegins
<1>2. /\ delivery[e].token \in 1 .. MaxAttempts
      /\ delivery[e].attempts + 1 \in 1 .. MaxAttempts
  BY <1>1, SMT DEF AlertBegins, Begin, DeliveryShape, Delivery, EventAssumption
<1>3. w \in Worker /\ w.event = e /\ w.at = "stage"
  BY <1>2 DEF Worker
<1>4. workers' = workers \cup {w} /\ Subscriber[e] = "alerting" /\ Logged(e)
  BY <1>1 DEF AlertBegins, ActorsKnown
<1>5. workers' \subseteq Worker
  BY <1>3, <1>4
<1>6. \A v \in workers' : /\ Subscriber[v.event] = "alerting"
                          /\ Logged(v.event)
                          /\ v.at = "acknowledge" => v.event \in decided
  BY <1>3, <1>4 DEF ActorsKnown
<1> QED BY <1>1, <1>5, <1>6, OpenStep DEF AlertBegins, ActorsKnown

\* A worker goes to another place: to the acknowledgement only when its event
\* is decided.
LEMMA WorkerGoes ==
    ASSUME Inductive, NEW w \in workers,
           NEW place \in {"stage", "claim", "issue", "complete", "record", "acknowledge", "fail"},
           Goes(w, place) \/ Leaves(w),
           decided \subseteq decided',
           place = "acknowledge" => w.event \in decided'
    PROVE  /\ workers' \subseteq Worker
           /\ \A v \in workers' : /\ Subscriber[v.event] = "alerting"
                                  /\ Logged(v.event)
                                  /\ v.at = "acknowledge" => v.event \in decided'
<1> DEFINE u == [w EXCEPT !.at = place]
<1>1. u \in Worker /\ u.event = w.event /\ u.at = place
  BY DEF Inductive, TypeOK, Worker
<1>2. workers' \subseteq workers \cup {u}
  BY DEF Goes, Leaves
<1> QED BY <1>1, <1>2 DEF Inductive, TypeOK, ActorsKnown

LEMMA AlertSteps ==
    ASSUME EventAssumption, Inductive, NEW w \in workers,
           \/ AlertStages(w) \/ AlertClaims(w) \/ AlertIssues(w) \/ AlertCompletes(w)
           \/ AlertRaises(w) \/ AlertRecordsFailure(w) \/ AlertErrs(w) \/ AlertDies(w)
    PROVE  Inductive'
<1> USE DEF Inductive, TypeOK
<1> DEFINE e == w.event
<1>1. w \in Worker /\ e \in Events /\ Logged(e)
  BY DEF Worker, ActorsKnown
<1>2. /\ decided \subseteq Events /\ \A f \in decided : Logged(f)
      /\ \A f \in Events : alertWork[f].status = "succeeded" => f \in decided
      /\ \A f \in Events : alertWork[f] \in AlertWork
  BY DEF ActorsKnown
<1>3. CASE AlertStages(w)
  <2>1. UNCHANGED <<work, routers, delivery, queue, letters, projecting, projections, decided>>
    BY <1>3 DEF AlertStages
  <2>2. /\ alertWork' \in [Events -> AlertWork]
        /\ \A f \in Events : alertWork'[f].status = "succeeded" =>
                             alertWork[f].status = "succeeded"
    <3>1. /\ [alertWork[e] EXCEPT !.status = "pending"] \in AlertWork
          /\ [alertWork[e] EXCEPT !.status = "pending"].status = "pending"
      BY <1>1, <1>2 DEF AlertWork
    <3> QED BY <1>1, <1>3, <3>1 DEF AlertStages
  <2>3. PICK place \in {"acknowledge", "claim"} :
            Goes(w, place) /\ (place = "acknowledge" => alertWork[e].status = "succeeded")
    BY <1>3 DEF AlertStages
  <2>4. /\ workers' \subseteq Worker
        /\ \A v \in workers' : /\ Subscriber[v.event] = "alerting"
                               /\ Logged(v.event)
                               /\ v.at = "acknowledge" => v.event \in decided'
    BY <1>1, <1>2, <2>1, <2>3, WorkerGoes
  <2> QED BY <1>2, <2>1, <2>2, <2>4, AlertingStep
<1>4. CASE AlertClaims(w)
  <2>1. UNCHANGED <<work, routers, delivery, queue, letters, projecting, projections, decided>>
    BY <1>4 DEF AlertClaims
  <2>2. /\ alertWork' \in [Events -> AlertWork]
        /\ \A f \in Events : alertWork'[f].status = "succeeded" =>
                             alertWork[f].status = "succeeded"
    <3>1. [status |-> "running", live |-> TRUE] \in AlertWork
      BY DEF AlertWork
    <3> QED BY <1>1, <1>4, <3>1 DEF AlertClaims
  <2>3. PICK place \in {"acknowledge", "issue", "fail"} :
            /\ Goes(w, place) \/ Leaves(w)
            /\ place = "acknowledge" => alertWork[e].status = "succeeded"
    BY <1>4 DEF AlertClaims
  <2>4. /\ workers' \subseteq Worker
        /\ \A v \in workers' : /\ Subscriber[v.event] = "alerting"
                               /\ Logged(v.event)
                               /\ v.at = "acknowledge" => v.event \in decided'
    BY <1>1, <1>2, <2>1, <2>3, WorkerGoes
  <2> QED BY <1>2, <2>1, <2>2, <2>4, AlertingStep
<1>5. CASE AlertCompletes(w)
  <2>1. UNCHANGED <<work, routers, delivery, queue, letters, projecting, projections>>
    BY <1>5 DEF AlertCompletes
  <2>2. decided' = decided \cup {e}
    BY <1>5 DEF AlertCompletes
  <2>3. /\ alertWork' \in [Events -> AlertWork]
        /\ \A f \in Events : alertWork'[f].status = "succeeded" => f \in decided'
    <3>1. [status |-> "succeeded", live |-> FALSE] \in AlertWork
      BY DEF AlertWork
    <3> QED BY <1>1, <1>2, <1>5, <2>2, <3>1 DEF AlertCompletes
  <2>4. PICK place \in {"acknowledge", "record"} : Goes(w, place)
    BY <1>5 DEF AlertCompletes
  <2>5. /\ workers' \subseteq Worker
        /\ \A v \in workers' : /\ Subscriber[v.event] = "alerting"
                               /\ Logged(v.event)
                               /\ v.at = "acknowledge" => v.event \in decided'
    BY <2>2, <2>4, WorkerGoes
  <2> QED BY <1>1, <1>2, <2>1, <2>2, <2>3, <2>5, AlertingStep
<1>6. CASE AlertRecordsFailure(w)
  <2>1. UNCHANGED <<work, routers, delivery, queue, letters, projecting, projections, decided>>
    BY <1>6 DEF AlertRecordsFailure
  <2>2. /\ alertWork' \in [Events -> AlertWork]
        /\ \A f \in Events : alertWork'[f].status = "succeeded" =>
                             alertWork[f].status = "succeeded"
    <3>1. [status |-> "failed", live |-> FALSE] \in AlertWork
      BY DEF AlertWork
    <3> QED BY <1>1, <1>6, <3>1 DEF AlertRecordsFailure
  <2>3. Goes(w, "fail")
    BY <1>6 DEF AlertRecordsFailure
  <2>4. /\ workers' \subseteq Worker
        /\ \A v \in workers' : /\ Subscriber[v.event] = "alerting"
                               /\ Logged(v.event)
                               /\ v.at = "acknowledge" => v.event \in decided'
    BY <2>1, <2>3, WorkerGoes
  <2> QED BY <1>2, <2>1, <2>2, <2>4, AlertingStep
<1>7. CASE AlertIssues(w) \/ AlertRaises(w) \/ AlertErrs(w) \/ AlertDies(w)
  <2>1. UNCHANGED <<work, routers, delivery, queue, letters, projecting, projections>>
    BY <1>7 DEF AlertIssues, AlertRaises, AlertErrs, AlertDies
  <2>2. UNCHANGED <<alertWork, decided>>
    BY <1>7 DEF AlertIssues, AlertRaises, AlertErrs, AlertDies
  <2>3. PICK place \in {"complete", "record", "fail"} : Goes(w, place) \/ Leaves(w)
    BY <1>7 DEF AlertIssues, AlertRaises, AlertErrs, AlertDies
  <2>4. /\ workers' \subseteq Worker
        /\ \A v \in workers' : /\ Subscriber[v.event] = "alerting"
                               /\ Logged(v.event)
                               /\ v.at = "acknowledge" => v.event \in decided'
    BY <2>2, <2>3, WorkerGoes
  <2> QED BY <1>2, <2>1, <2>2, <2>4, AlertingStep
<1> QED BY <1>3, <1>4, <1>5, <1>6, <1>7

LEMMA AlertLeaseKeeps ==
    ASSUME EventAssumption, Inductive, NEW e \in Events, AlertLeaseExpires(e)
    PROVE  Inductive'
<1> USE DEF Inductive, TypeOK
<1>1. alertWork[e] \in AlertWork
  OBVIOUS
<1>2. alertWork' \in [Events -> AlertWork]
  <2>1. [alertWork[e] EXCEPT !.live = FALSE] \in AlertWork
    BY <1>1 DEF AlertWork
  <2> QED BY <2>1 DEF AlertLeaseExpires
<1>3. \A f \in Events : alertWork'[f].status = "succeeded" => f \in decided
  BY DEF AlertLeaseExpires, ActorsKnown, AlertWork
<1> QED BY <1>2, <1>3, AlertingStep DEF AlertLeaseExpires, ActorsKnown

\* An acknowledgement comes from a worker whose event is decided.
LEMMA AlertAcknowledgesKeeps ==
    ASSUME EventAssumption, Inductive, NEW w \in workers, AlertAcknowledges(w)
    PROVE  Inductive'
<1> USE DEF Inductive, TypeOK, RoutingTypeOK
<1> DEFINE e == w.event
<1>1. /\ e \in Events /\ Subscriber[e] = "alerting" /\ delivery[e].status = "running"
      /\ e \in decided
  BY DEF Worker, ActorsKnown, AlertAcknowledges, Held, Current
<1>2. DeliveriesOK' /\ delivery'[e].status = "delivered" /\ Only(e)
  BY <1>1, InductiveParts, AcknowledgeKeeps DEF AlertAcknowledges
<1>3. UNCHANGED <<work, routers, projecting, projections, alertWork, decided>>
  BY DEF AlertAcknowledges
<1>4. /\ workers' \subseteq Worker
      /\ \A v \in workers' : /\ Subscriber[v.event] = "alerting"
                             /\ Logged(v.event)
                             /\ v.at = "acknowledge" => v.event \in decided'
  BY <1>3, WorkerGoes DEF AlertAcknowledges
<1>5. TypeOK' /\ DeliveryShape'
  BY <1>2, <1>3, <1>4 DEF DeliveriesOK
<1>6. MessagesMatchDeliveries'
  <2>1. ((/\ delivery \in [Events -> Delivery] /\ DeliveryShape
          /\ queue \subseteq Events \X (1 .. MaxAttempts))
         => (QueueMatches <=> MessagesMatchDeliveries))'
    BY QueueReadings, PTL
  <2> QED BY <1>2, <2>1 DEF DeliveriesOK
<1>7. ProjectedOnce' /\ DeliveredMeansDecided'
  BY <1>1, <1>2, <1>3 DEF ProjectedOnce, DeliveredMeansDecided, Only
<1>8. AlertsFollowProjections'
  <2>1. \A h \in Events : delivery[h].status = "delivered" => delivery'[h].status = "delivered"
    BY <1>2 DEF Only
  <2> QED BY <1>3, <2>1 DEF AlertsFollowProjections, Derived, Logged
<1>9. ActorsKnown'
  BY <1>1, <1>2, <1>3, <1>4 DEF ActorsKnown, Only, Logged
<1> QED BY <1>5, <1>6, <1>7, <1>8, <1>9

LEMMA AlertFailsKeeps ==
    ASSUME EventAssumption, Inductive, NEW w \in workers, AlertFails(w)
    PROVE  Inductive'
<1> USE DEF Inductive, TypeOK
<1>1. w.event \in Events
  BY DEF Worker
<1>2. UNCHANGED <<work, routers, projecting, projections, alertWork, decided>>
  BY DEF AlertFails
<1>3. /\ workers' \subseteq Worker
      /\ \A v \in workers' : /\ Subscriber[v.event] = "alerting"
                             /\ Logged(v.event)
                             /\ v.at = "acknowledge" => v.event \in decided'
  BY <1>2, WorkerGoes DEF AlertFails
<1>4. CASE Held(w.event, w.token)
  <2>1. DeliveriesOK' /\ StaysOpen(w.event) /\ delivery[w.event].status # "none"
    BY <1>1, <1>4, InductiveParts, FailKeeps DEF AlertFails, Held, Current
  <2> QED BY <1>1, <1>2, <1>3, <2>1, OpenStep DEF ActorsKnown
<1>5. CASE ~ Held(w.event, w.token)
  BY <1>2, <1>3, <1>5, AlertingStep DEF AlertFails, ActorsKnown
<1> QED BY <1>4, <1>5

-----------------------------------------------------------------------------
(* The theorems *)

LEMMA NextInductive ==
    ASSUME EventAssumption, Inductive, [Next]_vars PROVE Inductive'
<1>1. ASSUME NEW e \in Events, RoutingStep(e), UNCHANGED subscribers PROVE Inductive'
  BY <1>1, RoutingKeeps, DeliveryJobsKeep DEF RoutingStep
<1>2. ASSUME NEW r \in routers, RouterStep(r), UNCHANGED subscribers PROVE Inductive'
  BY <1>2, RouterKeeps, RouteCommitsKeeps DEF RouterStep
<1>3. ASSUME NEW e \in Events, ClaimProjection(e) \/ AlertBegins(e) \/ AlertLeaseExpires(e)
      PROVE  Inductive'
  BY <1>3, ClaimProjectionKeeps, AlertBeginsKeeps, AlertLeaseKeeps
<1>4. ASSUME NEW p \in projecting, ProjectionEnds(p) PROVE Inductive'
  BY <1>4, ProjectAndAckKeeps, ProjectionEndsKeeps DEF ProjectionEnds
<1>5. ASSUME NEW w \in workers, AlertStep(w) PROVE Inductive'
  BY <1>5, AlertSteps, AlertAcknowledgesKeeps, AlertFailsKeeps DEF AlertStep
<1>6. CASE UNCHANGED vars
  BY <1>6 DEF vars, Inductive, TypeOK, RoutingTypeOK, DeliveryShape, ActorsKnown, Logged,
              MessagesMatchDeliveries, Message, ProjectedOnce, AlertsFollowProjections,
              DeliveredMeansDecided
<1> QED BY <1>1, <1>2, <1>3, <1>4, <1>5, <1>6 DEF Next

\* The invariant holds of every behaviour.
THEOREM DeliveryInductive ==
    ASSUME EventAssumption PROVE Spec => []Inductive
<1>1. Init => Inductive
  BY InitInductive
<1>2. Inductive /\ [Next]_vars => Inductive'
  BY NextInductive
<1> QED BY <1>1, <1>2, PTL DEF Spec

\* Every value keeps its type: attempts, tokens and messages within the limit.
THEOREM DeliveryTypes ==
    ASSUME EventAssumption PROVE Spec => []TypeOK
<1>1. Inductive => TypeOK
  BY DEF Inductive
<1> QED BY <1>1, DeliveryInductive, PTL

\* Queues and dead letters match the deliveries.
THEOREM MessagesMatch ==
    ASSUME EventAssumption PROVE Spec => []MessagesMatchDeliveries
<1>1. Inductive => MessagesMatchDeliveries
  BY DEF Inductive
<1> QED BY <1>1, DeliveryInductive, PTL

\* A source event is projected once or not at all.
THEOREM EventsProjectedOnce ==
    ASSUME EventAssumption PROVE Spec => []ProjectedOnce
<1>1. Inductive => ProjectedOnce
  BY DEF Inductive
<1> QED BY <1>1, DeliveryInductive, PTL

\* Nothing follows from a projection that was not acknowledged.
THEOREM ProjectionsComeFirst ==
    ASSUME EventAssumption PROVE Spec => []AlertsFollowProjections
<1>1. Inductive => AlertsFollowProjections
  BY DEF Inductive
<1> QED BY <1>1, DeliveryInductive, PTL

\* What order alerting acknowledges is decided.
THEOREM AcknowledgedIsDecided ==
    ASSUME EventAssumption PROVE Spec => []DeliveredMeansDecided
<1>1. Inductive => DeliveredMeansDecided
  BY DEF Inductive
<1> QED BY <1>1, DeliveryInductive, PTL

\* A step leaves what is settled as it is.
LEMMA SettledStep ==
    ASSUME EventAssumption, Inductive, [Next]_vars,
           NEW e \in Events, delivery[e].status \in {"delivered", "dead_letter"}
    PROVE  delivery'[e].status = delivery[e].status
<1>1. ASSUME NEW f \in Events, StaysOpen(f) PROVE delivery'[e] = delivery[e]
  BY <1>1 DEF StaysOpen, Only
<1>2. ASSUME NEW f \in Events, delivery[f].status = "running", Only(f)
      PROVE  delivery'[e] = delivery[e]
  BY <1>2 DEF Only
<1>3. ASSUME NEW f \in Events, RoutingStep(f) PROVE delivery'[e] = delivery[e]
  <2>1. CASE EnqueueRetry(f) \/ ReconcileExpired(f) \/ DeliveryLeaseExpires(f)
    BY <1>1, <2>1, InductiveParts, QueuedKeeps, ReconcileKeeps, LeaseKeeps DEF EnqueueRetry
  <2> QED BY <1>3, <2>1 DEF RoutingStep, AppendSource, RoutingWakeup, RequestLost,
                            ClaimItem, RoutingLeaseExpires
<1>4. ASSUME NEW r \in routers, RouterStep(r) PROVE delivery'[e] = delivery[e]
  <2>1. CASE RouteCommits(r) /\ Subscriber[r.event] # "none" /\ delivery[r.event].status = "none"
    <3>1. r.event \in Events
      BY DEF Inductive, TypeOK, RoutingTypeOK, Router
    <3>2. StaysOpen(r.event)
      BY <2>1, <3>1, InductiveParts, QueuedKeeps DEF RouteCommits
    <3> QED BY <1>1, <3>1, <3>2
  <2> QED BY <1>4, <2>1 DEF RouterStep, RouteChecks, RouteCommits, ClaimBatch,
                            RouterFails, RouterDies
<1>5. ASSUME NEW f \in Events, ClaimProjection(f) \/ AlertBegins(f) \/ AlertLeaseExpires(f)
      PROVE  delivery'[e] = delivery[e]
  BY <1>1, <1>5, InductiveParts, BeginKeeps DEF ClaimProjection, AlertBegins, AlertLeaseExpires
<1>6. ASSUME NEW p \in projecting, ProjectionEnds(p) PROVE delivery'[e] = delivery[e]
  <2>1. p.event \in Events
    BY DEF Inductive, TypeOK, Projecting
  <2>2. CASE ProjectAndAck(p)
    BY <1>2, <2>1, <2>2, InductiveParts, AcknowledgeKeeps DEF ProjectAndAck, Current
  <2>3. CASE ProjectionFails(p)
    BY <1>1, <2>1, <2>3, InductiveParts, FailKeeps DEF ProjectionFails, Current
  <2> QED BY <1>6, <2>2, <2>3 DEF ProjectionEnds, ProjectorDies
<1>7. ASSUME NEW w \in workers, AlertStep(w) PROVE delivery'[e] = delivery[e]
  <2>1. w.event \in Events
    BY DEF Inductive, TypeOK, Worker
  <2>2. CASE AlertAcknowledges(w)
    BY <1>2, <2>1, <2>2, InductiveParts, AcknowledgeKeeps DEF AlertAcknowledges, Held, Current
  <2>3. CASE AlertFails(w)
    BY <1>1, <2>1, <2>3, InductiveParts, FailKeeps DEF AlertFails, Held, Current
  <2> QED BY <1>7, <2>2, <2>3 DEF AlertStep, AlertStages, AlertClaims, AlertIssues,
            AlertCompletes, AlertRaises, AlertRecordsFailure, AlertErrs, AlertDies
<1>8. CASE UNCHANGED vars
  BY <1>8 DEF vars
<1> QED BY <1>3, <1>4, <1>5, <1>6, <1>7, <1>8 DEF Next

\* A delivery that was acknowledged or given up stays so.
THEOREM SettledForGood ==
    ASSUME EventAssumption PROVE Spec => SettledStays
<1>1. Inductive /\ [Next]_vars =>
        [\A e \in Events : delivery[e].status \in {"delivered", "dead_letter"} =>
                               delivery'[e].status = delivery[e].status]_vars
  BY SettledStep
<1> QED BY <1>1, DeliveryInductive, PTL DEF Spec, SettledStays

-----------------------------------------------------------------------------
(* The fate of an event *)

LogStays == \A e \in Events : Logged(e)' <=> Logged(e)

\* What an event has come to is told by the status of its delivery.
LEMMA FateReads ==
    ASSUME NEW e \in Events
    PROVE  /\ delivery[e].status = "delivered" => Fates[e] = "delivered"
           /\ delivery[e].status = "dead_letter" => Fates[e] = "dead"
           /\ delivery[e].status \notin {"delivered", "dead_letter"} => Fates[e] = "open"
           /\ delivery'[e].status = "delivered" => Fates'[e] = "delivered"
           /\ delivery'[e].status = "dead_letter" => Fates'[e] = "dead"
           /\ delivery'[e].status \notin {"delivered", "dead_letter"} => Fates'[e] = "open"
BY DEF Fates

\* A step that leaves deliveries, log and decisions alone has no part in it.
LEMMA QuietFate ==
    ASSUME UNCHANGED <<delivery, projections, decided>>, LogStays
    PROVE  UNCHANGED Fate!fvars
BY DEF Fates, LogStays, Fate!fvars

\* A delivery that stays open changes nothing, or is given up.
LEMMA OpenFate ==
    ASSUME Inductive, NEW e \in Events, StaysOpen(e), LogStays,
           delivery'[e].status = "dead_letter" => Logged(e),
           UNCHANGED <<projections, decided>>
    PROVE  Fate!Next \/ UNCHANGED Fate!fvars
<1>1. {f \in Events : Logged(f)}' = {f \in Events : Logged(f)} BY DEF LogStays
<1>2. Fates[e] = "open" BY FateReads DEF StaysOpen
<1>3. \A f \in Events \ {e} : Fates'[f] = Fates[f] BY DEF Fates, StaysOpen, Only
<1>4. Fates = [f \in Events |-> Fates[f]] /\ Fates' = [f \in Events |-> Fates'[f]]
  BY DEF Fates
<1>5. CASE delivery'[e].status = "dead_letter"
  <2>1. Fates' = [Fates EXCEPT ![e] = "dead"] BY <1>3, <1>4, <1>5, FateReads
  <2>2. Fate!GiveUp(e) BY <1>1, <1>2, <1>5, <2>1 DEF Fate!GiveUp, Fate!Settles
  <2> QED BY <2>2 DEF Fate!Next
<1>6. CASE delivery'[e].status # "dead_letter"
  <2>1. Fates'[e] = "open" BY <1>6, FateReads DEF StaysOpen
  <2>2. Fates' = Fates BY <1>2, <1>3, <1>4, <2>1
  <2> QED BY <1>1, <2>2 DEF Fate!fvars
<1> QED BY <1>5, <1>6

\* What an acknowledgement does to the fate of its event.
LEMMA AcknowledgedFate ==
    ASSUME EventAssumption, Inductive, NEW e \in Events,
           delivery[e].status = "running", Acknowledge(e)
    PROVE  Logged(e) /\ Fates[e] = "open" /\ Fates' = [Fates EXCEPT ![e] = "delivered"]
<1>1. delivery'[e].status = "delivered" /\ Only(e)
  BY InductiveParts, AcknowledgeKeeps
<1>2. \A f \in Events \ {e} : Fates'[f] = Fates[f] BY <1>1 DEF Fates, Only
<1>3. Fates = [f \in Events |-> Fates[f]] /\ Fates' = [f \in Events |-> Fates'[f]]
  BY DEF Fates
<1> QED BY <1>1, <1>2, <1>3, FateReads DEF Inductive, ActorsKnown

\* Routing records source events, and makes deliveries that are open.
LEMMA RoutingFate ==
    ASSUME EventAssumption, Inductive, UNCHANGED subscribers, NEW e \in Events,
           RoutingStep(e)
    PROVE  Fate!Next \/ UNCHANGED Fate!fvars
<1>0. work \in [Events -> Work] BY DEF Inductive, TypeOK, RoutingTypeOK
<1>1. CASE AppendSource(e)
  <2>1. \A f \in Events : Logged(f)' <=> Logged(f) \/ f = e
    BY <1>0, <1>1, AppendLogs DEF AppendSource
  <2>2. {f \in Events : Logged(f)}' = {f \in Events : Logged(f)} \cup {e}
    BY <2>1
  <2>3. Fates' = Fates BY <1>1 DEF AppendSource, Fates
  <2>4. Fate!Record(e)
    BY <1>1, <2>2, <2>3 DEF AppendSource, Derived, Fate!Record, subscribers
  <2> QED BY <2>4 DEF Fate!Next
<1>2. CASE RoutingWakeup(e) \/ RequestLost(e) \/ ClaimItem(e) \/ RoutingLeaseExpires(e)
  <2>1. LogStays
    <3>1. CASE RoutingWakeup(e)
      BY <1>0, <3>1 DEF RoutingWakeup, Due, LogStays, Logged, Work
    <3>2. CASE RequestLost(e) \/ RoutingLeaseExpires(e)
      BY <1>0, <3>2 DEF RequestLost, RoutingLeaseExpires, LogStays, Logged, Work
    <3>3. CASE ClaimItem(e)
      <4>1. Logged(e) /\ Claimed(work[e]).status = "running"
        BY <1>0, <3>3, WorkRecords DEF ClaimItem, Claimable, Due, Logged
      <4> QED BY <1>0, <3>3, <4>1 DEF ClaimItem, LogStays, Logged
    <3> QED BY <1>2, <3>1, <3>2, <3>3
  <2> QED BY <1>2, <2>1, QuietFate
          DEF subscribers, RoutingWakeup, RequestLost, ClaimItem, RoutingLeaseExpires
<1>3. CASE EnqueueRetry(e) \/ ReconcileExpired(e) \/ DeliveryLeaseExpires(e)
  <2>1. StaysOpen(e) /\ delivery[e].status # "none"
    BY <1>3, InductiveParts, QueuedKeeps, ReconcileKeeps, LeaseKeeps DEF EnqueueRetry
  <2>2. Logged(e) BY <2>1 DEF Inductive, ActorsKnown
  <2>3. LogStays
    BY <1>3 DEF LogStays, Logged, EnqueueRetry, ReconcileExpired, DeliveryLeaseExpires
  <2> QED BY <2>1, <2>2, <2>3, OpenFate DEF subscribers
<1> QED BY <1>1, <1>2, <1>3 DEF RoutingStep

LEMMA RouterFate ==
    ASSUME EventAssumption, Inductive, UNCHANGED subscribers, NEW r \in routers,
           RouterStep(r)
    PROVE  Fate!Next \/ UNCHANGED Fate!fvars
<1>1. /\ work \in [Events -> Work] /\ r \in Router /\ r.event \in Events
      /\ Logged(r.event)
  BY DEF Inductive, TypeOK, RoutingTypeOK, ActorsKnown, Router
<1>2. LogStays
  <2>1. CASE RouteChecks(r) \/ RouterDies(r)
    BY <2>1 DEF LogStays, Logged, RouteChecks, RouterDies
  <2>2. CASE ClaimBatch(r)
    <3>1. PICK S \in SUBSET {e \in Events : Claimable(e)} :
            work' = [e \in Events |-> IF e \in S THEN Claimed(work[e]) ELSE work[e]]
      BY <2>2 DEF ClaimBatch
    <3>2. \A e \in S : Logged(e) /\ Claimed(work[e]).status = "running"
      BY <1>1, WorkRecords DEF Claimable, Due, Logged
    <3> QED BY <3>1, <3>2 DEF LogStays, Logged
  <2>3. CASE RouteCommits(r) \/ RouterFails(r)
    <3>1. \/ work' = work
          \/ \E s \in {"succeeded", "retry_wait", "dead_letter"} :
                work' = [work EXCEPT ![r.event] = Ended(work[r.event], s)]
      BY <2>3 DEF RouteCommits, RouterFails
    <3>2. \A s \in {"succeeded", "retry_wait", "dead_letter"} :
             Ended(work[r.event], s).status # "none"
      BY <1>1, WorkRecords
    <3>3. CASE work' = work BY <3>3 DEF LogStays, Logged
    <3>4. ASSUME NEW s \in {"succeeded", "retry_wait", "dead_letter"},
                 work' = [work EXCEPT ![r.event] = Ended(work[r.event], s)]
          PROVE  LogStays
      BY <1>1, <3>2, <3>4 DEF LogStays, Logged
    <3> QED BY <3>1, <3>3, <3>4
  <2> QED BY <2>1, <2>2, <2>3 DEF RouterStep
<1>3. CASE delivery' = delivery BY <1>2, <1>3, QuietFate DEF subscribers
<1>4. CASE delivery' # delivery
  <2>1. RouteCommits(r) /\ Subscriber[r.event] # "none" /\ delivery[r.event].status = "none"
    BY <1>4 DEF RouterStep, RouteChecks, RouteCommits, ClaimBatch, RouterFails, RouterDies
  <2>2. StaysOpen(r.event)
    BY <1>1, <2>1, InductiveParts, QueuedKeeps DEF RouteCommits
  <2> QED BY <1>1, <1>2, <2>2, OpenFate DEF subscribers
<1> QED BY <1>3, <1>4

\* The projection appends, counts and acknowledges in one step, or nothing.
LEMMA ProjectionFate ==
    ASSUME EventAssumption, Inductive, NEW p \in projecting, ProjectionEnds(p)
    PROVE  Fate!Next \/ UNCHANGED Fate!fvars
<1> DEFINE e == p.event
<1>1. e \in Events /\ Subscriber[e] = "projection"
  BY DEF Inductive, TypeOK, Projecting, ActorsKnown
<1>2. CASE ProjectAndAck(p)
  <2>1. Logged(e) /\ Fates[e] = "open" /\ Fates' = [Fates EXCEPT ![e] = "delivered"]
    BY <1>1, <1>2, AcknowledgedFate DEF ProjectAndAck, Current
  <2>2. PICK S \in Produces[e] : Append(S)
    BY <1>2 DEF ProjectAndAck
  <2>3. {f \in Events : Logged(f)}' = {f \in Events : Logged(f)} \cup S
    <3>1. S \subseteq Events BY <1>1, <2>2 DEF EventAssumption
    <3>2. work \in [Events -> Work] BY DEF Inductive, TypeOK, RoutingTypeOK
    <3>3. \A f \in Events : Logged(f)' <=> Logged(f) \/ f \in S
      BY <2>2, <3>1, <3>2, AppendLogs
    <3> QED BY <3>1, <3>3
  <2>4. projections' = [projections EXCEPT ![e] = @ + 1] /\ decided' = decided
    BY <1>2 DEF ProjectAndAck
  <2>5. Fate!Project(e)
    BY <1>1, <2>1, <2>2, <2>3, <2>4 DEF Fate!Project, Fate!Settles
  <2> QED BY <1>1, <2>5 DEF Fate!Next
<1>3. CASE ProjectionFails(p) \/ ProjectorDies(p)
  <2>1. LogStays /\ UNCHANGED <<projections, decided>>
    BY <1>3 DEF ProjectionFails, ProjectorDies, LogStays, Logged
  <2>2. CASE delivery' = delivery BY <2>1, <2>2, QuietFate
  <2>3. CASE delivery' # delivery
    <3>1. StaysOpen(e) /\ delivery[e].status # "none"
      BY <1>1, <1>3, <2>3, InductiveParts, FailKeeps
         DEF ProjectionFails, ProjectorDies, Current
    <3> QED BY <1>1, <2>1, <3>1, OpenFate DEF Inductive, ActorsKnown
  <2> QED BY <2>2, <2>3
<1> QED BY <1>2, <1>3 DEF ProjectionEnds

\* Workers decide, acknowledge what is decided, or fail.
LEMMA AlertFate ==
    ASSUME EventAssumption, Inductive, NEW w \in workers, AlertStep(w)
    PROVE  Fate!Next \/ UNCHANGED Fate!fvars
<1> DEFINE e == w.event
<1>1. e \in Events /\ Subscriber[e] = "alerting" /\ Logged(e)
  BY DEF Inductive, TypeOK, Worker, ActorsKnown
<1>2. LogStays /\ projections' = projections
  BY DEF LogStays, Logged, AlertStep, AlertStages, AlertClaims, AlertIssues, AlertCompletes,
         AlertRaises, AlertRecordsFailure, AlertErrs, AlertAcknowledges, AlertFails, AlertDies
<1>3. {f \in Events : Logged(f)}' = {f \in Events : Logged(f)} BY <1>2 DEF LogStays
<1>4. CASE AlertCompletes(w)
  <2>1. decided' = decided \cup {e} /\ Fates' = Fates
    BY <1>4 DEF AlertCompletes, Fates
  <2>2. Fate!Decide(e) BY <1>1, <1>2, <1>3, <2>1 DEF Fate!Decide
  <2> QED BY <1>1, <2>2 DEF Fate!Next
<1>5. CASE AlertAcknowledges(w)
  <2>1. Logged(e) /\ Fates[e] = "open" /\ Fates' = [Fates EXCEPT ![e] = "delivered"]
    BY <1>1, <1>5, AcknowledgedFate DEF AlertAcknowledges, Held, Current
  <2>2. e \in decided /\ decided' = decided
    BY <1>5 DEF AlertAcknowledges, Inductive, ActorsKnown
  <2>3. Fate!Deliver(e)
    BY <1>1, <1>2, <1>3, <2>1, <2>2 DEF Fate!Deliver, Fate!Settles
  <2> QED BY <1>1, <2>3 DEF Fate!Next
<1>6. CASE AlertFails(w) /\ Held(w.event, w.token)
  <2>1. StaysOpen(e) BY <1>1, <1>6, InductiveParts, FailKeeps DEF AlertFails, Held, Current
  <2>2. decided' = decided BY <1>6 DEF AlertFails
  <2> QED BY <1>1, <1>2, <2>1, <2>2, OpenFate
<1>7. CASE UNCHANGED <<delivery, decided>> BY <1>2, <1>7, QuietFate
<1>8. \/ AlertCompletes(w) \/ AlertAcknowledges(w)
      \/ AlertFails(w) /\ Held(w.event, w.token)
      \/ UNCHANGED <<delivery, decided>>
  BY DEF AlertStep, AlertStages, AlertClaims, AlertIssues, AlertRaises,
         AlertRecordsFailure, AlertErrs, AlertFails, AlertDies
<1> QED BY <1>4, <1>5, <1>6, <1>7, <1>8

LEMMA FateNext ==
    ASSUME EventAssumption, Inductive, [Next]_vars
    PROVE  [Fate!Next]_(Fate!fvars)
<1>1. ASSUME NEW e \in Events, RoutingStep(e), UNCHANGED subscribers
      PROVE  Fate!Next \/ UNCHANGED Fate!fvars
  BY <1>1, RoutingFate
<1>2. ASSUME NEW r \in routers, RouterStep(r), UNCHANGED subscribers
      PROVE  Fate!Next \/ UNCHANGED Fate!fvars
  BY <1>2, RouterFate
<1>3. ASSUME NEW e \in Events, ClaimProjection(e) \/ AlertBegins(e) \/ AlertLeaseExpires(e)
      PROVE  Fate!Next \/ UNCHANGED Fate!fvars
  <2>1. LogStays /\ UNCHANGED <<projections, decided>>
    BY <1>3 DEF ClaimProjection, AlertBegins, AlertLeaseExpires, LogStays, Logged
  <2>2. CASE AlertLeaseExpires(e) BY <2>1, <2>2, QuietFate DEF AlertLeaseExpires
  <2>3. CASE ClaimProjection(e) \/ AlertBegins(e)
    <3>1. StaysOpen(e) /\ delivery[e].status # "none"
      BY <2>3, InductiveParts, BeginKeeps DEF ClaimProjection, AlertBegins
    <3> QED BY <2>1, <3>1, OpenFate DEF Inductive, ActorsKnown
  <2> QED BY <1>3, <2>2, <2>3
<1>4. ASSUME NEW p \in projecting, ProjectionEnds(p)
      PROVE  Fate!Next \/ UNCHANGED Fate!fvars
  BY <1>4, ProjectionFate
<1>5. ASSUME NEW w \in workers, AlertStep(w)
      PROVE  Fate!Next \/ UNCHANGED Fate!fvars
  BY <1>5, AlertFate
<1>6. CASE UNCHANGED vars
  BY <1>6, QuietFate DEF vars, LogStays, Logged
<1> QED BY <1>1, <1>2, <1>3, <1>4, <1>5, <1>6 DEF Next

\* Leases, tokens, retries, late workers and dead ones settle each event as one
\* step of EventFate would: once, and with what comes of it in that step.
THEOREM EventsHaveOneFate ==
    ASSUME EventAssumption PROVE Spec => EventsMeetOneFate
<1>1. Init => Fate!Init
  <2> SUFFICES ASSUME Init
               PROVE  Fate!Init
    OBVIOUS
  <2>1. {e \in Events : Logged(e)} = {}
    BY DEF Init, RoutingInit, Logged, NewWork
  <2>2. Fates = [e \in Events |-> "open"]
    BY DEF Init, RoutingInit, NoDelivery, Fates
  <2> QED BY <2>1, <2>2 DEF Fate!Init, Init
<1>2. Inductive /\ [Next]_vars => [Fate!Next]_(Fate!fvars)
  BY FateNext
<1> QED BY <1>1, <1>2, DeliveryInductive, PTL DEF Spec, EventsMeetOneFate, Fate!Spec
=============================================================================

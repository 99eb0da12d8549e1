\* An order and its warehouse event with two attempts; two source events that
\* observe one menu node, and two nodes at once, with one.
SPECIFICATION MCSpec
CONSTANTS
    received = received
    again = again
    observed = observed
    item = item
    option = option
    Events <- TheEvents
    Subscriber <- TheSubscriber
    Produces <- TheProduces
    MaxAttempts = 2
    MaxRouters = 2
INVARIANTS
    TypeOK
    MessagesMatchDeliveries
    ProjectedOnce
    AlertsFollowProjections
    DeliveredMeansDecided
PROPERTIES
    EventsMeetOneFate
    EventsSettle
CHECK_DEADLOCK FALSE

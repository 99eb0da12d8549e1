------------------------------ MODULE EventFate ------------------------------
(***************************************************************************)
(* What becomes of an event of MoMi, without leases, attempts, tokens,     *)
(* messages, workers or retries: it is settled once, for good.  A source   *)
(* event is projected in the step that delivers it, the only one in which  *)
(* warehouse events are appended; an order event is delivered after its    *)
(* alerts were decided.                                                    *)
(***************************************************************************)
EXTENDS Naturals

CONSTANTS Events, Subscriber, Produces   \* see EventRouting

VARIABLES
    log,         \* events in the log
    fate,        \* by event: "open", "delivered" or "dead"
    projected,   \* by event: how often its projection was committed
    decided      \* events whose alerts were decided

fvars == <<log, fate, projected, decided>>

Init ==
    /\ log = {} /\ decided = {}
    /\ fate = [e \in Events |-> "open"]
    /\ projected = [e \in Events |-> 0]

Settles(e, outcome) ==
    /\ e \in log /\ fate[e] = "open"
    /\ fate' = [fate EXCEPT ![e] = outcome]

\* An adapter records a source event.
Record(e) ==
    /\ \A f \in Events : e \notin UNION Produces[f]
    /\ log' = log \cup {e}
    /\ UNCHANGED <<fate, projected, decided>>

\* A projection appends its warehouse events together; some may be in the log.
Project(e) ==
    /\ Subscriber[e] = "projection"
    /\ Settles(e, "delivered")
    /\ projected' = [projected EXCEPT ![e] = @ + 1]
    /\ \E S \in Produces[e] : log' = log \cup S
    /\ UNCHANGED decided

\* Decided again, the alerts are the same.
Decide(e) ==
    /\ Subscriber[e] = "alerting" /\ e \in log
    /\ decided' = decided \cup {e}
    /\ UNCHANGED <<log, fate, projected>>

Deliver(e) ==
    /\ Subscriber[e] = "alerting" /\ e \in decided
    /\ Settles(e, "delivered")
    /\ UNCHANGED <<log, projected, decided>>

GiveUp(e) ==
    /\ Settles(e, "dead")
    /\ UNCHANGED <<log, projected, decided>>

Next ==
    \E e \in Events : Record(e) \/ Project(e) \/ Decide(e) \/ Deliver(e) \/ GiveUp(e)

Spec == Init /\ [][Next]_fvars
=============================================================================

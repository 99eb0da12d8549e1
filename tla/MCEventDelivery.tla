--------------------------- MODULE MCEventDelivery ---------------------------
(* The instance of EventDelivery for TLC.  An order or a menu is received,    *)
(* and the menu is received again: an order is one warehouse event, a menu is *)
(* one for each of its nodes, and a node that did not change is the same      *)
(* event.  Nobody has subscribed to menu nodes.                               *)
EXTENDS EventDelivery

CONSTANTS received, again, observed, item, option

TheEvents == {received, again, observed, item, option}
TheSubscriber == [e \in TheEvents |-> CASE e \in {received, again} -> "projection"
                                        [] e = observed -> "alerting"
                                        [] OTHER -> "none"]
TheProduces == [e \in TheEvents |-> CASE e = received -> {{observed}, {item}, {item, option}, {}}
                                      [] e = again -> {{item}}
                                      [] OTHER -> {}]

\* Bound: the second source event comes only where the first is no order, and
\* where it comes, or two nodes do, no event has more than its first attempt.
FirstAttempts == \A e \in Events : work[e].attempts <= 1 /\ delivery[e].attempts <= 1

Bounded ==
    /\ Logged(again) => ~Logged(observed)
    /\ Logged(again) \/ Logged(option) => FirstAttempts

MCSpec == Init /\ [][Next /\ Bounded']_vars /\ Fairness
=============================================================================

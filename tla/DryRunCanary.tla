---------------------------- MODULE DryRunCanary ----------------------------
(* The inactive dry run: it arms the guard, renews it through its samples,  *)
(* lets it expire on purpose, and reconciles what the dead-man did.         *)
EXTENDS CanaryRun

\* Without an answer the guard may exist: its dead-man has to settle that.
DryBootstrap(p) ==
    /\ run[p].at = "bootstrap"
    /\ LET t == Query("bootstrap", p, {}, 0, FALSE)
       IN \/ ~Holds(p, "lock") /\ Ends(p, "pre_guard")
             /\ UNCHANGED <<active, guard, late, faults>>
          \/ Signalled(p) /\ Answered(t)
             /\ IF Holds(p, "receipt") THEN Goes(p, "observe") ELSE Stops(p, "rollback")
          \/ /\ Holds(p, "lock") /\ Failed(t, Signalled(p))
             /\ run' = [run EXCEPT ![p].at = "deadman", ![p].mode = "ambiguous"]

\* One boundary: a heartbeat and its sample.
DrySample(p) ==
    /\ run[p].at = "observe" /\ run[p].gen < MaxSamples
    /\ LET next == run[p].gen + 1
           t == Query("heartbeat", p, {run[p].gen}, next, FALSE)
       IN \/ /\ Signalled(p) /\ Answered(t)
             /\ run' = [run EXCEPT ![p].gen = next,
                          ![p].at = IF Holds(p, "receipt") THEN @ ELSE "rollback",
                          ![p].mode = IF Holds(p, "receipt") THEN @ ELSE "failed"]
          \/ Failed(t, Signalled(p)) /\ Stops(p, "rollback")

\* A threshold, a signal, a missed boundary, the flock.
DryStop(p) ==
    /\ run[p].at = "observe"
    /\ Stops(p, "rollback")
    /\ UNCHANGED <<active, guard, late, faults>>

\* All samples taken: no further heartbeat, so that the lease runs out.
DryComplete(p) ==
    /\ run[p].at = "observe" /\ run[p].gen = MaxSamples
    /\ Holds(p, "lock") /\ Holds(p, "receipt")
    /\ run' = [run EXCEPT ![p].at = "deadman", ![p].mode = "passed"]
    /\ UNCHANGED <<active, guard, late, faults>>

\* The rollback of a dry run looks at the guard's identity alone, and a run
\* that it answers ends there: its guard stays, inactive.
DryRollback(p) ==
    /\ run[p].at = "rollback"
    /\ LET t == Query("rollback", p, {}, 0, FALSE)
       IN \/ Holds(p, "provider") /\ Answered(t) /\ Goes(p, "publish")
          \/ Failed(t, Holds(p, "provider")) /\ Goes(p, "deadman")

DryEvidence(p) ==
    guard.kind = "spent" /\ guard.run = p /\ guard.gen = run[p].gen
        /\ ~guard.hit /\ ~guard.ran

\* After the deadline, 35 seconds past the last observation: the statement
\* timeout has ended a bootstrap or a heartbeat given up, not the rollback.
DryDeadman(p) ==
    /\ run[p].at = "deadman"
    /\ \A t \in late : t.run = p => t.op = "rollback"
    /\ \/ /\ Holds(p, "provider") /\ Holds(p, "receipt")
          /\ \/ /\ DryEvidence(p)
                /\ run' = [run EXCEPT ![p].at = "cleanup", ![p].proved = TRUE]
             \/ /\ run[p].mode = "ambiguous" /\ Clean /\ Holds(p, "lock")
                /\ Goes(p, "final")
       \/ Ends(p, "manual")
    /\ UNCHANGED <<active, guard, late, faults>>

DryCleanup(p) ==
    /\ run[p].at = "cleanup"
    /\ LET t == Query("cleanup", p, {}, 0, FALSE)
       IN \/ Holds(p, "provider") /\ Answered(t) /\ Goes(p, "final")
          \/ Failed(t, Holds(p, "provider")) /\ Ends(p, "manual")

DryFinal(p) ==
    /\ run[p].at = "final"
    /\ \/ /\ Clean /\ Holds(p, "provider") /\ Holds(p, "receipt")
          /\ Goes(p, "publish")
       \/ Ends(p, "manual")
    /\ UNCHANGED <<active, guard, late, faults>>

DryPublish(p) ==
    /\ run[p].at = "publish"
    /\ IF run[p].lost = {} THEN Goes(p, "release") ELSE Ends(p, "manual")
    /\ UNCHANGED <<active, guard, late, faults>>

DryRelease(p) ==
    /\ run[p].at = "release"
    /\ Ends(p, IF ~Holds(p, "lock") THEN "manual"
               ELSE IF run[p].mode = "passed" THEN "verified" ELSE "recovered")
    /\ UNCHANGED <<active, guard, late, faults>>

DryStep(p) ==
    \/ Preflight(p) \/ DryBootstrap(p) \/ DrySample(p) \/ DryStop(p)
    \/ DryComplete(p) \/ DryRollback(p) \/ DryDeadman(p) \/ DryCleanup(p)
    \/ DryFinal(p) \/ DryPublish(p) \/ DryRelease(p)
=============================================================================

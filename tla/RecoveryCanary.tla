--------------------------- MODULE RecoveryCanary ---------------------------
(* The attended recovery canary: it arms the guard, switches the targets on, *)
(* observes them under a lease that each heartbeat renews, and brings the    *)
(* database back to where it was.                                           *)
EXTENDS CanaryRun

\* Faulty: forgets the heartbeat that had no answer.
AcknowledgedOnly(p) == {run[p].gen}

\* Faulty: takes the next generation before a heartbeat has tried it.
NextGenerationToo(p) == {run[p].gen, run[p].gen + 1}

\* The generations the guard may have: recoveryGenerationCandidates.
Candidates(p) == {run[p].gen} \cup run[p].tried

\* A failed bootstrap leaves no known guard: the run ends with exit 20.
RecoveryBootstrap(p) ==
    /\ run[p].at = "bootstrap"
    /\ LET t == Query("bootstrap", p, {}, 0, FALSE)
       IN \/ Signalled(p) /\ Answered(t)
             /\ IF Holds(p, "receipt") THEN Goes(p, "activate") ELSE Stops(p, "rollback")
          \/ Failed(t, Signalled(p)) /\ Ends(p, "pre_guard")

RecoveryActivate(p) ==
    /\ run[p].at = "activate"
    /\ LET t == Query("activate", p, {run[p].gen}, 0, FALSE)
       IN \/ /\ Signalled(p) /\ Answered(t)
             /\ run' = [run EXCEPT ![p].live = TRUE,
                          ![p].at = IF Holds(p, "receipt") THEN "observe" ELSE "rollback",
                          ![p].mode = IF Holds(p, "receipt") THEN @ ELSE "failed"]
          \/ Failed(t, Signalled(p)) /\ Stops(p, "rollback")

\* What evaluateRecoveryObservation makes of a sample: no work of the cohort is
\* left, and some reason to stop.
Observations == [zeroWork: BOOLEAN, stop: BOOLEAN]

\* One sample in the transaction of one heartbeat.  Two samples in a row
\* without work end the run well; a stop reason or a lost receipt ends it.
RecoveryObserve(p) ==
    /\ run[p].at = "observe" /\ run[p].gen < MaxSamples
    /\ LET next == run[p].gen + 1
           t == Query("heartbeat", p, {run[p].gen}, next, TRUE)
       IN \/ /\ Signalled(p) /\ Answered(t)
             /\ \E evaluation \in Observations :
                  LET zeros == IF evaluation.zeroWork THEN run[p].zeros + 1 ELSE 0
                      stop == evaluation.stop \/ ~Holds(p, "receipt")
                  IN run' = [run EXCEPT ![p].gen = next, ![p].zeros = zeros,
                       ![p].at = IF stop \/ zeros = 2 THEN "rollback" ELSE "observe",
                       ![p].mode = IF stop THEN "failed"
                                   ELSE IF zeros = 2 THEN "passed" ELSE @]
          \/ /\ Failed(t, Signalled(p))
             /\ run' = [run EXCEPT ![p].tried = {next}, ![p].at = "rollback",
                                   ![p].mode = "failed"]

\* A signal, the flock, lateness, no progress, or a deadline.
RecoveryStop(p) ==
    /\ run[p].at = "observe"
    /\ Stops(p, "rollback")
    /\ UNCHANGED <<active, guard, late, faults>>

RecoveryRollback(p) ==
    /\ run[p].at = "rollback"
    /\ LET t == Query("rollback", p, Candidates(p), 0, FALSE)
       IN \/ Signalled(p) /\ Answered(t) /\ Goes(p, "cleanup")
          \/ Failed(t, Signalled(p)) /\ Goes(p, "settle")

CleanupQuery(p) == Query("cleanup", p, Candidates(p), 0, FALSE)

CleanupReachable(p) ==
    Holds(p, "provider") /\ (Holds(p, "lock") \/ run[p].proved)

\* After a failed rollback: a cleanup that succeeds shows it had committed.
RecoverySettle(p) ==
    /\ run[p].at = "settle"
    /\ \/ CleanupReachable(p) /\ Answered(CleanupQuery(p)) /\ Goes(p, "final")
       \/ Failed(CleanupQuery(p), CleanupReachable(p)) /\ Goes(p, "deadman")

\* The dead-man run of this run, of an accepted generation, is exact only for
\* the mask it should have found, and when no target has run.
RecoveryEvidence(p) ==
    /\ guard.kind = "spent" /\ guard.run = p /\ guard.gen \in Candidates(p)
    /\ ~guard.ran
    /\ run[p].live => guard.hit

\* After 36 seconds, longer than any statement or lease of this run.  The
\* evidence may also be refused for what is not modelled: the cron history
\* since a baseline, the time the dead-man run began, the queues.
RecoveryDeadman(p) ==
    /\ run[p].at = "deadman"
    /\ \A t \in late : t.run # p
    /\ \/ /\ Holds(p, "provider") /\ RecoveryEvidence(p)
          /\ run' = [run EXCEPT ![p].at = "cleanup", ![p].proved = TRUE,
                                ![p].gen = guard.gen, ![p].tried = {}]
       \/ Ends(p, "manual")
    /\ UNCHANGED <<active, guard, late, faults>>

RecoveryCleanup(p) ==
    /\ run[p].at = "cleanup"
    /\ \/ CleanupReachable(p) /\ Answered(CleanupQuery(p)) /\ Goes(p, "final")
       \/ Failed(CleanupQuery(p), CleanupReachable(p)) /\ Ends(p, "manual")

RecoveryFinal(p) ==
    /\ run[p].at = "final"
    /\ \/ Clean /\ Holds(p, "provider") /\ Goes(p, "publish")
       \/ Ends(p, "manual")
    /\ UNCHANGED <<active, guard, late, faults>>

\* The artifact is written while the flock is held and the receipt whole.
Publish(p) ==
    /\ run[p].at = "publish"
    /\ IF run[p].lost = {} THEN Goes(p, "release") ELSE Ends(p, "manual")
    /\ UNCHANGED <<active, guard, late, faults>>

\* A flock lost before its release invalidates the artifact.
RecoveryRelease(p) ==
    /\ run[p].at = "release"
    /\ Ends(p, IF ~Holds(p, "lock") THEN "manual"
               ELSE IF run[p].mode = "passed" THEN "verified" ELSE "recovered")
    /\ UNCHANGED <<active, guard, late, faults>>

RecoveryStep(p) ==
    \/ Preflight(p) \/ RecoveryBootstrap(p) \/ RecoveryActivate(p)
    \/ RecoveryObserve(p) \/ RecoveryStop(p) \/ RecoveryRollback(p)
    \/ RecoverySettle(p) \/ RecoveryDeadman(p) \/ RecoveryCleanup(p)
    \/ RecoveryFinal(p) \/ Publish(p) \/ RecoveryRelease(p)
=============================================================================

---------------------------- MODULE CanaryProofs ----------------------------
(* Safety of the background-work canary, for every number of runs, samples  *)
(* and failures: an inductive invariant, and the invariants of the runs.    *)
EXTENDS BackgroundWorkCanary, TLAPS

Reported == {"verified", "recovered"}

\* The guard job: what its kind says of its other columns.
GuardShape ==
    /\ guard.kind # "armed" => ~guard.active /\ ~guard.launched
    /\ guard.kind = "none" <=> guard.run = NoRun

DatabaseOK == GuardShape /\ ActiveIsGuarded /\ DryRunStaysDry

\* What a query given up may still do, by the place of the run that sent it.
LateOK(t) ==
    /\ t.op = "activate" => t.run \in RecoveryRuns
    /\ t.op = "bootstrap" =>
         \/ t.run \in DryRuns /\ run[t.run].at = "deadman"
         \/ run[t.run].at = "crashed"
         \/ run[t.run].at = "ended" /\ run[t.run].exit \notin Reported
    /\ t.op = "heartbeat" /\ t.run \in RecoveryRuns =>
         \/ run[t.run].at \in {"rollback", "settle", "deadman", "cleanup"}
            /\ t.next \in Candidates(t.run)
         \/ run[t.run].at \in {"final", "publish", "release", "ended", "crashed"}

\* A run on its way: nothing tried before its first heartbeat, and a dry run
\* rolls back only after a failure.
OnItsWay(p) ==
    /\ run[p].at \in {"preflight", "bootstrap", "activate"} =>
         run[p].gen = 0 /\ run[p].tried = {} /\ run[p].zeros = 0
    /\ run[p].at = "observe" => run[p].tried = {} /\ run[p].zeros < 2
    /\ p \in DryRuns /\ run[p].at = "rollback" => run[p].mode = "failed"
    /\ run[p].at # "ended" => run[p].exit = "none"

\* The four facts of a run about the guard when it is its own.
OffAfterRollback(p) ==
    run[p].at \in {"cleanup", "final", "publish", "release"} => ~guard.active

GoneOrInactive(p) ==
    run[p].at \in {"publish", "release"} \/ run[p].exit \in Reported =>
        p \in DryRuns /\ run[p].mode = "failed" /\ ~guard.active

OfCandidate(p) ==
    /\ p \in RecoveryRuns /\ guard.kind = "armed"
    /\ run[p].at \in {"activate", "observe", "rollback", "settle", "deadman", "cleanup"}
    => guard.gen \in Candidates(p)

OwnGuard(p) ==
    guard.run = p => OffAfterRollback(p) /\ GoneOrInactive(p) /\ OfCandidate(p)

RunOK(p) == OnItsWay(p) /\ OwnGuard(p)

Inductive ==
    /\ TypeOK
    /\ DatabaseOK
    /\ \A t \in late : LateOK(t)
    /\ \A p \in Runs : RunOK(p)
-----------------------------------------------------------------------------
(* What a transaction of a query does to the guard.                         *)

\* A bootstrap makes the guard the run's own; any other transaction removes
\* it or keeps its run, never revives it, and only a heartbeat renews its
\* generation.  Rollback and cleanup leave it inactive, cleanup leaves none.
Follows(t) ==
    /\ t.op = "bootstrap" => guard'.run = t.run /\ guard'.gen = 0
    /\ t.op \in {"rollback", "cleanup"} => ~guard'.active
    /\ t.op = "cleanup" => guard'.run = NoRun
    /\ t.op # "bootstrap" /\ guard'.run # NoRun =>
         /\ guard'.run = guard.run
         /\ guard'.active => guard.active
         /\ guard'.kind = "armed" => guard.kind = "armed"
         /\ IF t.op = "heartbeat" THEN guard.run = t.run /\ guard'.gen = t.next
                                  ELSE guard'.gen = guard.gen

DatabaseType == active \in BOOLEAN /\ guard \in Guards

LEMMA NoGuardFits == NoGuard \in Guards
BY CanaryAssumption DEF NoGuard, Guards, Generations

\* Every transaction keeps the invariant of the database and Follows.
LEMMA CommitKeeps ==
    ASSUME DatabaseType, DatabaseOK, NEW t \in Queries, Commit(t),
           t.op = "activate" => t.run \in RecoveryRuns
    PROVE  DatabaseType' /\ DatabaseOK' /\ Follows(t)
<1> USE CanaryAssumption, NoGuardFits
        DEF DatabaseType, DatabaseOK, GuardShape, ActiveIsGuarded, DryRunStaysDry,
            Follows, Runs
<1>1. CASE Bootstrap(t)
  BY <1>1 DEF Bootstrap, BootstrapAllowed, NoGuard, Guards, Queries
<1>2. CASE Heartbeat(t)
  BY <1>2 DEF Heartbeat, HeartbeatAllowed, Marked, Guards, Queries
<1>3. CASE Activate(t)
  BY <1>3 DEF Activate, ActivationAllowed, Marked, Guards, Queries
<1>4. CASE Rollback(t)
  BY <1>4 DEF Rollback, RollbackAllowed, Guards, Queries
<1>5. CASE Cleanup(t)
  BY <1>5 DEF Cleanup, CleanupAllowed, NoGuard, Guards, Queries
<1> QED
  BY <1>1, <1>2, <1>3, <1>4, <1>5 DEF Commit

\* What the clock, pg_cron and the targets do: the guard keeps its run and
\* generation and is not revived.
LEMMA ServerKeeps ==
    ASSUME DatabaseType, DatabaseOK,
           LeaseExpires \/ LaunchDeadman \/ DeadmanRuns \/ TargetRuns
    PROVE  /\ DatabaseType' /\ DatabaseOK' /\ UNCHANGED <<late, faults>>
           /\ guard'.run = guard.run /\ guard'.gen = guard.gen
           /\ guard'.active => guard.active
           /\ guard'.kind = "armed" => guard.kind = "armed"
<1> USE CanaryAssumption
        DEF DatabaseType, DatabaseOK, GuardShape, ActiveIsGuarded, DryRunStaysDry
<1>1. CASE LeaseExpires
  BY <1>1 DEF LeaseExpires, Guards
<1>2. CASE LaunchDeadman
  BY <1>2 DEF LaunchDeadman, Guards
<1>3. CASE DeadmanRuns
  BY <1>3 DEF DeadmanRuns, Guards
<1>4. CASE TargetRuns
  BY <1>4 DEF TargetRuns, Guards
<1> QED
  BY <1>1, <1>2, <1>3, <1>4
-----------------------------------------------------------------------------
(* From the database and one run to the whole invariant.                    *)

\* A step that does to the guard of q at most what LateEnds of another run,
\* the clock or pg_cron may do.
Tame(q) ==
    guard'.run = q =>
        /\ guard.run = q
        /\ guard'.active => guard.active
        /\ guard'.kind = "armed" => guard.kind = "armed"
        /\ guard'.gen = guard.gen

LEMMA FollowsIsTame ==
    ASSUME NEW t \in Queries, NEW q \in Runs, q # t.run, Follows(t)
    PROVE  Tame(q)
BY CanaryAssumption DEF Follows, Tame, Runs, Queries

LEMMA RunKeeps ==
    ASSUME NEW q \in Runs, RunOK(q), run'[q] = run[q], Tame(q)
    PROVE  RunOK(q)'
BY DEF RunOK, OnItsWay, OwnGuard, OffAfterRollback, GoneOrInactive, OfCandidate,
       Candidates, Tame

LEMMA LateKeeps ==
    ASSUME NEW t \in Queries, LateOK(t), run'[t.run] = run[t.run]
    PROVE  LateOK(t)'
BY DEF LateOK, Candidates

\* What has to be shown of a step of run p.
Step(p) ==
    /\ DatabaseType' /\ DatabaseOK' /\ faults' \in 0 .. MaxFaults
    /\ run' \in [Runs -> Records]
    /\ \A q \in Runs \ {p} : run'[q] = run[q] /\ Tame(q)
    /\ \A t \in late' : t \in Queries /\ (t \in late \/ t.run = p)

Keeps(p) ==
    /\ Step(p)
    /\ RunOK(p)'
    /\ \A t \in late' : t.run = p => LateOK(t)'

LEMMA StepKeeps ==
    ASSUME Inductive, NEW p \in Runs, Keeps(p)
    PROVE  Inductive'
<1>1. TypeOK'
  BY DEF Keeps, Step, TypeOK, DatabaseType
<1>2. ASSUME NEW t \in late' PROVE LateOK(t)'
  <2>1. CASE t.run = p
    BY <2>1, <1>2 DEF Keeps
  <2>2. CASE t.run # p
    <3>1. t \in late /\ t \in Queries /\ t.run \in Runs
      BY <2>2, <1>2 DEF Keeps, Step, Queries
    <3> QED
      BY <3>1, <2>2, LateKeeps DEF Keeps, Step, Inductive
  <2> QED
    BY <2>1, <2>2
<1>3. ASSUME NEW q \in Runs PROVE RunOK(q)'
  <2>1. CASE q = p
    BY <2>1 DEF Keeps
  <2>2. CASE q # p
    BY <2>2, RunKeeps DEF Keeps, Step, Inductive
  <2> QED
    BY <2>1, <2>2
<1> QED
  BY <1>1, <1>2, <1>3 DEF Keeps, Step, Inductive

\* Nothing happens in the database: all of Step but the record of the run.
LEMMA QuietStep ==
    ASSUME Inductive, NEW p \in Runs, UNCHANGED <<active, guard, late, faults>>,
           run' \in [Runs -> Records],
           \A q \in Runs \ {p} : run'[q] = run[q]
    PROVE  Step(p)
BY DEF Inductive, TypeOK, DatabaseType, DatabaseOK, GuardShape, ActiveIsGuarded,
       DryRunStaysDry, Step, Tame

\* The effect of a query of p, answered or not.
QueryEffect(p, t) ==
    /\ DatabaseType' /\ DatabaseOK' /\ faults' \in 0 .. MaxFaults
    /\ late' \subseteq late \cup {t}
    /\ \A q \in Runs \ {p} : Tame(q)
    /\ UNCHANGED guard \/ Follows(t)

LEMMA AnsweredEffect ==
    ASSUME Inductive, NEW p \in Runs, NEW t \in Queries, t.run = p, Answered(t),
           t.op = "activate" => p \in RecoveryRuns
    PROVE  QueryEffect(p, t) /\ Follows(t) /\ late' = late
BY CommitKeeps, FollowsIsTame
   DEF Answered, QueryEffect, Inductive, TypeOK, DatabaseType

LEMMA FailedEffect ==
    ASSUME Inductive, NEW p \in Runs, NEW t \in Queries, t.run = p,
           NEW reachable \in BOOLEAN, Failed(t, reachable),
           t.op = "activate" => p \in RecoveryRuns
    PROVE  QueryEffect(p, t)
<1> USE DEF Inductive, TypeOK, DatabaseType
<1>1. faults \in 0 .. MaxFaults /\ MaxFaults \in Nat
  BY CanaryAssumption
<1>2. CASE UNCHANGED <<active, guard, late, faults>>
  BY <1>2, <1>1 DEF QueryEffect, Tame, DatabaseOK, GuardShape, ActiveIsGuarded,
                    DryRunStaysDry
<1>3. CASE Fault /\ Commit(t) /\ UNCHANGED late
  <2>1. faults' \in 0 .. MaxFaults
    BY <1>1, <1>3 DEF Fault
  <2> QED
    BY <2>1, <1>3, CommitKeeps, FollowsIsTame DEF QueryEffect
<1>4. CASE Fault /\ late' = late \cup {t} /\ UNCHANGED database
  <2>1. faults' \in 0 .. MaxFaults
    BY <1>1, <1>4 DEF Fault
  <2> QED
    BY <2>1, <1>4 DEF QueryEffect, Tame, DatabaseOK, GuardShape, ActiveIsGuarded,
                      DryRunStaysDry, database
<1> QED
  BY <1>2, <1>3, <1>4 DEF Failed

LEMMA QueryStep ==
    ASSUME Inductive, NEW p \in Runs, NEW t \in Queries, t.run = p,
           QueryEffect(p, t), run' \in [Runs -> Records],
           \A q \in Runs \ {p} : run'[q] = run[q]
    PROVE  Step(p)
BY DEF Step, QueryEffect, Inductive, TypeOK
-----------------------------------------------------------------------------
(* The steps of a run that send no query.                                   *)

LEMMA FreshFits == Fresh \in Records
BY CanaryAssumption DEF Fresh, Records, Places, Generations, Outcomes

\* The record of p takes a new value.
LEMMA Updates ==
    ASSUME TypeOK, NEW p \in Runs, NEW r \in Records, run' = [run EXCEPT ![p] = r]
    PROVE  /\ run' \in [Runs -> Records] /\ run'[p] = r
           /\ \A q \in Runs \ {p} : run'[q] = run[q]
BY DEF TypeOK

LEMMA MisfortuneKeeps ==
    ASSUME Inductive, NEW p \in Runs, Misfortune(p)
    PROVE  Keeps(p)
<1> USE DEF Inductive
<1>1. run[p] \in Records /\ faults' \in 0 .. MaxFaults
  BY CanaryAssumption DEF TypeOK, Misfortune, LosesLock, LosesProvider, PoisonsReceipt, Loses,
     Crashes, Fault
<1>2. UNCHANGED <<active, guard, late>>
  BY DEF Misfortune, LosesLock, LosesProvider, PoisonsReceipt, Loses, Crashes
<1>3. ASSUME NEW r \in Records, run' = [run EXCEPT ![p] = r]
      PROVE  Step(p)
  BY <1>1, <1>2, <1>3, Updates
     DEF Step, Tame, TypeOK, DatabaseType, DatabaseOK, GuardShape, ActiveIsGuarded,
         DryRunStaysDry
<1>4. ASSUME NEW what \in {"lock", "provider", "receipt"}, Loses(p, what)
      PROVE  Keeps(p)
  <2> DEFINE r == [run[p] EXCEPT !.lost = @ \cup {what}]
  <2>1. r \in Records /\ run' = [run EXCEPT ![p] = r]
    BY <1>1, <1>4 DEF Loses, Records
  <2>2. run'[p] = r /\ run[p] \in Records
    BY <2>1, <1>1, Updates
  <2>3. /\ r.at = run[p].at /\ r.gen = run[p].gen /\ r.tried = run[p].tried
        /\ r.zeros = run[p].zeros /\ r.mode = run[p].mode /\ r.exit = run[p].exit
    BY <1>1 DEF Records
  <2>4. RunOK(p)'
    BY <2>2, <2>3, <1>2 DEF RunOK, OnItsWay, OwnGuard, OffAfterRollback, GoneOrInactive,
       OfCandidate, Candidates
  <2>5. \A t \in late : t.run = p => LateOK(t)'
    BY <2>2, <2>3 DEF LateOK, Candidates
  <2> QED
    BY <2>1, <2>4, <2>5, <1>2, <1>3 DEF Keeps
<1>5. CASE Crashes(p)
  <2> DEFINE r == [Fresh EXCEPT !.at = "crashed"]
  <2>1. r \in Records /\ run' = [run EXCEPT ![p] = r]
    BY FreshFits, <1>5 DEF Crashes, Records, Places
  <2>2. run'[p] = r /\ r.at = "crashed" /\ r.exit = "none"
    BY <2>1, Updates DEF Fresh
  <2>3. RunOK(p)'
    BY <2>2 DEF RunOK, OnItsWay, OwnGuard, OffAfterRollback, GoneOrInactive,
       OfCandidate, Reported
  <2>4. \A t \in late : t.run = p => LateOK(t)'
    BY <2>2 DEF LateOK
  <2> QED
    BY <2>1, <2>3, <2>4, <1>2, <1>3 DEF Keeps
<1> QED
  BY <1>4, <1>5 DEF Misfortune, LosesLock, LosesProvider, PoisonsReceipt

\* Where a step of p may lead.
LEMMA GoesUpdates ==
    ASSUME TypeOK, NEW p \in Runs, NEW place \in Places, Goes(p, place)
    PROVE  /\ run' \in [Runs -> Records]
           /\ \A q \in Runs \ {p} : run'[q] = run[q]
           /\ run'[p] = [run[p] EXCEPT !.at = place] /\ run[p] \in Records
           /\ run'[p].at = place /\ run'[p].gen = run[p].gen /\ run'[p].tried = run[p].tried
           /\ run'[p].zeros = run[p].zeros /\ run'[p].exit = run[p].exit
           /\ run'[p].mode = run[p].mode
BY DEF Goes, TypeOK, Records

LEMMA StopsUpdates ==
    ASSUME TypeOK, NEW p \in Runs, NEW place \in Places, Stops(p, place)
    PROVE  /\ run' \in [Runs -> Records]
           /\ \A q \in Runs \ {p} : run'[q] = run[q]
           /\ run'[p] = [run[p] EXCEPT !.at = place, !.mode = "failed"]
           /\ run[p] \in Records
           /\ run'[p].at = place /\ run'[p].gen = run[p].gen /\ run'[p].tried = run[p].tried
           /\ run'[p].zeros = run[p].zeros /\ run'[p].exit = run[p].exit
           /\ run'[p].mode = "failed"
<1> DEFINE r == [run[p] EXCEPT !.at = place, !.mode = "failed"]
<1>1. run[p] \in Records
  BY DEF TypeOK
<1>2. r \in Records
  BY <1>1 DEF Records
<1>3. run' = [run EXCEPT ![p] = r]
  BY <1>1 DEF Stops, TypeOK
<1> QED
  BY <1>1, <1>2, <1>3, Updates DEF Records

LEMMA EndsUpdates ==
    ASSUME TypeOK, NEW p \in Runs, NEW outcome \in Outcomes, Ends(p, outcome)
    PROVE  /\ run' \in [Runs -> Records]
           /\ \A q \in Runs \ {p} : run'[q] = run[q]
           /\ run'[p].at = "ended" /\ run'[p].exit = outcome
           /\ run'[p].mode = run[p].mode
<1> DEFINE r == [Fresh EXCEPT !.at = "ended", !.exit = outcome, !.mode = run[p].mode]
<1>1. r \in Records
  BY FreshFits DEF TypeOK, Records, Places
<1> QED
  BY <1>1, Updates DEF Ends, Fresh

\* A run that ends without a report promises nothing of the guard.
LEMMA EndKeeps ==
    ASSUME Inductive, NEW p \in Runs, NEW outcome \in Outcomes \ Reported,
           Ends(p, outcome), Step(p),
           \A t \in late' : t.run = p /\ t.op = "activate" => p \in RecoveryRuns
    PROVE  Keeps(p)
<1>1. run'[p].at = "ended" /\ run'[p].exit = outcome
  BY EndsUpdates DEF Inductive
<1>2. RunOK(p)'
  BY <1>1 DEF RunOK, OnItsWay, OwnGuard, OffAfterRollback, GoneOrInactive, OfCandidate
<1>3. \A t \in late' : t.run = p => LateOK(t)'
  BY <1>1 DEF LateOK
<1> QED
  BY <1>2, <1>3 DEF Keeps

LEMMA QuietEnd ==
    ASSUME Inductive, NEW p \in Runs, NEW outcome \in Outcomes \ Reported,
           Ends(p, outcome), UNCHANGED <<active, guard, late, faults>>
    PROVE  Keeps(p)
BY EndKeeps, EndsUpdates, QuietStep DEF Inductive, LateOK

\* A run that reports and leaves no live guard of its own.
LEMMA ReportKeeps ==
    ASSUME Inductive, NEW p \in Runs, NEW outcome \in Outcomes, Ends(p, outcome),
           UNCHANGED <<active, guard, late, faults>>, run[p].at = "release"
    PROVE  Keeps(p)
<1> USE DEF Inductive
<1>1. Step(p) /\ run'[p].at = "ended" /\ run'[p].mode = run[p].mode
  BY EndsUpdates, QuietStep
<1>2. RunOK(p)'
  BY <1>1 DEF RunOK, OnItsWay, OwnGuard, OffAfterRollback, GoneOrInactive, OfCandidate
<1>3. \A t \in late' : t.run = p => LateOK(t)'
  BY <1>1 DEF LateOK
<1> QED
  BY <1>1, <1>2, <1>3 DEF Keeps

\* A quiet step to another place: what has to be shown of it.
Moves(p) ==
    /\ UNCHANGED <<active, guard, late, faults>>
    /\ run' \in [Runs -> Records] /\ run[p] \in Records
    /\ \A q \in Runs \ {p} : run'[q] = run[q]

LEMMA MoveKeeps ==
    ASSUME Inductive, NEW p \in Runs, Moves(p), RunOK(p)',
           \A t \in late : t.run = p => LateOK(t)'
    PROVE  Keeps(p)
BY QuietStep DEF Moves, Keeps

LEMMA PreflightKeeps ==
    ASSUME Inductive, NEW p \in Runs, Preflight(p)
    PROVE  Keeps(p)
<1>1. CASE Goes(p, "bootstrap")
  <2>1. Moves(p) /\ run'[p] = [run[p] EXCEPT !.at = "bootstrap"]
    BY <1>1, GoesUpdates DEF Inductive, Preflight, Moves, Places
  <2>2. run[p].at = "preflight" /\ RunOK(p) /\ run'[p].at = "bootstrap"
    BY <2>1 DEF Preflight, Inductive, Moves, Records
  <2>3. RunOK(p)'
    BY <2>1, <2>2 DEF Moves, Records, RunOK, OnItsWay, OwnGuard, OffAfterRollback,
       GoneOrInactive, OfCandidate
  <2>4. \A t \in late : t.run = p => LateOK(t)'
    BY <2>1, <2>2 DEF Inductive, LateOK
  <2> QED
    BY <2>1, <2>3, <2>4, MoveKeeps
<1>2. CASE Ends(p, "pre_guard")
  BY <1>2, QuietEnd DEF Preflight, Outcomes, Reported
<1> QED
  BY <1>1, <1>2 DEF Preflight

\* A run that stops observing goes to its rollback.
LEMMA StopKeeps ==
    ASSUME Inductive, NEW p \in Runs, RecoveryStop(p) \/ DryStop(p)
    PROVE  Keeps(p)
<1>1. Moves(p) /\ run'[p] = [run[p] EXCEPT !.at = "rollback", !.mode = "failed"]
  BY StopsUpdates DEF Inductive, RecoveryStop, DryStop, Moves, Places
<1>2. /\ run[p].at = "observe" /\ RunOK(p) /\ run'[p].at = "rollback"
      /\ run'[p].mode = "failed" /\ run'[p].gen = run[p].gen
      /\ run'[p].tried = run[p].tried /\ run'[p].exit = run[p].exit
  BY <1>1 DEF Inductive, RecoveryStop, DryStop, Moves, Records
<1>3. RunOK(p)'
  BY <1>1, <1>2 DEF Moves, RunOK, OnItsWay, OwnGuard, OffAfterRollback, GoneOrInactive,
     OfCandidate, Candidates, Reported
<1>4. \A t \in late : t.run = p => LateOK(t)'
  BY <1>1, <1>2 DEF Inductive, LateOK
<1> QED
  BY <1>1, <1>3, <1>4, MoveKeeps
\* A run past its rollback goes on towards its report.
LEMMA AdvanceKeeps ==
    ASSUME Inductive, NEW p \in Runs, NEW place \in {"final", "publish", "release"},
           Goes(p, place), UNCHANGED <<active, guard, late, faults>>,
           run[p].at \in {"deadman", "cleanup", "final", "publish"},
           run[p].at = "deadman" => \A t \in late : t.run = p => t.op = "rollback",
           guard.run = p => /\ ~guard.active
                            /\ place # "final" => p \in DryRuns /\ run[p].mode = "failed"
    PROVE  Keeps(p)
<1>1. Moves(p) /\ run'[p] = [run[p] EXCEPT !.at = place]
  BY GoesUpdates DEF Inductive, Moves, Places
<1>2. /\ RunOK(p) /\ run'[p].at = place /\ run'[p].mode = run[p].mode
      /\ run'[p].exit = run[p].exit /\ run[p].exit = "none"
  BY <1>1 DEF Inductive, RunOK, OnItsWay, Moves, Records
<1>3. RunOK(p)'
  BY <1>1, <1>2 DEF Moves, RunOK, OnItsWay, OwnGuard, OffAfterRollback, GoneOrInactive,
     OfCandidate, Reported
<1>4. \A t \in late : t.run = p => LateOK(t)'
  BY <1>1, <1>2 DEF Inductive, LateOK
<1> QED
  BY <1>1, <1>3, <1>4, MoveKeeps

LEMMA FinalKeeps ==
    ASSUME Inductive, NEW p \in Runs, RecoveryFinal(p) \/ DryFinal(p)
    PROVE  Keeps(p)
<1>1. CASE Clean /\ Goes(p, "publish")
  BY <1>1, AdvanceKeeps, CanaryAssumption
     DEF RecoveryFinal, DryFinal, Clean, Inductive, DatabaseOK, GuardShape, Runs
<1>2. CASE Ends(p, "manual")
  BY <1>2, QuietEnd DEF RecoveryFinal, DryFinal, Outcomes, Reported
<1> QED
  BY <1>1, <1>2 DEF RecoveryFinal, DryFinal

LEMMA PublishKeeps ==
    ASSUME Inductive, NEW p \in Runs, Publish(p) \/ DryPublish(p)
    PROVE  Keeps(p)
<1>1. CASE Goes(p, "release")
  BY <1>1, AdvanceKeeps
     DEF Publish, DryPublish, Inductive, RunOK, OwnGuard, OffAfterRollback, GoneOrInactive
<1>2. CASE Ends(p, "manual")
  BY <1>2, QuietEnd DEF Publish, DryPublish, Outcomes, Reported
<1> QED
  BY <1>1, <1>2 DEF Publish, DryPublish

LEMMA ReleaseKeeps ==
    ASSUME Inductive, NEW p \in Runs, RecoveryRelease(p) \/ DryRelease(p)
    PROVE  Keeps(p)
BY ReportKeeps DEF RecoveryRelease, DryRelease, Outcomes

LEMMA CompleteKeeps ==
    ASSUME Inductive, NEW p \in DryRuns, DryComplete(p)
    PROVE  Keeps(p)
<1> DEFINE r == [run[p] EXCEPT !.at = "deadman", !.mode = "passed"]
<1>1. p \in Runs /\ p \notin RecoveryRuns /\ run[p] \in Records
  BY CanaryAssumption DEF Runs, Inductive, TypeOK
<1>2. r \in Records /\ run' = [run EXCEPT ![p] = r]
  BY <1>1 DEF DryComplete, Records, Places, Inductive, TypeOK
<1>3. Moves(p) /\ run'[p] = r
  BY <1>1, <1>2, Updates DEF DryComplete, Moves, Inductive
<1>4. run[p].at = "observe" /\ RunOK(p) /\ r.at = "deadman" /\ r.exit = run[p].exit
  BY <1>1 DEF DryComplete, Inductive, Records
<1>5. RunOK(p)'
  BY <1>1, <1>3, <1>4 DEF RunOK, OnItsWay, OwnGuard, OffAfterRollback, GoneOrInactive,
     OfCandidate, Reported
<1>6. \A t \in late : t.run = p => LateOK(t)'
  BY <1>1, <1>3, <1>4 DEF Inductive, LateOK
<1> QED
  BY <1>1, <1>3, <1>5, <1>6, MoveKeeps

\* A dead-man of this run that was accepted has spent the guard.
LEMMA RecoveryDeadmanKeeps ==
    ASSUME Inductive, NEW p \in RecoveryRuns, RecoveryDeadman(p)
    PROVE  Keeps(p)
<1>1. p \in Runs /\ run[p] \in Records /\ guard \in Guards /\ RunOK(p)
  BY DEF Runs, Inductive, TypeOK
<1>2. CASE Ends(p, "manual")
  BY <1>1, <1>2, QuietEnd DEF RecoveryDeadman, Outcomes, Reported
<1>3. CASE ~Ends(p, "manual")
  <2> DEFINE r == [run[p] EXCEPT !.at = "cleanup", !.proved = TRUE,
                                 !.gen = guard.gen, !.tried = {}]
  <2>1. r \in Records /\ run' = [run EXCEPT ![p] = r]
    BY <1>1, <1>3 DEF RecoveryDeadman, Records, Places, Guards, Inductive, TypeOK
  <2>2. Moves(p) /\ run'[p] = r
    BY <1>1, <2>1, Updates DEF RecoveryDeadman, Moves, Inductive
  <2>3. /\ run[p].at = "deadman" /\ guard.kind = "spent" /\ ~guard.active
        /\ r.at = "cleanup" /\ r.exit = run[p].exit /\ run[p].exit = "none"
    BY <1>1, <1>3 DEF RecoveryDeadman, RecoveryEvidence, Inductive, DatabaseOK,
       GuardShape, Records, RunOK, OnItsWay
  <2>4. RunOK(p)'
    BY <2>2, <2>3, CanaryAssumption
       DEF Moves, RunOK, OnItsWay, OwnGuard, OffAfterRollback, GoneOrInactive,
           OfCandidate, Reported
  <2>5. \A t \in late : t.run = p => LateOK(t)'
    BY <2>2 DEF RecoveryDeadman
  <2> QED
    BY <1>1, <2>2, <2>4, <2>5, MoveKeeps
<1> QED
  BY <1>2, <1>3

LEMMA DryDeadmanKeeps ==
    ASSUME Inductive, NEW p \in DryRuns, DryDeadman(p)
    PROVE  Keeps(p)
<1>1. /\ p \in Runs /\ p \notin RecoveryRuns /\ run[p] \in Records /\ RunOK(p)
      /\ run[p].at = "deadman"
  BY CanaryAssumption DEF Runs, Inductive, TypeOK, DryDeadman
<1>2. CASE Ends(p, "manual")
  BY <1>1, <1>2, QuietEnd DEF DryDeadman, Outcomes, Reported
<1>3. CASE Clean /\ Goes(p, "final")
  BY <1>1, <1>3, AdvanceKeeps, CanaryAssumption
     DEF DryDeadman, Clean, Inductive, DatabaseOK, GuardShape, Runs
<1>4. CASE DryEvidence(p) /\ run' = [run EXCEPT ![p].at = "cleanup", ![p].proved = TRUE]
  <2> DEFINE r == [run[p] EXCEPT !.at = "cleanup", !.proved = TRUE]
  <2>1. r \in Records /\ run' = [run EXCEPT ![p] = r]
    BY <1>1, <1>4 DEF Records, Places, Inductive, TypeOK
  <2>2. Moves(p) /\ run'[p] = r
    BY <1>1, <2>1, Updates DEF DryDeadman, Moves, Inductive
  <2>3. /\ guard.kind = "spent" /\ ~guard.active
        /\ r.at = "cleanup" /\ r.exit = run[p].exit /\ run[p].exit = "none"
    BY <1>1, <1>4 DEF DryEvidence, Inductive, DatabaseOK, GuardShape, Records, RunOK, OnItsWay
  <2>4. RunOK(p)'
    BY <1>1, <2>2, <2>3 DEF Moves, RunOK, OnItsWay, OwnGuard, OffAfterRollback,
       GoneOrInactive, OfCandidate, Reported
  <2>5. \A t \in late : t.run = p => LateOK(t)'
    BY <1>1, <2>2 DEF DryDeadman, LateOK
  <2> QED
    BY <1>1, <2>2, <2>4, <2>5, MoveKeeps
<1> QED
  BY <1>2, <1>3, <1>4 DEF DryDeadman
-----------------------------------------------------------------------------
(* The steps of a run that send a query.                                    *)

LEMMA QueryKeeps ==
    ASSUME Inductive, NEW p \in Runs, NEW t \in Queries, t.run = p,
           QueryEffect(p, t), run' \in [Runs -> Records],
           \A q \in Runs \ {p} : run'[q] = run[q],
           RunOK(p)', \A u \in late' : u.run = p => LateOK(u)'
    PROVE  Keeps(p)
BY QueryStep DEF Keeps

\* A query that failed and after which the run ends without a report.
LEMMA FailedEnd ==
    ASSUME Inductive, NEW p \in Runs, NEW t \in Queries, t.run = p, t.op # "activate",
           NEW reachable \in BOOLEAN, Failed(t, reachable),
           NEW outcome \in Outcomes \ Reported, Ends(p, outcome)
    PROVE  Keeps(p)
<1>1. QueryEffect(p, t)
  BY FailedEffect
<1>2. Step(p)
  BY <1>1, QueryStep, EndsUpdates DEF Inductive
<1>3. \A u \in late' : u.run = p /\ u.op = "activate" => p \in RecoveryRuns
  BY <1>1 DEF QueryEffect, Inductive, LateOK
<1> QED
  BY <1>2, <1>3, EndKeeps

\* What is known of a run at its place, and that its queries are well formed.
LEMMA RunFacts ==
    ASSUME Inductive, NEW p \in Runs
    PROVE  /\ TypeOK /\ run[p] \in Records /\ RunOK(p) /\ Candidates(p) \in SUBSET Generations
           /\ run[p].gen \in Generations /\ 0 \in Generations
           /\ Signalled(p) \in BOOLEAN /\ CleanupReachable(p) \in BOOLEAN
           /\ Holds(p, "provider") \in BOOLEAN
BY CanaryAssumption DEF Inductive, TypeOK, Records, Candidates, Generations, Signalled,
   CleanupReachable, Holds

LEMMA RecoveryBootstrapKeeps ==
    ASSUME Inductive, NEW p \in RecoveryRuns, RecoveryBootstrap(p)
    PROVE  Keeps(p)
<1> DEFINE t == Query("bootstrap", p, {}, 0, FALSE)
<1>1. p \in Runs /\ p \notin DryRuns
  BY CanaryAssumption DEF Runs
<1>2. t \in Queries /\ t.op = "bootstrap" /\ t.run = p
  BY <1>1, RunFacts DEF Query, Queries
<1> HIDE DEF t
<1>3. CASE Answered(t) /\ (Goes(p, "activate") \/ Stops(p, "rollback"))
  <2>1. QueryEffect(p, t) /\ Follows(t) /\ late' = late
    BY <1>1, <1>2, <1>3, AnsweredEffect
  <2>2. /\ run' \in [Runs -> Records] /\ \A q \in Runs \ {p} : run'[q] = run[q]
        /\ run'[p].at \in {"activate", "rollback"} /\ run'[p].gen = run[p].gen
        /\ run'[p].tried = run[p].tried /\ run'[p].exit = run[p].exit
        /\ run'[p].zeros = run[p].zeros
    <3>1. TypeOK /\ "activate" \in Places /\ "rollback" \in Places
      BY <1>1, RunFacts DEF Places
    <3>2. CASE Goes(p, "activate")
      BY <1>1, <3>1, <3>2, GoesUpdates
    <3>3. CASE Stops(p, "rollback")
      BY <1>1, <3>1, <3>3, StopsUpdates
    <3> QED
      BY <1>3, <3>2, <3>3
  <2>3. run[p].at = "bootstrap" /\ RunOK(p)
    BY <1>1, RunFacts DEF RecoveryBootstrap
  <2>4. RunOK(p)'
    BY <1>1, <1>2, <2>1, <2>2, <2>3
       DEF Follows, RunOK, OnItsWay, OwnGuard, OffAfterRollback, GoneOrInactive,
           OfCandidate, Candidates, Reported
  <2>5. \A u \in late' : u.run = p => LateOK(u)'
    BY <1>1, <2>1, <2>2, <2>3 DEF Inductive, LateOK
  <2> QED
    BY <1>1, <1>2, <2>1, <2>2, <2>4, <2>5, QueryKeeps
<1>4. CASE Failed(t, Signalled(p)) /\ Ends(p, "pre_guard")
  BY <1>1, <1>2, <1>4, RunFacts, FailedEnd DEF Outcomes, Reported
<1> QED
  BY <1>3, <1>4 DEF RecoveryBootstrap, t

LEMMA RecoveryActivateKeeps ==
    ASSUME Inductive, NEW p \in RecoveryRuns, RecoveryActivate(p)
    PROVE  Keeps(p)
<1> DEFINE t == Query("activate", p, {run[p].gen}, 0, FALSE)
<1>1. p \in Runs /\ p \notin DryRuns /\ run[p] \in Records
  BY CanaryAssumption DEF Runs, Inductive, TypeOK
<1>2. t \in Queries /\ t.op = "activate" /\ t.run = p
  BY <1>1, RunFacts DEF Query, Queries
<1> HIDE DEF t
<1>3. run[p].at = "activate" /\ RunOK(p)
  BY <1>1, RunFacts DEF RecoveryActivate
<1>4. ASSUME QueryEffect(p, t),
             run' \in [Runs -> Records], \A q \in Runs \ {p} : run'[q] = run[q],
             run'[p].at \in {"observe", "rollback"}, run'[p].gen = run[p].gen,
             run'[p].tried = run[p].tried, run'[p].exit = run[p].exit,
             run'[p].zeros = run[p].zeros
      PROVE  Keeps(p)
  <2>1. RunOK(p)'
    BY <1>1, <1>2, <1>3, <1>4, CanaryAssumption
       DEF QueryEffect, Follows, RunOK, OnItsWay, OwnGuard, OffAfterRollback,
           GoneOrInactive, OfCandidate, Candidates, Reported, Runs
  <2>2. \A u \in late' : u.run = p => LateOK(u)'
    BY <1>1, <1>2, <1>3, <1>4 DEF QueryEffect, Inductive, LateOK
  <2> QED
    BY <1>1, <1>2, <1>4, <2>1, <2>2, QueryKeeps
<1>5. CASE Answered(t) /\ run' = [run EXCEPT ![p].live = TRUE,
                          ![p].at = IF Holds(p, "receipt") THEN "observe" ELSE "rollback",
                          ![p].mode = IF Holds(p, "receipt") THEN @ ELSE "failed"]
  <2> DEFINE r == [run[p] EXCEPT !.live = TRUE,
                     !.at = IF Holds(p, "receipt") THEN "observe" ELSE "rollback",
                     !.mode = IF Holds(p, "receipt") THEN @ ELSE "failed"]
  <2>1. r \in Records
    BY <1>1 DEF Records, Places
  <2>2. run' = [run EXCEPT ![p] = r]
    BY <1>1, <1>5 DEF Inductive, TypeOK
  <2>3. /\ r.at \in {"observe", "rollback"} /\ r.gen = run[p].gen /\ r.exit = run[p].exit
        /\ r.tried = run[p].tried /\ r.zeros = run[p].zeros
    BY <1>1 DEF Records
  <2>4. QueryEffect(p, t)
    BY <1>1, <1>2, <1>5, AnsweredEffect
  <2> HIDE DEF r
  <2>5. run' \in [Runs -> Records] /\ run'[p] = r /\ \A q \in Runs \ {p} : run'[q] = run[q]
    BY <1>1, <2>1, <2>2, Updates DEF Inductive
  <2> QED
    BY <1>4, <2>3, <2>4, <2>5
<1>6. CASE Failed(t, Signalled(p)) /\ Stops(p, "rollback")
  <2>1. QueryEffect(p, t)
    BY <1>1, <1>2, <1>6, RunFacts, FailedEffect
  <2>2. /\ run' \in [Runs -> Records] /\ \A q \in Runs \ {p} : run'[q] = run[q]
        /\ run'[p] = [run[p] EXCEPT !.at = "rollback", !.mode = "failed"]
    BY <1>1, <1>6, RunFacts, StopsUpdates DEF Places
  <2> QED
    BY <1>1, <1>4, <2>1, <2>2 DEF Records
<1> QED
  BY <1>5, <1>6 DEF RecoveryActivate, t
LEMMA RecoveryObserveKeeps ==
    ASSUME Inductive, NEW p \in RecoveryRuns, RecoveryObserve(p)
    PROVE  Keeps(p)
<1> DEFINE next == run[p].gen + 1
           t == Query("heartbeat", p, {run[p].gen}, next, TRUE)
<1>1. p \in Runs /\ p \notin DryRuns /\ run[p] \in Records
  BY CanaryAssumption DEF Runs, Inductive, TypeOK
<1>2. next \in Generations
  <2>1. run[p].gen \in 0 .. MaxSamples /\ run[p].gen < MaxSamples
    BY <1>1, RunFacts DEF RecoveryObserve, Generations
  <2> QED
    BY <2>1, CanaryAssumption DEF Generations
<1>3. t \in Queries /\ t.op = "heartbeat" /\ t.run = p /\ t.next = next
  BY <1>1, <1>2, RunFacts DEF Query, Queries
<1>4. run[p].at = "observe" /\ RunOK(p)
  BY <1>1, RunFacts DEF RecoveryObserve
<1>5. CASE /\ Answered(t)
           /\ \E evaluation \in Observations :
                LET zeros == IF evaluation.zeroWork THEN run[p].zeros + 1 ELSE 0
                    stop == evaluation.stop \/ ~Holds(p, "receipt")
                IN run' = [run EXCEPT ![p].gen = next, ![p].zeros = zeros,
                     ![p].at = IF stop \/ zeros = 2 THEN "rollback" ELSE "observe",
                     ![p].mode = IF stop THEN "failed"
                                 ELSE IF zeros = 2 THEN "passed" ELSE @]
  <2> HIDE DEF t, next
  <2>1. PICK evaluation \in Observations :
          run' = [run EXCEPT ![p].gen = next,
            ![p].zeros = IF evaluation.zeroWork THEN run[p].zeros + 1 ELSE 0,
            ![p].at = IF \/ evaluation.stop \/ ~Holds(p, "receipt")
                         \/ (IF evaluation.zeroWork THEN run[p].zeros + 1 ELSE 0) = 2
                      THEN "rollback" ELSE "observe",
            ![p].mode = IF evaluation.stop \/ ~Holds(p, "receipt") THEN "failed"
                        ELSE IF (IF evaluation.zeroWork THEN run[p].zeros + 1 ELSE 0) = 2
                             THEN "passed" ELSE @]
    BY <1>5
  <2> DEFINE zeros == IF evaluation.zeroWork THEN run[p].zeros + 1 ELSE 0
             stop == evaluation.stop \/ ~Holds(p, "receipt")
             place == IF stop \/ zeros = 2 THEN "rollback" ELSE "observe"
             mode == IF stop THEN "failed" ELSE IF zeros = 2 THEN "passed" ELSE run[p].mode
             r == [run[p] EXCEPT !.gen = next, !.zeros = zeros, !.at = place, !.mode = mode]
  <2>2. zeros \in 0 .. 2 /\ place \in {"rollback", "observe"} /\ (place = "observe" => zeros < 2)
    BY <1>1, <1>4 DEF RunOK, OnItsWay, Records
  <2>3. mode \in {"running", "passed", "failed", "ambiguous"}
    BY <1>1 DEF Records
  <2>4. run' = [run EXCEPT ![p] = r]
    BY <1>1, <2>1 DEF Inductive, TypeOK
  <2> HIDE DEF zeros, stop, place, mode
  <2>5. r \in Records
    BY <1>1, <1>2, <2>2, <2>3 DEF Records, Places
  <2>6. /\ r.at = place /\ r.gen = next /\ r.tried = run[p].tried /\ r.zeros = zeros
        /\ r.exit = run[p].exit
    BY <1>1 DEF Records
  <2> HIDE DEF r
  <2>7. run' \in [Runs -> Records] /\ run'[p] = r /\ \A q \in Runs \ {p} : run'[q] = run[q]
    BY <1>1, <2>4, <2>5, Updates DEF Inductive
  <2>8. QueryEffect(p, t) /\ Follows(t) /\ late' = late
    BY <1>1, <1>3, <1>5, AnsweredEffect
  <2>9. RunOK(p)'
    BY <1>1, <1>3, <1>4, <2>2, <2>6, <2>7, <2>8, CanaryAssumption
       DEF Follows, RunOK, OnItsWay, OwnGuard, OffAfterRollback, GoneOrInactive,
           OfCandidate, Candidates, Reported, Runs
  <2>10. \A u \in late' : u.run = p => LateOK(u)'
    BY <1>1, <1>4, <2>8 DEF Inductive, LateOK
  <2> QED
    BY <1>1, <1>3, <2>7, <2>8, <2>9, <2>10, QueryKeeps
<1>6. CASE /\ Failed(t, Signalled(p))
           /\ run' = [run EXCEPT ![p].tried = {next}, ![p].at = "rollback",
                                 ![p].mode = "failed"]
  <2> DEFINE r == [run[p] EXCEPT !.tried = {next}, !.at = "rollback", !.mode = "failed"]
  <2>1. r \in Records
    BY <1>1, <1>2 DEF Records, Places
  <2>2. run' = [run EXCEPT ![p] = r]
    BY <1>1, <1>6 DEF Inductive, TypeOK
  <2>3. /\ r.at = "rollback" /\ r.gen = run[p].gen /\ r.tried = {next}
        /\ r.zeros = run[p].zeros /\ r.exit = run[p].exit /\ r.mode = "failed"
    BY <1>1 DEF Records
  <2> HIDE DEF r, t, next
  <2>4. run' \in [Runs -> Records] /\ run'[p] = r /\ \A q \in Runs \ {p} : run'[q] = run[q]
    BY <1>1, <2>1, <2>2, Updates DEF Inductive
  <2>5. QueryEffect(p, t)
    BY <1>1, <1>3, <1>6, RunFacts, FailedEffect
  <2>6. RunOK(p)'
    BY <1>1, <1>3, <1>4, <2>3, <2>4, <2>5, CanaryAssumption
       DEF QueryEffect, Follows, RunOK, OnItsWay, OwnGuard, OffAfterRollback,
           GoneOrInactive, OfCandidate, Candidates, Reported, Runs
  <2>7. \A u \in late' : u.run = p => LateOK(u)'
    BY <1>1, <1>3, <1>4, <2>3, <2>4, <2>5 DEF QueryEffect, Inductive, LateOK, Candidates
  <2> QED
    BY <1>1, <1>3, <2>4, <2>5, <2>6, <2>7, QueryKeeps
<1> QED
  BY <1>5, <1>6 DEF RecoveryObserve
\* After a rollback or a cleanup of p that was answered, or one that failed.
LEMMA RecoveryRollbackKeeps ==
    ASSUME Inductive, NEW p \in RecoveryRuns, RecoveryRollback(p)
    PROVE  Keeps(p)
<1> DEFINE t == Query("rollback", p, Candidates(p), 0, FALSE)
<1>1. p \in Runs /\ p \notin DryRuns
  BY CanaryAssumption DEF Runs
<1>2. t \in Queries /\ t.op = "rollback" /\ t.run = p
  BY <1>1, RunFacts DEF Query, Queries
<1>3. run[p].at = "rollback" /\ RunOK(p) /\ TypeOK
  BY <1>1, RunFacts DEF RecoveryRollback
<1> HIDE DEF t
<1>4. CASE Answered(t) /\ Goes(p, "cleanup")
  <2>1. QueryEffect(p, t) /\ Follows(t) /\ late' = late
    BY <1>1, <1>2, <1>4, AnsweredEffect
  <2>2. /\ run' \in [Runs -> Records] /\ \A q \in Runs \ {p} : run'[q] = run[q]
        /\ run'[p].at = "cleanup" /\ run'[p].gen = run[p].gen
        /\ run'[p].tried = run[p].tried /\ run'[p].exit = run[p].exit
    BY <1>1, <1>3, <1>4, GoesUpdates DEF Places
  <2>3. RunOK(p)'
    BY <1>1, <1>2, <1>3, <2>1, <2>2, CanaryAssumption
       DEF Follows, RunOK, OnItsWay, OwnGuard, OffAfterRollback, GoneOrInactive,
           OfCandidate, Candidates, Reported, Runs
  <2>4. \A u \in late' : u.run = p => LateOK(u)'
    BY <1>1, <1>3, <2>1, <2>2 DEF Inductive, LateOK, Candidates
  <2> QED
    BY <1>1, <1>2, <2>1, <2>2, <2>3, <2>4, QueryKeeps
<1>5. CASE Failed(t, Signalled(p)) /\ Goes(p, "settle")
  <2>1. QueryEffect(p, t)
    BY <1>1, <1>2, <1>5, RunFacts, FailedEffect
  <2>2. /\ run' \in [Runs -> Records] /\ \A q \in Runs \ {p} : run'[q] = run[q]
        /\ run'[p].at = "settle" /\ run'[p].gen = run[p].gen
        /\ run'[p].tried = run[p].tried /\ run'[p].exit = run[p].exit
    BY <1>1, <1>3, <1>5, GoesUpdates DEF Places
  <2>3. RunOK(p)'
    BY <1>1, <1>2, <1>3, <2>1, <2>2, CanaryAssumption
       DEF QueryEffect, Follows, RunOK, OnItsWay, OwnGuard, OffAfterRollback,
           GoneOrInactive, OfCandidate, Candidates, Reported, Runs
  <2>4. \A u \in late' : u.run = p => LateOK(u)'
    BY <1>1, <1>2, <1>3, <2>1, <2>2 DEF QueryEffect, Inductive, LateOK, Candidates
  <2> QED
    BY <1>1, <1>2, <2>1, <2>2, <2>3, <2>4, QueryKeeps
<1> QED
  BY <1>4, <1>5 DEF RecoveryRollback, t

\* A cleanup that was answered leaves no guard.
LEMMA CleanedKeeps ==
    ASSUME Inductive, NEW p \in Runs, NEW t \in Queries, t.op = "cleanup", t.run = p,
           Answered(t), Goes(p, "final"), run[p].at \in {"settle", "cleanup"}
    PROVE  Keeps(p)
<1>1. QueryEffect(p, t) /\ Follows(t) /\ late' = late /\ TypeOK /\ RunOK(p)
  BY AnsweredEffect, RunFacts
<1>2. /\ run' \in [Runs -> Records] /\ \A q \in Runs \ {p} : run'[q] = run[q]
      /\ run'[p].at = "final" /\ run'[p].exit = run[p].exit
  BY <1>1, GoesUpdates DEF Places
<1>3. guard'.run # p
  BY <1>1, CanaryAssumption DEF Follows, Runs
<1>4. RunOK(p)'
  BY <1>1, <1>2, <1>3 DEF RunOK, OnItsWay, OwnGuard
<1>5. \A u \in late' : u.run = p => LateOK(u)'
  BY <1>1, <1>2 DEF Inductive, LateOK
<1> QED
  BY <1>1, <1>2, <1>4, <1>5, QueryKeeps

LEMMA RecoverySettleKeeps ==
    ASSUME Inductive, NEW p \in RecoveryRuns, RecoverySettle(p)
    PROVE  Keeps(p)
<1> DEFINE t == CleanupQuery(p)
<1>1. p \in Runs /\ p \notin DryRuns
  BY CanaryAssumption DEF Runs
<1>2. t \in Queries /\ t.op = "cleanup" /\ t.run = p
  BY <1>1, RunFacts DEF Query, Queries, CleanupQuery
<1>3. run[p].at = "settle" /\ RunOK(p) /\ TypeOK
  BY <1>1, RunFacts DEF RecoverySettle
<1> HIDE DEF t
<1>4. CASE Answered(t) /\ Goes(p, "final")
  BY <1>1, <1>2, <1>3, <1>4, CleanedKeeps
<1>5. CASE Failed(t, CleanupReachable(p)) /\ Goes(p, "deadman")
  <2>1. QueryEffect(p, t)
    BY <1>1, <1>2, <1>5, RunFacts, FailedEffect
  <2>2. /\ run' \in [Runs -> Records] /\ \A q \in Runs \ {p} : run'[q] = run[q]
        /\ run'[p].at = "deadman" /\ run'[p].gen = run[p].gen
        /\ run'[p].tried = run[p].tried /\ run'[p].exit = run[p].exit
    BY <1>1, <1>3, <1>5, GoesUpdates DEF Places
  <2>3. RunOK(p)'
    BY <1>1, <1>2, <1>3, <2>1, <2>2, CanaryAssumption
       DEF QueryEffect, Follows, RunOK, OnItsWay, OwnGuard, OffAfterRollback,
           GoneOrInactive, OfCandidate, Candidates, Reported, Runs
  <2>4. \A u \in late' : u.run = p => LateOK(u)'
    BY <1>1, <1>2, <1>3, <2>1, <2>2 DEF QueryEffect, Inductive, LateOK, Candidates
  <2> QED
    BY <1>1, <1>2, <2>1, <2>2, <2>3, <2>4, QueryKeeps
<1> QED
  BY <1>4, <1>5 DEF RecoverySettle, t

LEMMA RecoveryCleanupKeeps ==
    ASSUME Inductive, NEW p \in RecoveryRuns, RecoveryCleanup(p)
    PROVE  Keeps(p)
<1> DEFINE t == CleanupQuery(p)
<1>1. p \in Runs /\ run[p].at = "cleanup"
  BY DEF Runs, RecoveryCleanup
<1>2. t \in Queries /\ t.op = "cleanup" /\ t.run = p
  BY <1>1, RunFacts DEF Query, Queries, CleanupQuery
<1> HIDE DEF t
<1>3. CASE Answered(t) /\ Goes(p, "final")
  BY <1>1, <1>2, <1>3, CleanedKeeps
<1>4. CASE Failed(t, CleanupReachable(p)) /\ Ends(p, "manual")
  BY <1>1, <1>2, <1>4, RunFacts, FailedEnd DEF Outcomes, Reported
<1> QED
  BY <1>3, <1>4 DEF RecoveryCleanup, t

LEMMA DryCleanupKeeps ==
    ASSUME Inductive, NEW p \in DryRuns, DryCleanup(p)
    PROVE  Keeps(p)
<1> DEFINE t == Query("cleanup", p, {}, 0, FALSE)
<1>1. p \in Runs /\ run[p].at = "cleanup"
  BY DEF Runs, DryCleanup
<1>2. t \in Queries /\ t.op = "cleanup" /\ t.run = p
  BY <1>1, RunFacts DEF Query, Queries
<1> HIDE DEF t
<1>3. CASE Answered(t) /\ Goes(p, "final")
  BY <1>1, <1>2, <1>3, CleanedKeeps
<1>4. CASE Failed(t, Holds(p, "provider")) /\ Ends(p, "manual")
  BY <1>1, <1>2, <1>4, RunFacts, FailedEnd DEF Outcomes, Reported
<1> QED
  BY <1>3, <1>4 DEF DryCleanup, t
LEMMA DryBootstrapKeeps ==
    ASSUME Inductive, NEW p \in DryRuns, DryBootstrap(p)
    PROVE  Keeps(p)
<1> DEFINE t == Query("bootstrap", p, {}, 0, FALSE)
<1>1. p \in Runs /\ p \notin RecoveryRuns
  BY CanaryAssumption DEF Runs
<1>2. t \in Queries /\ t.op = "bootstrap" /\ t.run = p
  BY <1>1, RunFacts DEF Query, Queries
<1>3. run[p].at = "bootstrap" /\ RunOK(p) /\ TypeOK /\ run[p] \in Records
  BY <1>1, RunFacts DEF DryBootstrap
<1> HIDE DEF t
<1>4. CASE Ends(p, "pre_guard") /\ UNCHANGED <<active, guard, late, faults>>
  BY <1>1, <1>4, QuietEnd DEF Outcomes, Reported
<1>5. CASE Answered(t) /\ (Goes(p, "observe") \/ Stops(p, "rollback"))
  <2>1. QueryEffect(p, t) /\ Follows(t) /\ late' = late
    BY <1>1, <1>2, <1>5, AnsweredEffect
  <2>2. /\ run' \in [Runs -> Records] /\ \A q \in Runs \ {p} : run'[q] = run[q]
        /\ run'[p].at \in {"observe", "rollback"} /\ run'[p].tried = run[p].tried
        /\ run'[p].zeros = run[p].zeros /\ run'[p].exit = run[p].exit
        /\ run'[p].at = "rollback" => run'[p].mode = "failed"
    <3>1. "observe" \in Places /\ "rollback" \in Places
      BY DEF Places
    <3>2. CASE Goes(p, "observe")
      BY <1>1, <1>3, <3>1, <3>2, GoesUpdates
    <3>3. CASE Stops(p, "rollback")
      BY <1>1, <1>3, <3>1, <3>3, StopsUpdates
    <3> QED
      BY <1>5, <3>2, <3>3
  <2>3. RunOK(p)'
    BY <1>1, <1>3, <2>2
       DEF RunOK, OnItsWay, OwnGuard, OffAfterRollback, GoneOrInactive, OfCandidate, Reported
  <2>4. \A u \in late' : u.run = p => LateOK(u)'
    BY <1>1, <1>3, <2>1 DEF Inductive, LateOK
  <2> QED
    BY <1>1, <1>2, <2>1, <2>2, <2>3, <2>4, QueryKeeps
<1>6. CASE /\ Failed(t, Signalled(p))
           /\ run' = [run EXCEPT ![p].at = "deadman", ![p].mode = "ambiguous"]
  <2> DEFINE r == [run[p] EXCEPT !.at = "deadman", !.mode = "ambiguous"]
  <2>1. r \in Records
    BY <1>3 DEF Records, Places
  <2>2. run' = [run EXCEPT ![p] = r]
    BY <1>1, <1>6 DEF Inductive, TypeOK
  <2>3. r.at = "deadman" /\ r.exit = run[p].exit
    BY <1>3 DEF Records
  <2> HIDE DEF r
  <2>4. run' \in [Runs -> Records] /\ run'[p] = r /\ \A q \in Runs \ {p} : run'[q] = run[q]
    BY <1>1, <2>1, <2>2, Updates DEF Inductive
  <2>5. QueryEffect(p, t)
    BY <1>1, <1>2, <1>6, RunFacts, FailedEffect
  <2>6. RunOK(p)'
    BY <1>1, <1>3, <2>3, <2>4
       DEF RunOK, OnItsWay, OwnGuard, OffAfterRollback, GoneOrInactive, OfCandidate, Reported
  <2>7. \A u \in late' : u.run = p => LateOK(u)'
    BY <1>1, <1>2, <1>3, <2>3, <2>4, <2>5 DEF QueryEffect, Inductive, LateOK
  <2> QED
    BY <1>1, <1>2, <2>4, <2>5, <2>6, <2>7, QueryKeeps
<1> QED
  BY <1>4, <1>5, <1>6 DEF DryBootstrap, t

LEMMA DrySampleKeeps ==
    ASSUME Inductive, NEW p \in DryRuns, DrySample(p)
    PROVE  Keeps(p)
<1> DEFINE next == run[p].gen + 1
           t == Query("heartbeat", p, {run[p].gen}, next, FALSE)
<1>1. p \in Runs /\ p \notin RecoveryRuns
  BY CanaryAssumption DEF Runs
<1>2. next \in Generations
  <2>1. run[p].gen \in 0 .. MaxSamples /\ run[p].gen < MaxSamples
    BY <1>1, RunFacts DEF DrySample, Generations
  <2> QED
    BY <2>1, CanaryAssumption DEF Generations
<1>3. t \in Queries /\ t.op = "heartbeat" /\ t.run = p
  BY <1>1, <1>2, RunFacts DEF Query, Queries
<1>4. run[p].at = "observe" /\ RunOK(p) /\ TypeOK /\ run[p] \in Records
  BY <1>1, RunFacts DEF DrySample
<1>5. ASSUME QueryEffect(p, t), run' \in [Runs -> Records],
             \A q \in Runs \ {p} : run'[q] = run[q],
             run'[p].at \in {"observe", "rollback"}, run'[p].tried = run[p].tried,
             run'[p].zeros = run[p].zeros, run'[p].exit = run[p].exit,
             run'[p].at = "rollback" => run'[p].mode = "failed"
      PROVE  Keeps(p)
  <2>1. RunOK(p)'
    BY <1>1, <1>4, <1>5
       DEF RunOK, OnItsWay, OwnGuard, OffAfterRollback, GoneOrInactive, OfCandidate, Reported
  <2>2. \A u \in late' : u.run = p => LateOK(u)'
    BY <1>1, <1>3, <1>4, <1>5 DEF QueryEffect, Inductive, LateOK
  <2> QED
    BY <1>1, <1>3, <1>5, <2>1, <2>2, QueryKeeps
<1>6. CASE /\ Answered(t)
           /\ run' = [run EXCEPT ![p].gen = next,
                          ![p].at = IF Holds(p, "receipt") THEN @ ELSE "rollback",
                          ![p].mode = IF Holds(p, "receipt") THEN @ ELSE "failed"]
  <2> DEFINE r == [run[p] EXCEPT !.gen = next,
                     !.at = IF Holds(p, "receipt") THEN @ ELSE "rollback",
                     !.mode = IF Holds(p, "receipt") THEN @ ELSE "failed"]
  <2> HIDE DEF t, next
  <2>1. r \in Records
    BY <1>2, <1>4 DEF Records, Places
  <2>2. run' = [run EXCEPT ![p] = r]
    BY <1>1, <1>6 DEF Inductive, TypeOK
  <2>3. /\ r.at \in {"observe", "rollback"} /\ r.exit = run[p].exit
        /\ r.tried = run[p].tried /\ r.zeros = run[p].zeros
        /\ r.at = "rollback" => r.mode = "failed"
    BY <1>4 DEF Records
  <2> HIDE DEF r
  <2>4. run' \in [Runs -> Records] /\ run'[p] = r /\ \A q \in Runs \ {p} : run'[q] = run[q]
    BY <1>1, <2>1, <2>2, Updates DEF Inductive
  <2>5. QueryEffect(p, t)
    BY <1>1, <1>3, <1>6, AnsweredEffect
  <2> QED
    BY <1>5, <2>3, <2>4, <2>5
<1>7. CASE Failed(t, Signalled(p)) /\ Stops(p, "rollback")
  <2> HIDE DEF t, next
  <2>1. QueryEffect(p, t)
    BY <1>1, <1>3, <1>7, RunFacts, FailedEffect
  <2>2. "rollback" \in Places
    BY DEF Places
  <2> QED
    BY <1>1, <1>4, <1>5, <1>7, <2>1, <2>2, StopsUpdates
<1> QED
  BY <1>6, <1>7 DEF DrySample

LEMMA DryRollbackKeeps ==
    ASSUME Inductive, NEW p \in DryRuns, DryRollback(p)
    PROVE  Keeps(p)
<1> DEFINE t == Query("rollback", p, {}, 0, FALSE)
<1>1. p \in Runs /\ p \notin RecoveryRuns
  BY CanaryAssumption DEF Runs
<1>2. t \in Queries /\ t.op = "rollback" /\ t.run = p
  BY <1>1, RunFacts DEF Query, Queries
<1>3. run[p].at = "rollback" /\ RunOK(p) /\ TypeOK
  BY <1>1, RunFacts DEF DryRollback
<1> HIDE DEF t
<1>4. CASE Answered(t) /\ Goes(p, "publish")
  <2>1. QueryEffect(p, t) /\ Follows(t) /\ late' = late
    BY <1>1, <1>2, <1>4, AnsweredEffect
  <2>2. /\ run' \in [Runs -> Records] /\ \A q \in Runs \ {p} : run'[q] = run[q]
        /\ run'[p].at = "publish" /\ run'[p].mode = run[p].mode
        /\ run'[p].exit = run[p].exit
    BY <1>1, <1>3, <1>4, GoesUpdates DEF Places
  <2>3. RunOK(p)'
    BY <1>1, <1>2, <1>3, <2>1, <2>2
       DEF Follows, RunOK, OnItsWay, OwnGuard, OffAfterRollback, GoneOrInactive,
           OfCandidate, Reported
  <2>4. \A u \in late' : u.run = p => LateOK(u)'
    BY <1>1, <1>3, <2>1 DEF Inductive, LateOK
  <2> QED
    BY <1>1, <1>2, <2>1, <2>2, <2>3, <2>4, QueryKeeps
<1>5. CASE Failed(t, Holds(p, "provider")) /\ Goes(p, "deadman")
  <2>1. QueryEffect(p, t)
    BY <1>1, <1>2, <1>5, RunFacts, FailedEffect
  <2>2. /\ run' \in [Runs -> Records] /\ \A q \in Runs \ {p} : run'[q] = run[q]
        /\ run'[p].at = "deadman" /\ run'[p].exit = run[p].exit
    BY <1>1, <1>3, <1>5, GoesUpdates DEF Places
  <2>3. RunOK(p)'
    BY <1>1, <1>3, <2>2
       DEF RunOK, OnItsWay, OwnGuard, OffAfterRollback, GoneOrInactive, OfCandidate, Reported
  <2>4. \A u \in late' : u.run = p => LateOK(u)'
    BY <1>1, <1>2, <1>3, <2>1 DEF QueryEffect, Inductive, LateOK
  <2> QED
    BY <1>1, <1>2, <2>1, <2>2, <2>3, <2>4, QueryKeeps
<1> QED
  BY <1>4, <1>5 DEF DryRollback, t

-----------------------------------------------------------------------------
(* The server's steps, and the theorems.                                    *)

\* A query given up commits late: LateOK says why it does no harm.
LEMMA LateEndsKeeps ==
    ASSUME Inductive, UNCHANGED run, NEW t \in late, LateEnds(t)
    PROVE  Inductive'
<1>1. t \in Queries /\ t.run \in Runs /\ LateOK(t) /\ DatabaseType /\ DatabaseOK
      /\ (t.op = "activate" => t.run \in RecoveryRuns)
  BY DEF Inductive, TypeOK, DatabaseType, Queries, LateOK
<1>2. late' \subseteq late /\ UNCHANGED <<run, faults>>
  BY DEF LateEnds
<1>3. \A u \in late' : LateOK(u)'
  BY <1>2 DEF Inductive, LateOK, Candidates
<1>4. CASE UNCHANGED database
  <2>1. TypeOK'
    BY <1>2, <1>4 DEF Inductive, TypeOK, database
  <2>2. DatabaseOK'
    BY <1>4 DEF Inductive, DatabaseOK, GuardShape, ActiveIsGuarded, DryRunStaysDry, database
  <2>3. \A p \in Runs : RunOK(p)'
    BY <1>2, <1>4, RunKeeps DEF Inductive, Tame, database
  <2> QED
    BY <1>3, <2>1, <2>2, <2>3 DEF Inductive
<1>5. CASE Commit(t)
  <2>1. DatabaseType' /\ DatabaseOK' /\ Follows(t)
    BY <1>1, <1>5, CommitKeeps
  <2>2. TypeOK'
    BY <1>2, <2>1 DEF Inductive, TypeOK, DatabaseType
  <2>3. ASSUME NEW p \in Runs PROVE RunOK(p)'
    <3>1. RunOK(p) /\ run'[p] = run[p]
      BY <1>2 DEF Inductive
    <3>2. CASE p # t.run
      BY <1>1, <2>1, <3>1, <3>2, FollowsIsTame, RunKeeps
    <3>3. CASE p = t.run
      BY <1>1, <2>1, <3>1, <3>3, CanaryAssumption
         DEF Follows, LateOK, RunOK, OnItsWay, OwnGuard, OffAfterRollback,
             GoneOrInactive, OfCandidate, Candidates, Reported, Runs, Queries
    <3> QED
      BY <3>2, <3>3
  <2> QED
    BY <1>3, <2>1, <2>2, <2>3 DEF Inductive
<1> QED
  BY <1>4, <1>5 DEF LateEnds

LEMMA ServerStepKeeps ==
    ASSUME Inductive, Server, UNCHANGED run
    PROVE  Inductive'
<1>1. CASE LeaseExpires \/ LaunchDeadman \/ DeadmanRuns \/ TargetRuns
  <2>1. DatabaseType /\ DatabaseOK
    BY DEF Inductive, TypeOK, DatabaseType
  <2>2. /\ DatabaseType' /\ DatabaseOK' /\ UNCHANGED <<late, faults>>
        /\ guard'.run = guard.run /\ guard'.gen = guard.gen
        /\ guard'.active => guard.active
        /\ guard'.kind = "armed" => guard.kind = "armed"
    BY <1>1, <2>1, ServerKeeps
  <2>3. TypeOK'
    BY <2>2 DEF Inductive, TypeOK, DatabaseType
  <2>4. \A p \in Runs : RunOK(p)'
    BY <2>2, RunKeeps DEF Inductive, Tame
  <2>5. \A t \in late' : LateOK(t)'
    BY <2>2 DEF Inductive, LateOK, Candidates
  <2> QED
    BY <2>2, <2>3, <2>4, <2>5 DEF Inductive
<1>2. CASE ServerEnds
  BY <1>2, LateEndsKeeps DEF ServerEnds
<1> QED
  BY <1>1, <1>2 DEF Server

LEMMA InitIsInductive == Init => Inductive
<1> SUFFICES ASSUME Init PROVE Inductive
  OBVIOUS
<1>1. TypeOK
  <2>1. 0 \in 0 .. MaxFaults
    BY CanaryAssumption
  <2>2. guard \in Guards /\ active \in BOOLEAN /\ late = {} /\ faults = 0
    BY NoGuardFits DEF Init, GuardInit
  <2>3. run \in [Runs -> Records]
    BY FreshFits DEF Init, RunInit
  <2> QED
    BY <2>1, <2>2, <2>3 DEF TypeOK
<1>2. DatabaseOK
  BY DEF Init, GuardInit, DatabaseOK, GuardShape, ActiveIsGuarded, DryRunStaysDry, NoGuard
<1>3. \A p \in Runs : RunOK(p)
  BY CanaryAssumption DEF Init, GuardInit, RunInit, Fresh, NoGuard, RunOK, OnItsWay, OwnGuard, Runs
<1> QED
  BY <1>1, <1>2, <1>3 DEF Inductive, Init, GuardInit

LEMMA StutterKeeps ==
    ASSUME Inductive, UNCHANGED vars
    PROVE  Inductive'
BY DEF vars, Inductive, TypeOK, DatabaseOK, GuardShape, ActiveIsGuarded, DryRunStaysDry,
   LateOK, Candidates, RunOK, OnItsWay, OwnGuard, OffAfterRollback, GoneOrInactive, OfCandidate

\* One case for each action of each operator.
LEMMA OperatorKeeps ==
    ASSUME Inductive, NEW p \in Runs, Operator(p)
    PROVE  Keeps(p)
<1>1. CASE p \in RecoveryRuns /\ RecoveryStep(p)
  BY <1>1, PreflightKeeps, RecoveryBootstrapKeeps, RecoveryActivateKeeps,
     RecoveryObserveKeeps, StopKeeps, RecoveryRollbackKeeps, RecoverySettleKeeps,
     RecoveryDeadmanKeeps, RecoveryCleanupKeeps, FinalKeeps, PublishKeeps, ReleaseKeeps
     DEF RecoveryStep
<1>2. CASE p \in DryRuns /\ DryStep(p)
  BY <1>2, PreflightKeeps, DryBootstrapKeeps, DrySampleKeeps, StopKeeps, CompleteKeeps,
     DryRollbackKeeps, DryDeadmanKeeps, DryCleanupKeeps, FinalKeeps, PublishKeeps,
     ReleaseKeeps DEF DryStep
<1> QED
  BY <1>1, <1>2 DEF Operator

LEMMA NextKeeps ==
    ASSUME Inductive, [Next]_vars
    PROVE  Inductive'
<1>1. CASE \E p \in Runs : Operator(p)
  BY <1>1, OperatorKeeps, StepKeeps
<1>2. CASE \E p \in Runs : Misfortune(p)
  BY <1>2, MisfortuneKeeps, StepKeeps
<1>3. CASE Server /\ UNCHANGED run
  BY <1>3, ServerStepKeeps
<1>4. CASE UNCHANGED vars
  BY <1>4, StutterKeeps
<1> QED
  BY <1>1, <1>2, <1>3, <1>4 DEF Next

\* The invariant from which the others follow: what the database holds, what
\* each query given up may still do, and what each run may rely on.
THEOREM CanaryInductive == Spec => []Inductive
<1>1. Init => Inductive
  BY InitIsInductive
<1>2. Inductive /\ [Next]_vars => Inductive'
  BY NextKeeps
<1> QED
  BY <1>1, <1>2, PTL DEF Spec

\* Every variable keeps its type, for every number of runs and samples.
THEOREM CanaryTypes == Spec => []TypeOK
<1>1. Inductive => TypeOK
  BY DEF Inductive
<1> QED
  BY <1>1, CanaryInductive, PTL

\* No step of an operator, of pg_cron or of a late query leaves the targets on
\* without an armed and scheduled guard.
THEOREM TargetsAreGuarded == Spec => []ActiveIsGuarded
<1>1. Inductive => ActiveIsGuarded
  BY DEF Inductive, DatabaseOK
<1> QED
  BY <1>1, CanaryInductive, PTL

\* After the answer to its rollback a run's guard and the targets stay off.
THEOREM RollbackIsFinal == Spec => []RolledBackStaysOff
<1>1. Inductive => RolledBackStaysOff
  BY DEF Inductive, DatabaseOK, ActiveIsGuarded, RolledBackStaysOff, RunOK, OwnGuard,
     OffAfterRollback
<1> QED
  BY <1>1, CanaryInductive, PTL

\* Exit 0 and exit 30 are true of the database, and stay true.
THEOREM ReportsAreTrue == Spec => []ReportIsTrue
<1>1. Inductive => ReportIsTrue
  BY DEF Inductive, DatabaseOK, ActiveIsGuarded, ReportIsTrue, RunOK, OwnGuard,
     GoneOrInactive, Reported
<1> QED
  BY <1>1, CanaryInductive, PTL

\* A recovery run that rolls back knows the generation of its armed guard.
THEOREM GenerationIsKnown == Spec => []GenerationKnown
<1>1. Inductive => GenerationKnown
  BY DEF Inductive, GenerationKnown, RunOK, OwnGuard, OfCandidate, Runs
<1> QED
  BY <1>1, CanaryInductive, PTL

\* No target is on under the guard of a dry run.
THEOREM DryRunsStayDry == Spec => []DryRunStaysDry
<1>1. Inductive => DryRunStaysDry
  BY DEF Inductive, DatabaseOK
<1> QED
  BY <1>1, CanaryInductive, PTL
-----------------------------------------------------------------------------
(* The canary promise.                                                      *)

StoppedPlaces == {"cleanup", "final", "publish", "release"}

GuardStep == Promise!Guard \/ UNCHANGED <<active, guard.run, guard.active>>

\* The phase of a run in terms of its record.
LEMMA PhaseFacts ==
    ASSUME NEW p \in Runs
    PROVE  /\ Phase(p) = "reported" <=> run[p].exit \in Reported
           /\ Phase(p) = "stopped" <=>
                run[p].exit \notin Reported /\ run[p].at \in StoppedPlaces
           /\ Phase(p) \in {"working", "given_up"} <=>
                run[p].exit \notin Reported /\ run[p].at \notin StoppedPlaces
BY DEF Phase, Reported, StoppedPlaces

LEMMA UnfinishedFacts ==
    ASSUME NEW p \in Runs
    PROVE  Promise!Unfinished(p) <=>
             run[p].exit \notin Reported /\ run[p].at \notin StoppedPlaces
BY PhaseFacts DEF Promise!Unfinished

\* A scheduled guard is the guard of a run that has not stopped.
LEMMA LiveIsUnfinished ==
    ASSUME Inductive, NEW p \in Runs, guard.run = p, guard.active
    PROVE  Promise!Unfinished(p)
BY UnfinishedFacts
   DEF Inductive, RunOK, OwnGuard, OffAfterRollback, GoneOrInactive, StoppedPlaces

\* The transactions are steps of the promise.
LEMMA CommitImplements ==
    ASSUME Inductive, NEW t \in Queries, Commit(t),
           t.op = "activate" => t.run \in RecoveryRuns,
           t.op = "bootstrap" => Promise!Unfinished(t.run)
    PROVE  GuardStep
<1> USE DEF GuardStep, Promise!Guard
<1>1. t.run \in Runs /\ t.run \in RecoveryRuns \cup DryRuns
  BY DEF Queries, Runs
<1>2. guard \in Guards /\ GuardShape
  BY DEF Inductive, TypeOK, DatabaseOK
<1>3. CASE Bootstrap(t)
  <2>1. Promise!Arm(t.run)
    BY <1>1, <1>2, <1>3
       DEF Bootstrap, BootstrapAllowed, NoGuard, GuardShape, Promise!Arm
  <2> QED
    BY <1>1, <2>1
<1>4. CASE Heartbeat(t)
  BY <1>2, <1>4 DEF Heartbeat, Guards
<1>5. CASE Activate(t)
  <2>1. guard.run = t.run /\ guard.active /\ t.run \in RecoveryRuns
    BY <1>5 DEF Activate, ActivationAllowed, Marked
  <2>2. Promise!SwitchOn(t.run)
    BY <1>1, <1>5, <2>1, LiveIsUnfinished DEF Activate, Promise!SwitchOn
  <2> QED
    BY <1>1, <2>2
<1>6. CASE Rollback(t)
  <2>1. Promise!SwitchOff
    BY <1>2, <1>6 DEF Rollback, Guards, Promise!SwitchOff
  <2> QED
    BY <2>1
<1>7. CASE Cleanup(t)
  <2>1. Promise!Remove
    BY <1>2, <1>7 DEF Cleanup, CleanupAllowed, NoGuard, GuardShape, Guards, Promise!Remove
  <2> QED
    BY <2>1
<1> QED
  BY <1>3, <1>4, <1>5, <1>6, <1>7 DEF Commit

LEMMA QueryImplements ==
    ASSUME Inductive, NEW t \in Queries, NEW reachable \in BOOLEAN,
           Answered(t) \/ Failed(t, reachable),
           t.op = "activate" => t.run \in RecoveryRuns,
           t.op = "bootstrap" => Promise!Unfinished(t.run)
    PROVE  GuardStep
BY CommitImplements DEF Answered, Failed, GuardStep, database

\* The clock, pg_cron and the queries given up.
LEMMA ServerImplements ==
    ASSUME Inductive, Server
    PROVE  GuardStep
<1>1. guard \in Guards
  BY DEF Inductive, TypeOK
<1>2. CASE LeaseExpires \/ LaunchDeadman \/ TargetRuns
  BY <1>1, <1>2 DEF LeaseExpires, LaunchDeadman, TargetRuns, GuardStep, Guards
<1>3. CASE DeadmanRuns
  <2>1. CASE guard.due
    BY <1>1, <1>3, <2>1 DEF DeadmanRuns, GuardStep, Promise!Guard, Promise!SwitchOff, Guards
  <2>2. CASE ~guard.due
    BY <1>1, <1>3, <2>2 DEF DeadmanRuns, GuardStep, Guards
  <2> QED
    BY <2>1, <2>2
<1>4. ASSUME NEW t \in late, LateEnds(t)
      PROVE  GuardStep
  <2>1. t \in Queries /\ LateOK(t) /\ t.run \in Runs
    BY DEF Inductive, TypeOK, Queries
  <2>2. CASE UNCHANGED database
    BY <2>2 DEF database, GuardStep
  <2>3. CASE Commit(t)
    <3>1. t.op = "bootstrap" => Promise!Unfinished(t.run)
      BY <2>1, UnfinishedFacts
         DEF LateOK, Inductive, RunOK, OnItsWay, Reported, StoppedPlaces
    <3> QED
      BY <2>1, <2>3, <3>1, CommitImplements DEF LateOK
  <2> QED
    BY <1>4, <2>2, <2>3 DEF LateEnds
<1> QED
  BY <1>2, <1>3, <1>4 DEF Server, ServerEnds

\* How the phase of a run may change.
Turns(p) ==
    \/ Phase(p)' = Phase(p)
    \/ Phase(p) = "working" /\ Phase(p)' \in {"stopped", "given_up"}
    \/ Phase(p) = "stopped" /\ Phase(p)' \in {"reported", "given_up"}

\* A run that goes on does not come back to work once it has stopped.
LEMMA GoingTurns ==
    ASSUME Inductive, NEW p \in Runs,
           run[p].at \notin {"ended", "crashed"}, run'[p].at \notin {"ended", "crashed"},
           run'[p].exit = run[p].exit,
           run[p].at \in StoppedPlaces => run'[p].at \in StoppedPlaces
    PROVE  Turns(p)
<1>1. run[p].exit \notin Reported
  BY DEF Inductive, RunOK, OnItsWay, Reported
<1> QED
  BY <1>1 DEF Turns, Phase, Reported, StoppedPlaces

LEMMA PlaceTurns ==
    ASSUME Inductive, NEW p \in Runs, NEW place \in Places \ {"ended", "crashed"},
           Goes(p, place) \/ Stops(p, place),
           run[p].at \notin {"ended", "crashed"},
           run[p].at \in StoppedPlaces => place \in StoppedPlaces
    PROVE  Turns(p)
<1>1. run'[p].at = place /\ run'[p].exit = run[p].exit
  BY GoesUpdates, StopsUpdates DEF Inductive
<1> QED
  BY <1>1, GoingTurns

\* Only a released run reports.
LEMMA EndTurns ==
    ASSUME Inductive, NEW p \in Runs, NEW outcome \in Outcomes, Ends(p, outcome),
           run[p].at \notin {"ended", "crashed"},
           outcome \in Reported => run[p].at = "release"
    PROVE  Turns(p)
<1>1. run'[p].at = "ended" /\ run'[p].exit = outcome
  BY EndsUpdates DEF Inductive
<1>2. run[p].exit \notin Reported
  BY DEF Inductive, RunOK, OnItsWay, Reported
<1> QED
  BY <1>1, <1>2 DEF Turns, Phase, Reported

\* An operator takes a step: its record alone changes.
LEMMA OthersStay ==
    ASSUME Inductive, NEW p \in Runs, Operator(p) \/ Misfortune(p)
    PROVE  \A q \in Runs \ {p} : Phase(q)' = Phase(q)
BY OperatorKeeps, MisfortuneKeeps DEF Keeps, Step, Phase

LEMMA MisfortuneTurns ==
    ASSUME Inductive, NEW p \in Runs, Misfortune(p)
    PROVE  Turns(p)
<1>1. run[p] \in Records /\ run \in [Runs -> Records] /\ run[p].at \notin {"ended", "crashed"}
  BY DEF Inductive, TypeOK, Misfortune, LosesLock, LosesProvider, PoisonsReceipt, Loses,
         Crashes, Running
<1>2. CASE Crashes(p)
  <2>1. run'[p].at = "crashed" /\ run'[p].exit = "none" /\ run[p].exit \notin Reported
    BY <1>1, <1>2 DEF Crashes, Fresh, Inductive, RunOK, OnItsWay, Reported
  <2> QED
    BY <1>1, <2>1 DEF Turns, Phase, Reported
<1>3. ASSUME NEW what \in {"lock", "provider", "receipt"}, Loses(p, what)
      PROVE  Turns(p)
  <2>1. run'[p].at = run[p].at /\ run'[p].exit = run[p].exit
    BY <1>1, <1>3 DEF Loses, Records
  <2> QED
    BY <1>1, <2>1, GoingTurns
<1> QED
  BY <1>2, <1>3 DEF Misfortune, LosesLock, LosesProvider, PoisonsReceipt

\* The steps that both kinds of run take, none of which is a query.
LEMMA QuietTurns ==
    ASSUME Inductive, NEW p \in Runs,
           \/ Preflight(p) \/ RecoveryStop(p) \/ DryStop(p) \/ DryComplete(p)
           \/ RecoveryFinal(p) \/ DryFinal(p) \/ Publish(p) \/ DryPublish(p)
           \/ RecoveryRelease(p) \/ DryRelease(p) \/ RecoveryDeadman(p) \/ DryDeadman(p)
    PROVE  Turns(p) /\ GuardStep
<1> USE DEF Places, StoppedPlaces, Outcomes, Reported
<1>1. run[p] \in Records /\ run \in [Runs -> Records]
  BY DEF Inductive, TypeOK
<1>2. GuardStep
  BY DEF Preflight, RecoveryStop, DryStop, DryComplete, RecoveryFinal, DryFinal, Publish,
         DryPublish, RecoveryRelease, DryRelease, RecoveryDeadman, DryDeadman, GuardStep
<1> SUFFICES Turns(p)
  BY <1>2
<1>3. CASE Preflight(p)
  BY <1>3, PlaceTurns, EndTurns DEF Preflight
<1>4. CASE RecoveryStop(p) \/ DryStop(p)
  BY <1>4, PlaceTurns DEF RecoveryStop, DryStop
<1>5. CASE DryComplete(p)
  <2>1. run'[p].at = "deadman" /\ run'[p].exit = run[p].exit /\ run[p].at = "observe"
    BY <1>1, <1>5 DEF DryComplete, Records
  <2> QED
    BY <2>1, GoingTurns
<1>6. CASE RecoveryFinal(p) \/ DryFinal(p)
  BY <1>6, PlaceTurns, EndTurns DEF RecoveryFinal, DryFinal
<1>7. CASE Publish(p) \/ DryPublish(p)
  BY <1>7, PlaceTurns, EndTurns DEF Publish, DryPublish
<1>8. CASE RecoveryRelease(p) \/ DryRelease(p)
  BY <1>8, EndTurns DEF RecoveryRelease, DryRelease
<1>9. CASE RecoveryDeadman(p) \/ DryDeadman(p)
  <2>1. run[p].at = "deadman"
    BY <1>9 DEF RecoveryDeadman, DryDeadman
  <2>2. CASE Ends(p, "manual") \/ Goes(p, "final")
    BY <2>1, <2>2, PlaceTurns, EndTurns
  <2>3. CASE ~Ends(p, "manual") /\ ~Goes(p, "final")
    <3>1. run'[p].at = "cleanup" /\ run'[p].exit = run[p].exit
      BY <1>1, <1>9, <2>3 DEF RecoveryDeadman, DryDeadman, Records
    <3> QED
      BY <2>1, <3>1, GoingTurns
  <2> QED
    BY <2>2, <2>3
<1> QED
  BY <1>3, <1>4, <1>5, <1>6, <1>7, <1>8, <1>9

\* The queries of a recovery run.
LEMMA RecoveryQueryImplements ==
    ASSUME Inductive, NEW p \in RecoveryRuns,
           \/ RecoveryBootstrap(p) \/ RecoveryActivate(p) \/ RecoveryObserve(p)
           \/ RecoveryRollback(p) \/ RecoverySettle(p) \/ RecoveryCleanup(p)
    PROVE  Turns(p) /\ GuardStep
<1>1. p \in Runs
  BY DEF Runs
<1>2. /\ run[p] \in Records /\ run \in [Runs -> Records] /\ TypeOK /\ RunOK(p)
      /\ Candidates(p) \in SUBSET Generations /\ run[p].gen \in Generations
      /\ 0 \in Generations /\ Signalled(p) \in BOOLEAN /\ CleanupReachable(p) \in BOOLEAN
  BY <1>1, RunFacts DEF TypeOK
<1> USE DEF Places, StoppedPlaces, Outcomes, Reported
<1>3. CASE RecoveryBootstrap(p)
  <2> DEFINE t == Query("bootstrap", p, {}, 0, FALSE)
  <2>1. t \in Queries /\ t.op = "bootstrap" /\ t.run = p
    BY <1>1, <1>2 DEF Query, Queries
  <2>2. run[p].at = "bootstrap" /\ Promise!Unfinished(p)
    BY <1>1, <1>2, <1>3, UnfinishedFacts DEF RecoveryBootstrap, RunOK, OnItsWay
  <2>3. Answered(t) \/ Failed(t, Signalled(p))
    BY <1>3 DEF RecoveryBootstrap
  <2>4. GuardStep
    BY <1>2, <2>1, <2>2, <2>3, QueryImplements
  <2>5. Turns(p)
    BY <1>1, <1>3, <2>2, PlaceTurns, EndTurns DEF RecoveryBootstrap
  <2> QED
    BY <2>4, <2>5
<1>4. CASE RecoveryActivate(p)
  <2> DEFINE t == Query("activate", p, {run[p].gen}, 0, FALSE)
  <2>1. t \in Queries /\ t.op = "activate" /\ t.run = p
    BY <1>1, <1>2 DEF Query, Queries
  <2>2. GuardStep
    BY <1>2, <1>4, <2>1, QueryImplements DEF RecoveryActivate
  <2>3. run[p].at = "activate"
    BY <1>4 DEF RecoveryActivate
  <2>4. CASE Stops(p, "rollback")
    BY <1>1, <2>2, <2>3, <2>4, PlaceTurns
  <2>5. CASE ~Stops(p, "rollback")
    <3> DEFINE r == [run[p] EXCEPT !.live = TRUE,
                       !.at = IF Holds(p, "receipt") THEN "observe" ELSE "rollback",
                       !.mode = IF Holds(p, "receipt") THEN @ ELSE "failed"]
    <3>1. run' = [run EXCEPT ![p] = r]
      BY <1>1, <1>2, <1>4, <2>5 DEF RecoveryActivate
    <3>2. r.at \in {"observe", "rollback"} /\ r.exit = run[p].exit
      BY <1>2 DEF Records
    <3> HIDE DEF r
    <3>3. run'[p].at \in {"observe", "rollback"} /\ run'[p].exit = run[p].exit
      BY <1>1, <1>2, <3>1, <3>2
    <3> QED
      BY <1>1, <2>2, <2>3, <3>3, GoingTurns
  <2> QED
    BY <2>4, <2>5
<1>5. CASE RecoveryObserve(p)
  <2> DEFINE next == run[p].gen + 1
             t == Query("heartbeat", p, {run[p].gen}, next, TRUE)
  <2>1. run[p].at = "observe" /\ run[p].gen < MaxSamples
    BY <1>5 DEF RecoveryObserve
  <2>2. next \in Generations
    <3>1. run[p].gen \in 0 .. MaxSamples
      BY <1>2 DEF Generations
    <3> QED
      BY <2>1, <3>1, CanaryAssumption DEF Generations
  <2>3. t \in Queries /\ t.op = "heartbeat"
    BY <1>1, <1>2, <2>2 DEF Query, Queries
  <2>4. Answered(t) \/ Failed(t, Signalled(p))
    BY <1>5 DEF RecoveryObserve
  <2>5. GuardStep
    BY <1>2, <2>3, <2>4, QueryImplements
  <2>6. CASE run' = [run EXCEPT ![p].tried = {next}, ![p].at = "rollback",
                                ![p].mode = "failed"]
    <3> HIDE DEF next
    <3>1. run'[p].at = "rollback" /\ run'[p].exit = run[p].exit
      BY <1>1, <1>2, <2>6 DEF Records
    <3> QED
      BY <1>1, <2>1, <2>5, <3>1, GoingTurns
  <2>7. CASE \E evaluation \in Observations :
               LET zeros == IF evaluation.zeroWork THEN run[p].zeros + 1 ELSE 0
                   stop == evaluation.stop \/ ~Holds(p, "receipt")
               IN run' = [run EXCEPT ![p].gen = next, ![p].zeros = zeros,
                    ![p].at = IF stop \/ zeros = 2 THEN "rollback" ELSE "observe",
                    ![p].mode = IF stop THEN "failed"
                                ELSE IF zeros = 2 THEN "passed" ELSE @]
    <3> HIDE DEF next
    <3>1. PICK evaluation \in Observations :
            run' = [run EXCEPT ![p].gen = next,
              ![p].zeros = IF evaluation.zeroWork THEN run[p].zeros + 1 ELSE 0,
              ![p].at = IF \/ evaluation.stop \/ ~Holds(p, "receipt")
                           \/ (IF evaluation.zeroWork THEN run[p].zeros + 1 ELSE 0) = 2
                        THEN "rollback" ELSE "observe",
              ![p].mode = IF evaluation.stop \/ ~Holds(p, "receipt") THEN "failed"
                          ELSE IF (IF evaluation.zeroWork THEN run[p].zeros + 1 ELSE 0) = 2
                               THEN "passed" ELSE @]
      BY <2>7
    <3> DEFINE zeros == IF evaluation.zeroWork THEN run[p].zeros + 1 ELSE 0
               stop == evaluation.stop \/ ~Holds(p, "receipt")
               place == IF stop \/ zeros = 2 THEN "rollback" ELSE "observe"
               mode == IF stop THEN "failed" ELSE IF zeros = 2 THEN "passed" ELSE run[p].mode
               r == [run[p] EXCEPT !.gen = next, !.zeros = zeros, !.at = place, !.mode = mode]
    <3>2. place \in {"rollback", "observe"}
      OBVIOUS
    <3>3. run' = [run EXCEPT ![p] = r]
      BY <1>1, <1>2, <3>1
    <3> HIDE DEF zeros, stop, place, mode
    <3>4. r.at = place /\ r.exit = run[p].exit
      BY <1>2 DEF Records
    <3> HIDE DEF r
    <3>5. run'[p].at \in {"observe", "rollback"} /\ run'[p].exit = run[p].exit
      BY <1>1, <1>2, <3>2, <3>3, <3>4
    <3> QED
      BY <1>1, <2>1, <2>5, <3>5, GoingTurns
  <2> QED
    BY <1>5, <2>6, <2>7 DEF RecoveryObserve
<1>6. CASE RecoveryRollback(p)
  <2> DEFINE t == Query("rollback", p, Candidates(p), 0, FALSE)
  <2>1. t \in Queries /\ t.op = "rollback"
    BY <1>1, <1>2 DEF Query, Queries
  <2>2. GuardStep
    BY <1>2, <1>6, <2>1, QueryImplements DEF RecoveryRollback
  <2>3. Turns(p)
    BY <1>1, <1>6, PlaceTurns DEF RecoveryRollback
  <2> QED
    BY <2>2, <2>3
<1>7. CASE RecoverySettle(p) \/ RecoveryCleanup(p)
  <2>1. CleanupQuery(p) \in Queries /\ CleanupQuery(p).op = "cleanup"
    BY <1>1, <1>2 DEF CleanupQuery, Query, Queries
  <2>2. GuardStep
    BY <1>2, <1>7, <2>1, QueryImplements DEF RecoverySettle, RecoveryCleanup
  <2>3. Turns(p)
    BY <1>1, <1>7, PlaceTurns, EndTurns DEF RecoverySettle, RecoveryCleanup
  <2> QED
    BY <2>2, <2>3
<1> QED
  BY <1>3, <1>4, <1>5, <1>6, <1>7

\* The queries of a dry run.
LEMMA DryQueryImplements ==
    ASSUME Inductive, NEW p \in DryRuns,
           DryBootstrap(p) \/ DrySample(p) \/ DryRollback(p) \/ DryCleanup(p)
    PROVE  Turns(p) /\ GuardStep
<1>1. p \in Runs
  BY DEF Runs
<1>2. /\ run[p] \in Records /\ run \in [Runs -> Records] /\ TypeOK /\ RunOK(p)
      /\ run[p].gen \in Generations /\ 0 \in Generations
      /\ Signalled(p) \in BOOLEAN /\ Holds(p, "provider") \in BOOLEAN
  BY <1>1, RunFacts DEF TypeOK
<1> USE DEF Places, StoppedPlaces, Outcomes, Reported
<1>3. CASE DryBootstrap(p)
  <2> DEFINE t == Query("bootstrap", p, {}, 0, FALSE)
  <2>1. t \in Queries /\ t.op = "bootstrap" /\ t.run = p
    BY <1>1, <1>2 DEF Query, Queries
  <2>2. run[p].at = "bootstrap" /\ Promise!Unfinished(p)
    BY <1>1, <1>2, <1>3, UnfinishedFacts DEF DryBootstrap, RunOK, OnItsWay
  <2>3. \/ Answered(t) \/ Failed(t, Signalled(p))
        \/ UNCHANGED <<active, guard, late, faults>>
    BY <1>3 DEF DryBootstrap
  <2>4. GuardStep
    BY <1>2, <2>1, <2>2, <2>3, QueryImplements DEF GuardStep
  <2>5. CASE Ends(p, "pre_guard") \/ Goes(p, "observe") \/ Stops(p, "rollback")
    BY <1>1, <2>2, <2>4, <2>5, PlaceTurns, EndTurns
  <2>6. CASE run' = [run EXCEPT ![p].at = "deadman", ![p].mode = "ambiguous"]
    <3>1. run'[p].at = "deadman" /\ run'[p].exit = run[p].exit
      BY <1>1, <1>2, <2>6 DEF Records
    <3> QED
      BY <1>1, <2>2, <2>4, <3>1, GoingTurns
  <2> QED
    BY <1>3, <2>5, <2>6 DEF DryBootstrap
<1>4. CASE DrySample(p)
  <2> DEFINE next == run[p].gen + 1
             t == Query("heartbeat", p, {run[p].gen}, next, FALSE)
  <2>1. next \in Generations
    BY <1>2, <1>4, CanaryAssumption DEF DrySample, Generations
  <2>2. t \in Queries /\ t.op = "heartbeat"
    BY <1>1, <1>2, <2>1 DEF Query, Queries
  <2>3. GuardStep
    BY <1>2, <1>4, <2>2, QueryImplements DEF DrySample
  <2>4. run[p].at = "observe"
    BY <1>4 DEF DrySample
  <2>5. CASE Stops(p, "rollback")
    BY <1>1, <2>3, <2>4, <2>5, PlaceTurns
  <2>6. CASE ~Stops(p, "rollback")
    <3> DEFINE r == [run[p] EXCEPT !.gen = next,
                       !.at = IF Holds(p, "receipt") THEN @ ELSE "rollback",
                       !.mode = IF Holds(p, "receipt") THEN @ ELSE "failed"]
    <3>1. run' = [run EXCEPT ![p] = r]
      BY <1>1, <1>2, <1>4, <2>6 DEF DrySample
    <3>2. r.at \in {"observe", "rollback"} /\ r.exit = run[p].exit
      BY <1>2, <2>4 DEF Records
    <3> HIDE DEF r
    <3>3. run'[p].at \in {"observe", "rollback"} /\ run'[p].exit = run[p].exit
      BY <1>1, <1>2, <3>1, <3>2
    <3> QED
      BY <1>1, <2>3, <2>4, <3>3, GoingTurns
  <2> QED
    BY <2>5, <2>6
<1>5. CASE DryRollback(p)
  <2> DEFINE t == Query("rollback", p, {}, 0, FALSE)
  <2>1. t \in Queries /\ t.op = "rollback"
    BY <1>1, <1>2 DEF Query, Queries
  <2>2. GuardStep
    BY <1>2, <1>5, <2>1, QueryImplements DEF DryRollback
  <2>3. Turns(p)
    BY <1>1, <1>5, PlaceTurns DEF DryRollback
  <2> QED
    BY <2>2, <2>3
<1>6. CASE DryCleanup(p)
  <2> DEFINE t == Query("cleanup", p, {}, 0, FALSE)
  <2>1. t \in Queries /\ t.op = "cleanup"
    BY <1>1, <1>2 DEF Query, Queries
  <2>2. GuardStep
    BY <1>2, <1>6, <2>1, QueryImplements DEF DryCleanup
  <2>3. Turns(p)
    BY <1>1, <1>6, PlaceTurns, EndTurns DEF DryCleanup
  <2> QED
    BY <2>2, <2>3
<1> QED
  BY <1>3, <1>4, <1>5, <1>6

LEMMA RunImplements ==
    ASSUME Inductive, NEW p \in Runs, Operator(p) \/ Misfortune(p)
    PROVE  Turns(p) /\ GuardStep
<1>1. CASE Misfortune(p)
  BY <1>1, MisfortuneTurns
     DEF Misfortune, LosesLock, LosesProvider, PoisonsReceipt, Loses, Crashes, GuardStep
<1>2. CASE p \in RecoveryRuns /\ RecoveryStep(p)
  BY <1>2, RecoveryQueryImplements, QuietTurns DEF RecoveryStep
<1>3. CASE p \in DryRuns /\ DryStep(p)
  BY <1>3, DryQueryImplements, QuietTurns DEF DryStep
<1> QED
  BY <1>1, <1>2, <1>3 DEF Operator

\* What a run has come to know is true of the guard the step leaves.
LEMMA KnowledgeImplements ==
    ASSUME Inductive', NEW p \in Runs, Turns(p),
           \A q \in Runs \ {p} : Phase(q)' = Phase(q)
    PROVE  Promise!Knowledge \/ UNCHANGED [q \in Runs |-> Phase(q)]
<1> DEFINE phase == [q \in Runs |-> Phase(q)]
<1>1. p \in RecoveryRuns \cup DryRuns /\ phase[p] = Phase(p)
  BY DEF Runs
<1>2. phase' = [phase EXCEPT ![p] = Phase(p)']
  OBVIOUS
<1>3. CASE Phase(p)' = Phase(p)
  BY <1>3
<1>4. CASE Phase(p) = "working" /\ Phase(p)' = "stopped"
  <2>1. guard'.run = p => ~guard'.active
    BY <1>4, PhaseFacts, LiveIsUnfinished
       DEF Inductive, RunOK, OwnGuard, OffAfterRollback, Phase
  <2>2. Promise!Stop(p)
    BY <1>1, <1>2, <1>4, <2>1 DEF Promise!Stop
  <2> QED
    BY <1>1, <2>2 DEF Promise!Knowledge
<1>5. CASE Phase(p) = "stopped" /\ Phase(p)' = "reported"
  <2>1. guard'.run = p => p \in DryRuns
    BY <1>5 DEF Inductive, RunOK, OwnGuard, GoneOrInactive, Phase, Reported
  <2>2. Promise!Report(p)
    BY <1>1, <1>2, <1>5, <2>1 DEF Promise!Report
  <2> QED
    BY <1>1, <2>2 DEF Promise!Knowledge
<1>6. CASE Phase(p) \in {"working", "stopped"} /\ Phase(p)' = "given_up"
  <2>1. Promise!GiveUp(p)
    BY <1>1, <1>2, <1>6 DEF Promise!GiveUp
  <2> QED
    BY <1>1, <2>1 DEF Promise!Knowledge
<1> QED
  BY <1>3, <1>4, <1>5, <1>6 DEF Turns

LEMMA InitImplements == Init => Promise!Init
BY DEF Init, GuardInit, RunInit, NoGuard, Fresh, Phase, Runs, Promise!Init

LEMMA StepImplements ==
    ASSUME Inductive, Inductive', [Next]_vars
    PROVE  Promise!Next \/ UNCHANGED Promise!cvars
<1>1. CASE \E p \in Runs : Operator(p) \/ Misfortune(p)
  BY <1>1, RunImplements, OthersStay, KnowledgeImplements DEF GuardStep, Promise!Next
<1>2. CASE Server /\ UNCHANGED run
  <2>1. UNCHANGED [p \in Runs |-> Phase(p)]
    BY <1>2 DEF Phase
  <2> QED
    BY <1>2, <2>1, ServerImplements DEF GuardStep, Promise!Next
<1>3. CASE UNCHANGED vars
  BY <1>3 DEF vars, Phase, Promise!cvars
<1> QED
  BY <1>1, <1>2, <1>3 DEF Next

\* The canary implements its promise: leases, generations, lost answers, late
\* queries and crashes never show in when the targets are on, or in what an
\* operator knows and reports of its guard.
THEOREM OperatorsKeepThePromise == Spec => CanaryPromiseKept
<1>1. Init => Promise!Init
  BY InitImplements
<1>2. Inductive /\ Inductive' /\ [Next]_vars => [Promise!Next]_(Promise!cvars)
  BY StepImplements
<1> QED
  BY <1>1, <1>2, CanaryInductive, PTL DEF Spec, CanaryPromiseKept, Promise!Spec

\* One step of the promise keeps what it says of the guard.
LEMMA PromiseStepKeeps ==
    ASSUME Promise!OnlyUnderGuard, Promise!Next
    PROVE  /\ Promise!OnlyUnderGuard'
           /\ \A p \in RecoveryRuns \cup DryRuns : Phase(p) = "reported" =>
                /\ Phase(p)' = "reported"
                /\ guard'.run = p => guard.run = p /\ ~guard'.active /\ ~active'
<1> DEFINE phase == [q \in Runs |-> Phase(q)]
<1>1. \/ UNCHANGED <<active, guard.run, guard.active>>
      \/ ~active' /\ ~guard'.active /\ UNCHANGED guard.run
      \/ ~active /\ ~guard.active /\ guard'.run = NoRun /\ UNCHANGED <<active, guard.active>>
      \/ /\ ~active /\ UNCHANGED active
         /\ guard'.run \in Runs /\ guard.run = NoRun
         /\ Phase(guard'.run) \in {"working", "given_up"}
      \/ /\ guard.run \in RecoveryRuns /\ guard.active /\ active'
         /\ Phase(guard.run) \in {"working", "given_up"} /\ UNCHANGED <<guard.run, guard.active>>
  <2>1. ASSUME NEW q \in RecoveryRuns \cup DryRuns, Promise!Arm(q)
        PROVE  /\ ~active /\ UNCHANGED active
               /\ guard'.run \in Runs /\ guard.run = NoRun
               /\ Phase(guard'.run) \in {"working", "given_up"}
    BY <2>1 DEF Promise!Arm, Promise!Unfinished, Runs
  <2>2. ASSUME NEW q \in RecoveryRuns \cup DryRuns, Promise!SwitchOn(q)
        PROVE  /\ guard.run \in RecoveryRuns /\ guard.active /\ active'
               /\ Phase(guard.run) \in {"working", "given_up"}
               /\ UNCHANGED <<guard.run, guard.active>>
    BY <2>2 DEF Promise!SwitchOn, Promise!Unfinished, Runs
  <2> QED
    BY <2>1, <2>2 DEF Promise!Next, Promise!Guard, Promise!SwitchOff, Promise!Remove
<1>2. active' => guard'.active /\ guard'.run \in RecoveryRuns
  BY <1>1 DEF Promise!OnlyUnderGuard
<1>3. ASSUME NEW p \in RecoveryRuns \cup DryRuns
      PROVE  /\ Phase(p)' \in {"stopped", "reported"} /\ guard'.run = p => ~guard'.active
             /\ Phase(p)' = "reported" /\ guard'.run = p => p \in DryRuns
             /\ Phase(p) = "reported" =>
                  /\ Phase(p)' = "reported"
                  /\ guard'.run = p => guard.run = p /\ ~guard'.active /\ ~active'
  <2>1. /\ p \in Runs /\ NoRun \notin Runs /\ phase[p] = Phase(p) /\ phase'[p] = Phase(p)'
    BY CanaryAssumption DEF Runs
  <2>2. /\ active => guard.active /\ guard.run \in RecoveryRuns
        /\ Phase(p) \in {"stopped", "reported"} /\ guard.run = p => ~guard.active
        /\ Phase(p) = "reported" /\ guard.run = p => p \in DryRuns
    BY <2>1 DEF Promise!OnlyUnderGuard
  <2>3. \/ Phase(p)' = Phase(p)
        \/ Phase(p) = "working" /\ Phase(p)' = "stopped" /\ (guard'.run = p => ~guard'.active)
        \/ Phase(p) = "stopped" /\ Phase(p)' = "reported" /\ (guard'.run = p => p \in DryRuns)
        \/ Phase(p) \in {"working", "stopped"} /\ Phase(p)' = "given_up"
    BY <2>1 DEF Promise!Next, Promise!Knowledge, Promise!Stop, Promise!Report, Promise!GiveUp
  <2> QED
    BY <1>1, <1>2, <2>1, <2>2, <2>3
<1>4. \A p \in RecoveryRuns \cup DryRuns : phase'[p] = Phase(p)'
  BY DEF Runs
<1> QED
  BY <1>2, <1>3, <1>4 DEF Promise!OnlyUnderGuard

\* What the promise is worth: whoever keeps it has the targets on only under a
\* scheduled guard of a recovery run that has not stopped.
THEOREM PromiseIsSafe == CanaryPromiseKept => []Promise!OnlyUnderGuard
<1>1. Promise!Init => Promise!OnlyUnderGuard
  BY CanaryAssumption DEF Promise!Init, Promise!OnlyUnderGuard
<1>2. Promise!OnlyUnderGuard /\ UNCHANGED Promise!cvars => Promise!OnlyUnderGuard'
  BY DEF Promise!OnlyUnderGuard, Promise!cvars
<1>3. Promise!OnlyUnderGuard /\ [Promise!Next]_(Promise!cvars) => Promise!OnlyUnderGuard'
  BY <1>2, PromiseStepKeeps
<1> QED
  BY <1>1, <1>3, PTL DEF CanaryPromiseKept, Promise!Spec

\* What a run has reported of its guard stays true, in every later step.
THEOREM ReportsStand == CanaryPromiseKept => Promise!ReportsAreFinal
<1>1. Promise!OnlyUnderGuard /\ [Promise!Next]_(Promise!cvars)
      => [Promise!ReportStands]_(Promise!cvars)
  BY PromiseStepKeeps DEF Promise!ReportStands, Runs
<1> QED
  BY <1>1, PromiseIsSafe, PTL DEF CanaryPromiseKept, Promise!Spec, Promise!ReportsAreFinal
=============================================================================

------------------------ MODULE BackgroundWorkCanary ------------------------
(* Recovery canaries and dry runs on one database.  Each run holds the flock *)
(* of its own host, so that runs overlap: the named guard alone keeps them   *)
(* apart.                                                                   *)
EXTENDS RecoveryCanary, DryRunCanary

Operator(p) ==
    \/ p \in RecoveryRuns /\ RecoveryStep(p)
    \/ p \in DryRuns /\ DryStep(p)

Misfortune(p) ==
    LosesLock(p) \/ LosesProvider(p) \/ PoisonsReceipt(p) \/ Crashes(p)

ServerEnds == \E t \in late : LateEnds(t)

Server ==
    \/ LeaseExpires
    \/ LaunchDeadman
    \/ DeadmanRuns
    \/ TargetRuns
    \/ ServerEnds

Init == GuardInit /\ RunInit

Next ==
    \/ \E p \in Runs : Operator(p)
    \/ \E p \in Runs : Misfortune(p)
    \/ Server /\ UNCHANGED run

Spec == Init /\ [][Next]_vars

\* The clock, pg_cron and the statement timeout go on; an operator goes on
\* until it crashes.
FairSpec ==
    /\ Spec
    /\ WF_vars(LeaseExpires /\ UNCHANGED run)
    /\ WF_vars(LaunchDeadman /\ UNCHANGED run)
    /\ WF_vars(DeadmanRuns /\ UNCHANGED run)
    /\ WF_vars(ServerEnds /\ UNCHANGED run)
    /\ \A p \in Runs : WF_vars(Operator(p))

-----------------------------------------------------------------------------
TypeOK ==
    /\ active \in BOOLEAN
    /\ guard \in Guards
    /\ late \subseteq Queries
    /\ faults \in 0 .. MaxFaults
    /\ run \in [Runs -> Records]

\* The targets are on only under a guard that is armed and scheduled: no
\* rollback, cleanup, dead-man or late query leaves them on without one.
ActiveIsGuarded == active => guard.kind = "armed" /\ guard.active

\* Once a rollback of a run was answered, nothing of that run, a late
\* activation or heartbeat included, makes its guard or the targets live again.
RolledBackStaysOff ==
    \A p \in Runs :
        /\ run[p].at \in {"cleanup", "final", "publish", "release"}
        /\ guard.run = p
        => ~guard.active /\ ~active

\* A run that reported 0 or 30 has left no live guard, and a recovery run no
\* guard at all; a query of it that commits later changes nothing of this.
ReportIsTrue ==
    \A p \in Runs : run[p].exit \in {"verified", "recovered"} /\ guard.run = p =>
        p \in DryRuns /\ run[p].mode = "failed" /\ ~guard.active /\ ~active

\* While a recovery run rolls back, its armed guard carries one of the
\* generations the run would accept, whatever became of its last heartbeat.
GenerationKnown ==
    \A p \in RecoveryRuns :
        /\ run[p].at \in {"rollback", "settle", "deadman", "cleanup"}
        /\ guard.kind = "armed" /\ guard.run = p
        => guard.gen \in Candidates(p)

\* A dry run never has the targets on under its guard.
DryRunStaysDry == active => guard.run \in RecoveryRuns

\* The targets are switched off again, even when every operator has died.
TargetsAreDrained == active ~> ~active

\* An operator that lives reaches an outcome.
RunsEnd == \A p \in Runs : (run[p].at = "preflight") ~> ~Running(p)

-----------------------------------------------------------------------------
\* README 107-113: a failure after guard commitment must enter rollback or
\* dead-man recovery, before it is a pre-guard failure.
PreGuardMeansNoGuard ==
    \A p \in RecoveryRuns : run[p].exit = "pre_guard" => guard.run # p

\* README 93: exit 30 when dead-man recovery made the database safe.  A
\* reconciled run is then refused by its cleanup only if that query fails.
ReconciledRunIsCleaned ==
    [][\A p \in RecoveryRuns :
         run[p].at = "cleanup" /\ run[p].proved /\ run'[p].exit = "manual"
           => faults' # faults \/ ~Holds(p, "provider")]_vars
-----------------------------------------------------------------------------
(* The promise: leases, generations, places and queries are forgotten.      *)

\* A run has stopped once its rollback was answered or its dead-man proved.
Phase(p) ==
    IF run[p].exit \in {"verified", "recovered"} THEN "reported"
    ELSE IF run[p].at \in {"cleanup", "final", "publish", "release"} THEN "stopped"
    ELSE IF run[p].at \in {"ended", "crashed"} THEN "given_up"
    ELSE "working"

Promise == INSTANCE CanaryPromise WITH
    on <- active,
    holder <- guard.run,
    live <- guard.active,
    phase <- [p \in Runs |-> Phase(p)]

\* Every step of an operator, of pg_cron, of the clock and of a late query is a
\* step of the promise, or none.
CanaryPromiseKept == Promise!Spec
=============================================================================

---------------------------- MODULE CanaryGuard ----------------------------
(* The database side of the background-work canary                         *)
(* (src/MoMi/local-tools/background-work-canary-control): the target jobs   *)
(* and the guard job of cron.job, pg_cron, the lease clock, and the queries *)
(* an operator has sent and given up on.                                   *)
(*                                                                         *)
(* Every mutation is one transaction under one advisory lock, so it is one  *)
(* step.  The targets are one value: the code switches three jobs together  *)
(* (the fourth stays off) and refuses any other state of the four.          *)
EXTENDS Naturals, FiniteSets

CONSTANTS
    RecoveryRuns,   \* runs of the attended recovery canary
    DryRuns,        \* runs of the inactive dry run
    NoRun,          \* a value that is no run
    MaxSamples,     \* heartbeats of a run (275 and 21 in the code)
    MaxFaults       \* bound on the failures of one behaviour

ASSUME CanaryAssumption ==
    /\ NoRun \notin RecoveryRuns \cup DryRuns
    /\ RecoveryRuns \cap DryRuns = {}
    /\ MaxSamples \in Nat
    /\ MaxFaults \in Nat

Runs == RecoveryRuns \cup DryRuns
Generations == 0 .. MaxSamples

VARIABLES
    active,   \* the targets are switched on
    guard,    \* the guard job: none, armed (a dead-man command), spent
    late,     \* queries given up by their operator that may still commit
    faults    \* failures so far

database == <<active, guard>>

NoGuard == [kind |-> "none", run |-> NoRun, gen |-> 0, active |-> FALSE,
            due |-> FALSE, launched |-> FALSE, ran |-> FALSE, hit |-> FALSE]

\* launched: pg_cron has started a run of the present command, captured as
\* text.  ran: a target has run since the guard was made.  hit: the dead-man
\* found the targets on (the mask in its terminal command).
Guards == [kind: {"none", "armed", "spent"}, run: Runs \cup {NoRun},
           gen: Generations, active: BOOLEAN, due: BOOLEAN,
           launched: BOOLEAN, ran: BOOLEAN, hit: BOOLEAN]

\* A transaction of a run: from is the set of generations the SQL accepts
\* (empty when it does not look), hot whether it expects the targets on.
Queries == [op: {"bootstrap", "heartbeat", "activate", "rollback", "cleanup"},
            run: Runs, from: SUBSET Generations, next: Generations, hot: BOOLEAN]

Query(o, r, from, next, hot) ==
    [op |-> o, run |-> r, from |-> from, next |-> next, hot |-> hot]

(***************************************************************************)
(* What the SQL of each transaction checks.                                *)
(***************************************************************************)
\* Faulty: any run with that generation will do.
MarkedByGeneration(t) == guard.kind = "armed" /\ guard.gen \in t.from

\* The command carries the marker of this run and of one accepted generation.
Marked(t) == guard.kind = "armed" /\ guard.run = t.run /\ guard.gen \in t.from

BootstrapAllowed(t) == guard.kind = "none" /\ ~active

HeartbeatAllowed(t) == Marked(t) /\ guard.active /\ ~guard.due /\ active = t.hot

\* Faulty: does not look at whether the guard is scheduled.
ActivationUnscheduled(t) == Marked(t) /\ ~guard.due /\ ~active

ActivationAllowed(t) == Marked(t) /\ guard.active /\ ~guard.due /\ ~active

\* The guard job id is new at each bootstrap and so stands for its run.
RollbackAllowed(t) ==
    \/ guard.kind = "none"
    \/ guard.run = t.run /\ (t.from = {} \/ Marked(t))

CleanupAllowed(t) ==
    /\ ~active
    /\ \/ guard.kind = "none"
       \/ guard.run = t.run /\ ~guard.active /\ (t.from = {} \/ Marked(t))

Allowed(t) ==
    \/ t.op = "bootstrap" /\ BootstrapAllowed(t)
    \/ t.op = "heartbeat" /\ HeartbeatAllowed(t)
    \/ t.op = "activate" /\ ActivationAllowed(t)
    \/ t.op = "rollback" /\ RollbackAllowed(t)
    \/ t.op = "cleanup" /\ CleanupAllowed(t)

(***************************************************************************)
(* What it writes.                                                         *)
(***************************************************************************)
Bootstrap(t) ==
    /\ t.op = "bootstrap" /\ BootstrapAllowed(t)
    /\ guard' = [NoGuard EXCEPT !.kind = "armed", !.run = t.run, !.active = TRUE]
    /\ UNCHANGED active

Heartbeat(t) ==
    /\ t.op = "heartbeat" /\ HeartbeatAllowed(t)
    /\ guard' = [guard EXCEPT !.gen = t.next, !.due = FALSE, !.launched = FALSE]
    /\ UNCHANGED active

Activate(t) ==
    /\ t.op = "activate" /\ ActivationAllowed(t)
    /\ active' = TRUE
    /\ UNCHANGED guard

\* Faulty: leaves the guard job scheduled.
RollbackTargetsOnly(t) ==
    /\ t.op = "rollback" /\ RollbackAllowed(t)
    /\ active' = FALSE
    /\ UNCHANGED guard

Rollback(t) ==
    /\ t.op = "rollback" /\ RollbackAllowed(t)
    /\ active' = FALSE
    /\ guard' = [guard EXCEPT !.active = FALSE]

Cleanup(t) ==
    /\ t.op = "cleanup" /\ CleanupAllowed(t)
    /\ guard' = NoGuard
    /\ UNCHANGED active

Commit(t) == Bootstrap(t) \/ Heartbeat(t) \/ Activate(t) \/ Rollback(t) \/ Cleanup(t)

(***************************************************************************)
(* A query as its operator sees it: answered, or failed.  A failed one was  *)
(* not sent, was refused, committed with its answer lost, or was given up   *)
(* while the server may still run it.                                      *)
(***************************************************************************)
Fault == faults < MaxFaults /\ faults' = faults + 1

Answered(t) == Commit(t) /\ UNCHANGED <<late, faults>>

Failed(t, reachable) ==
    \/ (~reachable \/ ~Allowed(t)) /\ UNCHANGED <<active, guard, late, faults>>
    \/ reachable /\ Fault /\ Commit(t) /\ UNCHANGED late
    \/ reachable /\ Fault /\ late' = late \cup {t} /\ UNCHANGED database

\* The server runs the query at last, or its statement timeout ends it.
LateEnds(t) ==
    /\ late' = late \ {t}
    /\ Commit(t) \/ UNCHANGED database
    /\ UNCHANGED faults

(***************************************************************************)
(* pg_cron and the clock.                                                  *)
(***************************************************************************)
LeaseExpires ==
    /\ guard.kind = "armed" /\ ~guard.due
    /\ guard' = [guard EXCEPT !.due = TRUE]
    /\ UNCHANGED <<active, late, faults>>

LaunchDeadman ==
    /\ guard.kind = "armed" /\ guard.active /\ ~guard.launched
    /\ guard' = [guard EXCEPT !.launched = TRUE]
    /\ UNCHANGED <<active, late, faults>>

\* Faulty: spends the guard before the targets are off.
DeadmanSpendsGuard ==
    /\ guard.launched
    /\ guard' = IF guard.due
         THEN [guard EXCEPT !.kind = "spent", !.active = FALSE,
                            !.launched = FALSE, !.hit = active]
         ELSE [guard EXCEPT !.launched = FALSE]
    /\ UNCHANGED <<active, late, faults>>

\* The launched run waits for the lock, then looks: it leaves an unexpired
\* lease alone and otherwise switches the targets off and spends the guard.
\* It does not look at whether the guard is still active.
DeadmanRuns ==
    /\ guard.launched
    /\ IF guard.due
         THEN /\ active' = FALSE
              /\ guard' = [guard EXCEPT !.kind = "spent", !.active = FALSE,
                                        !.launched = FALSE, !.hit = active]
         ELSE /\ guard' = [guard EXCEPT !.launched = FALSE]
              /\ UNCHANGED active
    /\ UNCHANGED <<late, faults>>

TargetRuns ==
    /\ active /\ ~guard.ran
    /\ guard' = [guard EXCEPT !.ran = TRUE]
    /\ UNCHANGED <<active, late, faults>>

GuardInit == active = FALSE /\ guard = NoGuard /\ late = {} /\ faults = 0
=============================================================================

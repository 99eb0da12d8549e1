------------------------------ MODULE CanaryRun -----------------------------
(* What the two operators of the background-work canary have in common: the *)
(* state of a run, its control resources, and the end of a run.             *)
EXTENDS CanaryGuard

VARIABLE run   \* the operator's record of each run

vars == <<active, guard, late, faults, run>>

Places == {"preflight", "bootstrap", "activate", "observe", "rollback", "settle",
           "deadman", "cleanup", "final", "publish", "release", "ended", "crashed"}

Outcomes == {"none", "verified", "pre_guard", "recovered", "manual"}  \* 0 20 30 40

\* gen, tried: the generation last acknowledged and the one of a heartbeat
\* without an answer.  zeros: successive samples without work.  live: the
\* activation was acknowledged.  proved: a dead-man run was reconciled.
\* lost: the flock, the provider, a whole receipt.
Records == [at: Places, gen: Generations, tried: SUBSET Generations,
            zeros: 0 .. 2, live: BOOLEAN, proved: BOOLEAN,
            lost: SUBSET {"lock", "provider", "receipt"},
            mode: {"running", "passed", "failed", "ambiguous"}, exit: Outcomes]

Fresh == [at |-> "preflight", gen |-> 0, tried |-> {}, zeros |-> 0,
          live |-> FALSE, proved |-> FALSE, lost |-> {},
          mode |-> "running", exit |-> "none"]

Holds(p, what) == what \notin run[p].lost

\* Queries under the run's abort signal end with the flock.
Signalled(p) == Holds(p, "lock") /\ Holds(p, "provider")

Goes(p, place) == run' = [run EXCEPT ![p].at = place]
Stops(p, place) == run' = [run EXCEPT ![p].at = place, ![p].mode = "failed"]
\* The process exits: of its record only what it reported stays.
Ends(p, outcome) ==
    run' = [run EXCEPT ![p] = [Fresh EXCEPT !.at = "ended", !.exit = outcome,
                                            !.mode = run[p].mode]]

Running(p) == run[p].at \notin {"ended", "crashed"}

Loses(p, what) ==
    /\ Running(p) /\ Holds(p, what)
    /\ Fault
    /\ run' = [run EXCEPT ![p].lost = @ \cup {what}]
    /\ UNCHANGED <<active, guard, late>>

\* The child that holds the flock dies or breaks its protocol.
LosesLock(p) == Loses(p, "lock")

\* The sealed provider executable is not what it was.
LosesProvider(p) == Loses(p, "provider")

\* An append to the receipt fails; the writer refuses every later one.
PoisonsReceipt(p) == Loses(p, "receipt")

\* The operator dies; the kernel lets go of its flock.
Crashes(p) ==
    /\ Running(p)
    /\ Fault
    /\ run' = [run EXCEPT ![p] = [Fresh EXCEPT !.at = "crashed"]]
    /\ UNCHANGED <<active, guard, late>>

\* Faulty: waits until the guard of another run is gone.
PreflightWaits(p) ==
    /\ run[p].at = "preflight"
    /\ Signalled(p) /\ guard.kind = "none" /\ ~active /\ Goes(p, "bootstrap")
    /\ UNCHANGED <<active, guard, late, faults>>

\* No target may be on and no guard present before a run begins.
Preflight(p) ==
    /\ run[p].at = "preflight"
    /\ \/ Signalled(p) /\ guard.kind = "none" /\ ~active /\ Goes(p, "bootstrap")
       \/ Ends(p, "pre_guard")
    /\ UNCHANGED <<active, guard, late, faults>>

\* Faulty: reads the targets alone.
CleanTargets == ~active

\* The readback at the end of a run.
Clean == guard.kind = "none" /\ ~active

RunInit == run = [p \in Runs |-> Fresh]
=============================================================================

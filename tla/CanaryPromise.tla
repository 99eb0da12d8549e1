---------------------------- MODULE CanaryPromise ----------------------------
(***************************************************************************)
(* What the canary promises to whoever watches the background work, without *)
(* leases, generations, places, receipts or lost answers: the targets are   *)
(* on only for a recovery run whose guard lives; once a run has stopped,    *)
(* nothing of it switches anything on again; and a run reports that the     *)
(* database is safe only when its guard is gone, or, for a dry run, dead.   *)
(***************************************************************************)
CONSTANTS RecoveryRuns, DryRuns, NoRun   \* see CanaryGuard

VARIABLES
    on,       \* the targets are switched on
    holder,   \* the run whose guard is there, NoRun without one
    live,     \* that guard is scheduled
    phase     \* by run: "working", "stopped", "reported" or "given_up"

cvars == <<on, holder, live, phase>>

Init ==
    /\ on = FALSE /\ live = FALSE
    /\ holder = NoRun
    /\ phase = [p \in RecoveryRuns \cup DryRuns |-> "working"]

\* A run that gave up, or died, may still have a query on its way.
Unfinished(p) == phase[p] \in {"working", "given_up"}

Arm(p) ==
    /\ Unfinished(p)
    /\ holder = NoRun /\ ~on
    /\ holder' = p /\ live' = TRUE
    /\ UNCHANGED on

SwitchOn(p) ==
    /\ Unfinished(p) /\ p \in RecoveryRuns
    /\ holder = p /\ live
    /\ on' = TRUE
    /\ UNCHANGED <<holder, live>>

\* A rollback, or the dead-man when the lease has run out.
SwitchOff ==
    /\ on' = FALSE /\ live' = FALSE
    /\ UNCHANGED holder

Remove ==
    /\ ~on /\ ~live
    /\ holder' = NoRun
    /\ UNCHANGED <<on, live>>

\* The operator knows that its guard is dead, in the step that kills it or later.
Stop(p) ==
    /\ phase[p] = "working"
    /\ holder' = p => ~live'
    /\ phase' = [phase EXCEPT ![p] = "stopped"]

\* Exit 0 or 30.
Report(p) ==
    /\ phase[p] = "stopped"
    /\ holder' = p => p \in DryRuns
    /\ phase' = [phase EXCEPT ![p] = "reported"]

GiveUp(p) ==
    /\ phase[p] \in {"working", "stopped"}
    /\ phase' = [phase EXCEPT ![p] = "given_up"]

Guard == SwitchOff \/ Remove \/ \E p \in RecoveryRuns \cup DryRuns : Arm(p) \/ SwitchOn(p)

Knowledge == \E p \in RecoveryRuns \cup DryRuns : Stop(p) \/ Report(p) \/ GiveUp(p)

Next ==
    /\ Guard \/ UNCHANGED <<on, holder, live>>
    /\ Knowledge \/ UNCHANGED phase

Spec == Init /\ [][Next]_cvars

-----------------------------------------------------------------------------
(* Properties *)

\* The targets are on only under a scheduled guard of a recovery run, and never
\* under the guard of a run that has stopped or reported.
OnlyUnderGuard ==
    /\ on => live /\ holder \in RecoveryRuns
    /\ \A p \in RecoveryRuns \cup DryRuns :
         /\ phase[p] \in {"stopped", "reported"} /\ holder = p => ~live
         /\ phase[p] = "reported" /\ holder = p => p \in DryRuns

\* A report is final: the run gets no guard after it, and a guard that it left
\* is never scheduled again.
ReportStands ==
    \A p \in RecoveryRuns \cup DryRuns : phase[p] = "reported" =>
        /\ phase'[p] = "reported"
        /\ holder' = p => holder = p /\ ~live' /\ ~on'

ReportsAreFinal == [][ReportStands]_cvars
=============================================================================

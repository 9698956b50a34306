------------------------------ MODULE Workflows ------------------------------
(***************************************************************************)
(* What the API takes a subscription workflow for: its phase, the runs     *)
(* that continue-as-new has given it, whether it is open, whether its      *)
(* first charge has gone through, and the attribute it shows Visibility.   *)
(* SubscriptionService is composed of such workflows; Subscription, which  *)
(* has all the rest, is one.                                               *)
(***************************************************************************)
EXTENDS Integers

\* A workflow that has just been started on a plan with this trial.
Started(trial) == [phase |-> "starting", run |-> 1, trial |-> trial, open |-> TRUE, paid |-> FALSE]

\* Mutant: at creation nobody asks whether there is a trial.
PhaseAttrOfActive(w) == IF w.phase # "starting" THEN w.phase ELSE "active"

\* SubflowPhase: as it was set at creation, carried over by continue-as-new,
\* until the run has a phase of its own.
PhaseAttr(w) ==
    IF w.phase # "starting" THEN w.phase
    ELSE IF w.run = 1 /\ w.trial > 0 THEN "trialing" ELSE "active"

\* The phases a workflow may go to (README.md's diagram, with "starting").
NextPhases(w) ==
    CASE w.phase = "starting" /\ w.run > 1 -> {"active", "past_due"}
      [] w.phase = "starting" /\ w.run = 1 /\ w.trial > 0 -> {"trialing"}
      [] w.phase = "starting" /\ w.run = 1 /\ w.trial <= 0 -> {"active", "deactivated"}
      [] w.phase = "trialing" -> {"active", "deactivated"}
      [] w.phase = "past_due" -> {"active", "deactivated"}
      [] w.phase = "active"   -> {"canceled"}
      [] w.phase = "canceled" -> {"deactivated"}
      [] OTHER -> {}

InPhase(w, to) == [w EXCEPT !.phase = to, !.paid = @ \/ to = "active"]

InNextRun(w) == [w EXCEPT !.run = @ + 1, !.phase = "starting"]

Closed(w) == [w EXCEPT !.open = FALSE]

MayRenew(w) == w.phase = "active"
MayClose(w) == w.phase = "deactivated" /\ w.open

\* What one step may make of a workflow.
MayBecome(w, v) ==
    \/ \E to \in NextPhases(w) : v = InPhase(w, to)
    \/ MayRenew(w) /\ v = InNextRun(w)
    \/ MayClose(w) /\ v = Closed(w)

=============================================================================

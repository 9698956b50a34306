----------------------------- MODULE Lifecycle ------------------------------
(***************************************************************************)
(* What Subflow promises about one subscription, whatever the plan, the    *)
(* timers and the hooks do: the phase diagram of README.md, and with it    *)
(* that a cycle is paid for at most once, that only a paid cycle is ever   *)
(* followed by another, and that a subscription that is leaving stays in   *)
(* its cycle.  One edge is the code's own: a first charge that fails       *)
(* deactivates a subscription that never started.                          *)
(***************************************************************************)
EXTENDS Naturals

VARIABLES
    phase,    \* "start", or one of the phases of the diagram
    cycle,    \* the billing period, counted from zero
    paid,     \* has this cycle been charged for?
    leaving   \* has the workflow seen a cancel?

lifecycle == <<phase, cycle, paid, leaving>>

Init == phase = "start" /\ cycle = 0 /\ ~paid /\ ~leaving

\* A phase of the diagram is left for another.
Move(from, to) ==
    /\ phase \in from
    /\ phase' = to
    /\ UNCHANGED <<cycle, paid, leaving>>

BeginTrial == cycle = 0 /\ Move({"start"}, "trialing")

Charge ==
    /\ phase \in {"start", "trialing", "active", "past_due"}
    /\ ~paid
    /\ paid' = TRUE
    /\ UNCHANGED <<phase, cycle, leaving>>

Activate == paid /\ Move({"start", "trialing"}, "active")

\* A trial ends unpaid: the card was declined, or the customer left.
NeverActivate == ~paid /\ Move({"start", "trialing"}, "deactivated")

FallDue == ~paid /\ Move({"active"}, "past_due")

Recover == paid /\ Move({"past_due"}, "active")

Exhaust == ~paid /\ Move({"past_due"}, "deactivated")

Leave ==
    /\ leaving' = TRUE
    /\ UNCHANGED <<phase, cycle, paid>>

Cancel == paid /\ leaving /\ Move({"active"}, "canceled")

End == Move({"canceled"}, "deactivated")

Renew ==
    /\ phase = "active" /\ paid /\ ~leaving
    /\ cycle' = cycle + 1
    /\ paid' = FALSE
    /\ UNCHANGED <<phase, leaving>>

Next ==
    \/ BeginTrial \/ Charge \/ Activate \/ NeverActivate \/ FallDue
    \/ Recover \/ Exhaust \/ Leave \/ Cancel \/ End \/ Renew

Spec == Init /\ [][Next]_lifecycle

=============================================================================

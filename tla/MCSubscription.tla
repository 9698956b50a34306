--------------------------- MODULE MCSubscription ---------------------------
(***************************************************************************)
(* Instances of the subscription workflow for TLC: plans small enough to   *)
(* enumerate, each chosen for the paths it opens.                          *)
(***************************************************************************)
EXTENDS SubscriptionProperties

\* Every field at its least; the other plans differ from it where they say.
Bare == [Cadence |-> 2, TrialDuration |-> 0, TrialEndNoticeBefore |-> 0,
         RenewalUpcomingBefore |-> 0, DunningMaxAttempts |-> 1,
         DunningRetryBackoff |-> 1, EnabledHooks |-> {}]

\* No endpoint: nothing but charges and timers ever blocks. The backoff doubles,
\* outlasts the period and, at the fourth attempt, wraps around to below zero.
Quiet == [Bare EXCEPT !.DunningMaxAttempts = 4]

\* A notice before each renewal, and every hook of a paid plan dispatched.
Noisy == [Bare EXCEPT !.Cadence = 3, !.RenewalUpcomingBefore = 1,
                      !.EnabledHooks = Hooks]

\* A notice that would be due before the period starts, and a negative backoff
\* that, at the third attempt, wraps around to above zero, and back at the fourth.
Degenerate == [Bare EXCEPT !.RenewalUpcomingBefore = 3, !.DunningRetryBackoff = -3,
                           !.DunningMaxAttempts = 4,
                           !.EnabledHooks = {"RenewalUpcoming", "PastDue", "Canceled"}]

\* A trial with all its hooks, and a trial with none.
Trialled == [Bare EXCEPT !.TrialDuration = 3, !.TrialEndNoticeBefore = 1,
                         !.EnabledHooks = {"TrialStarted", "TrialWillEnd", "PaymentFailed"}]
SilentTrial == [Bare EXCEPT !.TrialDuration = 1]

PaidPlans == {Quiet, Noisy, Degenerate}
TrialPlans == {Trialled, SilentTrial}
NoisyPlans == {Noisy}
AllPlans == PaidPlans \cup TrialPlans

=============================================================================

------------------------------- MODULE PlanTerms ------------------------------
(***************************************************************************)
(* Subscription plans as the workflow sees them: the hooks a plan may      *)
(* enable (hook.go), its terms (plan.go), and the arithmetic of its        *)
(* dunning backoff (phase_dunning.go).                                     *)
(***************************************************************************)
EXTENDS Integers

CONSTANT DurationBits   \* width of a time.Duration, 64 in the code

\* A quarter of the range of durations: more than 146 years in the code. That
\* it is a number the provers, to whom exponentiation is foreign, need to be told.
Quarter == 2^(DurationBits - 2)

ASSUME WidthAssumption == DurationBits \in Nat \ {0, 1} /\ Quarter \in Nat \ {0}

Duration == -(2 * Quarter)..(2 * Quarter - 1)

PaymentHooks == {"PaymentOK", "PaymentFailed"}

Hooks == PaymentHooks \cup
    {"TrialStarted", "TrialWillEnd", "RenewalUpcoming", "Activated", "Renewed",
     "PastDue", "Recovered", "Canceled", "Deactivated"}

(***************************************************************************)
(* The terms of a plan. One without an integration endpoint is one that    *)
(* enables no hook. An optional duration may be any duration, one below     *)
(* zero included: only cadence is validated.                               *)
(***************************************************************************)
Plan == [Cadence: Duration \cap (Nat \ {0}), TrialDuration: Duration,
         TrialEndNoticeBefore: Duration, RenewalUpcomingBefore: Duration,
         DunningMaxAttempts: Nat, DunningRetryBackoff: Duration,
         EnabledHooks: SUBSET Hooks]

\* What is left of an integer in a time.Duration.
Wrapped(x) == ((x + 2 * Quarter) % (4 * Quarter)) - 2 * Quarter

\* Mutant: the factor is an integer too narrow for it.
BackoffOfShortFactor(p, n) == Wrapped(p.DunningRetryBackoff * (2^(n - 1) % Quarter))

\* The n-th backoff: the product wraps around, as its factor 1<<(n-1) does.
BackoffOf(p, n) == Wrapped(p.DunningRetryBackoff * 2^(n - 1))

=============================================================================

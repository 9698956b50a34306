----------------------- MODULE MCSubscriptionService ------------------------
(***************************************************************************)
(* A small service for TLC: two plans under one code, one after the other, *)
(* requests that are to be refused, one user and two concurrent calls.     *)
(***************************************************************************)
EXTENDS SubscriptionService, TLC

CONSTANTS c1, c2   \* callers

Plainest == [Cadence |-> <<2>>, TrialDuration |-> <<>>, TrialEndNoticeBefore |-> <<>>,
             RenewalUpcomingBefore |-> <<>>, DunningMaxAttempts |-> 0,
             DunningRetryBackoff |-> <<>>, EnabledHooks |-> {}]

Basic == [Code |-> "basic", PriceCents |-> 5, PerUserLimit |-> 1,
          IntegrationEndpoint |-> "", Terms |-> Plainest]

\* Every optional term given, durations below zero among them; no limit.
Trial == [Basic EXCEPT !.PerUserLimit = 0, !.IntegrationEndpoint = "host",
                       !.Terms = [Plainest EXCEPT
                           !.TrialDuration = <<3>>, !.TrialEndNoticeBefore = <<1>>,
                           !.RenewalUpcomingBefore = <<-1>>, !.DunningMaxAttempts = 9,
                           !.DunningRetryBackoff = <<-2>>, !.EnabledHooks = {"PastDue"}]]

\* What is to be refused.
NoCadence == [Basic EXCEPT !.Terms.Cadence = <<0>>]
Garbled   == [Basic EXCEPT !.Terms.TrialDuration = <<1, 1>>]
LateNotice == [Trial EXCEPT !.Terms.TrialEndNoticeBefore = <<3>>]
BadHook   == [Basic EXCEPT !.Terms.EnabledHooks = {"unknown"}]
NoLimit   == [Basic EXCEPT !.PerUserLimit = -1]

ManyRequests == {Basic, Trial, NoCadence, Garbled, LateNotice, BadHook, NoLimit}
BasicRequests == {Basic}

\* A trial below zero is none to the workflow, and not zero to the API.
NegativeTrial == {[Basic EXCEPT !.Terms.TrialDuration = <<-1>>]}

TwoCallers == {c1, c2}
OneUser == {"u"}
Symmetry == Permutations(TwoCallers)

=============================================================================

-------------------------- MODULE MCBillingHistory --------------------------
(***************************************************************************)
(* Small histories for TLC: two subscriptions of one user, and a stranger. *)
(***************************************************************************)
EXTENDS BillingHistory

Charged(ref, sub, user, t) ==
    [reference |-> ref, subscription |-> sub, user |-> user, type |-> "charged",
     occurredAt |-> t]
Failed(ref, sub, user, t) == [Charged(ref, sub, user, t) EXCEPT !.type = "failed"]

\* No two events at the same time.
DistinctTimes == {Failed("a", "s1", "u1", 1), Charged("b", "s2", "u2", 2),
                  Charged("c", "s1", "u1", 3)}

\* Two subscriptions of one user that renew in the same millisecond.
EqualTimes == {Charged("a", "s1", "u1", 1), Charged("b", "s2", "u1", 1),
               Failed("c", "s1", "u1", 2)}

Everything == [subscription |-> "", user |-> "", type |-> ""]
TwoQueries == {Everything, [Everything EXCEPT !.user = "u1"]}
OneQuery == {Everything}

=============================================================================

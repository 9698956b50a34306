----------------------------- MODULE Collection -----------------------------
(***************************************************************************)
(* How the payment of a billing interval is collected, whatever the timers,*)
(* the retries and the hooks do: charge after charge, each made only when  *)
(* the one before was declined, recorded and notified, until one is        *)
(* accepted or the last that dunning allows is declined. Only an interval  *)
(* that is paid for is followed by another.                                *)
(*                                                                         *)
(* Subscription implements it with activities that are one step, and       *)
(* ActivityDelivery, for one interval, with all that such a step hides.    *)
(***************************************************************************)
EXTENDS Integers

VARIABLES
    step,     \* what comes next, or how the interval ended
    declined, \* numbers of the interval's charges that were declined
    accepted, \* and of the one that was accepted
    limit     \* the number of the last charge that may be made

collection == <<step, declined, accepted, limit>>

Begin == step = "charge" /\ declined = {} /\ accepted = {}

Init == Begin /\ limit \in Nat

\* The n-th charge follows n that were declined.
Charge ==
    /\ step = "charge" /\ step' = "record"
    /\ \E n \in 0..limit :
           /\ declined = 0..(n - 1)
           /\ \/ accepted' = {n} /\ UNCHANGED declined
              \/ declined' = declined \cup {n} /\ UNCHANGED accepted
    /\ UNCHANGED limit

Record ==
    /\ step = "record" /\ step' = "notify"
    /\ UNCHANGED <<declined, accepted, limit>>

\* The integrator knows of the charge.
Notify ==
    /\ step = "notify"
    /\ \/ accepted # {} /\ step' = "paid"
       \/ accepted = {} /\ declined # 0..limit /\ step' = "charge"
       \/ accepted = {} /\ declined = 0..limit /\ step' = "exhausted"
    /\ UNCHANGED <<declined, accepted, limit>>

\* The next interval, which may allow more charges or fewer.
Rotate == step = "paid" /\ Begin' /\ limit' \in Nat

Next == Charge \/ Record \/ Notify \/ Rotate

Spec == Init /\ [][Next]_collection

=============================================================================

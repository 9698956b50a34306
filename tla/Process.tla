------------------------------ MODULE Process -------------------------------
(***************************************************************************)
(* The life of a process of Subflow (cmd/api/main.go, cmd/worker/main.go): *)
(* it starts up step by step, exits when a step fails, and serves after    *)
(* the last one. Some steps prepare what outlives it: indexes of MongoDB,  *)
(* search attributes of Temporal. It may be killed at any moment, and is   *)
(* then started again.                                                     *)
(***************************************************************************)
EXTENDS Integers, Sequences

CONSTANTS
    Steps,    \* what main does before it serves, in order
    Durable   \* the steps whose effect outlives the process

VARIABLES
    stage,    \* 0 while down, else the step main is at
    prepared  \* the durable steps that have taken effect

Down     == stage = 0
Starting == stage \in DOMAIN Steps
Serving  == stage = Len(Steps) + 1

Init == stage = 0 /\ prepared = {}

\* The configuration is read: failing to is as good as failing at the first step.
Start ==
    /\ Down
    /\ stage' = 1
    /\ UNCHANGED prepared

\* The step takes effect. Repeating it is no error: an index, or an attribute,
\* that exists already is as good as a new one.
TakesEffect == prepared' = prepared \cup ({Steps[stage]} \cap Durable)

Succeed ==
    /\ Starting
    /\ TakesEffect
    /\ stage' = stage + 1

\* Mutant: the error is logged and main goes on.
FailAndGoOn ==
    /\ Starting
    /\ TakesEffect \/ UNCHANGED prepared
    /\ stage' = stage + 1

\* The step's error makes main exit, whether or not it took effect.
Fail ==
    /\ Starting
    /\ TakesEffect \/ UNCHANGED prepared
    /\ stage' = 0

\* The process is killed, or exits on a signal.
Crash ==
    /\ Serving
    /\ stage' = 0
    /\ UNCHANGED prepared

=============================================================================

------------------------- MODULE MCActivityDelivery -------------------------
(***************************************************************************)
(* The charges of one interval for TLC: see MCDelivery.cfg.                *)
(***************************************************************************)
EXTENDS ActivityDelivery

=============================================================================

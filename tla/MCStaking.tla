----------------------------- MODULE MCStaking -----------------------------
(***************************************************************************)
(* Instances of staking for TLC: the shortest plan, a clock finer than a    *)
(* day, and a connection that may take a tick.                              *)
(***************************************************************************)
EXTENDS Staking
=============================================================================

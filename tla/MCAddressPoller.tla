-------------------------- MODULE MCAddressPoller --------------------------
(***************************************************************************)
(* Instances of the BTC and TRON pollers for TLC.                           *)
(***************************************************************************)
EXTENDS AddressPoller, TLC

MCTxs == 1..MaxTxs

Perms == Permutations(Users) \cup Permutations(Polls)
=============================================================================

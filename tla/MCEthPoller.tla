---------------------------- MODULE MCEthPoller ----------------------------
(***************************************************************************)
(* Instances of the ETH poller for TLC.                                     *)
(***************************************************************************)
EXTENDS EthPoller, TLC

Perms == Permutations(Users) \cup Permutations(EthPolls) \cup Permutations(Txs)
=============================================================================

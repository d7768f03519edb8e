------------------------ MODULE MCOnchainWithdrawal ------------------------
(***************************************************************************)
(* Instances of the on-chain withdrawals for TLC.                           *)
(***************************************************************************)
EXTENDS OnchainWithdrawal
=============================================================================

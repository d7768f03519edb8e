------------------------------ MODULE MCServer ------------------------------
(***************************************************************************)
(* Instances of the process and its on-chain withdrawals for TLC.           *)
(***************************************************************************)
EXTENDS Server, MCOnchainWithdrawal
=============================================================================

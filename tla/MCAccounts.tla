---------------------------- MODULE MCAccounts ----------------------------
(* The instance of Accounts that TLC checks.  Requests are interchangeable. *)
EXTENDS Accounts, TLC

RequestSymmetry == Permutations(Requests)
=============================================================================

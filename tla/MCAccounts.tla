----------------------------- MODULE MCAccounts -----------------------------
(***************************************************************************)
(* Small instances of Accounts for TLC.                                    *)
(***************************************************************************)
EXTENDS Accounts

CONSTANTS p1, p2, r1, r2, ann, bob

Alike == Permutations(Processes) \cup Permutations(Requests) \cup Permutations(Emails)
=============================================================================

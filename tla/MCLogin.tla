------------------------------ MODULE MCLogin ------------------------------
(***************************************************************************)
(* A small instance of MemberLogin for TLC.                                *)
(***************************************************************************)
EXTENDS MemberLogin

CONSTANTS ann, r1, r2

EitherRequest == Permutations(Requests)

MCDelivery == {[limit |-> 2, window |-> 2]}
MCOrigins  == [code_request |-> {[limit |-> 2, window |-> 2]},
               code_verify  |-> {[limit |-> 4, window |-> 2], [limit |-> 2, window |-> 1]}]
=============================================================================

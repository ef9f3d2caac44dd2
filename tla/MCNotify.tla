------------------------------ MODULE MCNotify ------------------------------
(***************************************************************************)
(* Small instances of Notify for TLC.                                      *)
(***************************************************************************)
EXTENDS Notify

CONSTANTS bob, phone

\* A window across midnight, in a day of three moments.
MCWindows == {[start |-> 2, end |-> 1]}

Switch(p, kind, channel) == [who |-> p, kind |-> kind, channel |-> channel]

MCConsents == {{Switch(bob, "paper_fill", "email")}, {Switch(bob, "paper_fill", "web_push")}}
=============================================================================

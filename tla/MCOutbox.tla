----------------------------- MODULE MCOutbox -----------------------------
(***************************************************************************)
(* Small instances of EventOutbox for TLC.                                 *)
(***************************************************************************)
EXTENDS EventOutbox

CONSTANTS ann, tab

MCUserOf == [c \in Clients |-> ann]

\* Of what the client may read, one kind it has no listener for
\* (feature_values.changed.v1 and backtest.completed.v1 are such); of what it may
\* not, one.
MCKinds ==
    {[to |-> "shared", heard |-> TRUE], [to |-> "shared", heard |-> FALSE],
     [to |-> ann, heard |-> TRUE], [to |-> "owner", heard |-> TRUE]}
=============================================================================

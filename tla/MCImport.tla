------------------------------ MODULE MCImport ------------------------------
(***************************************************************************)
(* Small instances of MarketImport for TLC.                                *)
(***************************************************************************)
EXTENDS MarketImport

CONSTANTS share, bond

NoJumps   == {}
SomeJumps == {<<"a", "b">>}
=============================================================================

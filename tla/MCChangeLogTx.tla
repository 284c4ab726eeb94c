--------------------------- MODULE MCChangeLogTx ---------------------------
(* TLC instance of ChangeLogTx: one device, in the first household.        *)
EXTENDS ChangeLogTx, TLC

CONSTANTS h1, h2, r1

MCHousehold == {h1, h2}
MCReader == {r1}
MCHouseholdOf == r1 :> h1
=============================================================================

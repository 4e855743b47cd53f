------------------------ MODULE MCOneSidedHistory --------------------------
(***************************************************************************)
(* The instances of MCOneSided, with the history variables.                *)
(***************************************************************************)
EXTENDS MCOneSided, OneSidedHistory
=============================================================================

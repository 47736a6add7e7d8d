------------------------------ MODULE MCPlanning ------------------------------
(***************************************************************************)
(* Planning for TLC.  Liveness is checked, so callers and payloads are not *)
(* declared symmetric.                                                     *)
(***************************************************************************)
EXTENDS Planning

MCEndings == {"finished", "error"}
===============================================================================

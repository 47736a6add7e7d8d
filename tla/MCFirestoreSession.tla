-------------------------- MODULE MCFirestoreSession --------------------------
(***************************************************************************)
(* FirestoreSession for TLC.  The processes are interchangeable.           *)
(***************************************************************************)
EXTENDS FirestoreSession, TLC

ProcessSymmetry == Permutations(Processes)
===============================================================================

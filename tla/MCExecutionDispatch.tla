------------------------- MODULE MCExecutionDispatch -------------------------
(***************************************************************************)
(* ExecutionDispatch for TLC: workers are interchangeable, and one report  *)
(* by hand is explored.                                                    *)
(***************************************************************************)
EXTENDS ExecutionDispatch, TLC

WorkerSymmetry == Permutations(Workers)

\* The plan's packet and one more under the key of the reports by hand.
OneReportByHand == Cardinality({r \in responses : r.key = 0}) <= 2
===============================================================================

---------------------------- MODULE MCArtifactRelay ----------------------------
(***************************************************************************)
(* ArtifactRelay for TLC: a payload that passes the inspection, one that   *)
(* does not, and one that is too large to be taken.                        *)
(***************************************************************************)
EXTENDS ArtifactRelay, TLC

CONSTANTS Good, Bad, Large

MCKind ==
    [d \in Payloads |-> CASE d = Good -> "good" [] d = Bad -> "malformed" [] d = Large -> "large"]
===============================================================================

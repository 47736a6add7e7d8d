------------------------------ MODULE HandOffProofs ------------------------------
(***************************************************************************)
(* What every system that implements the hand-off inherits: nobody is told *)
(* two runs for one job, and a job once bound keeps its run.               *)
(***************************************************************************)
EXTENDS HandOff, TLAPS

HandOffInductive ==
    /\ bound \in [Jobs -> Runs \cup {Unbound}]
    /\ told \in [Jobs -> SUBSET Runs]
    /\ \A j \in Jobs : told[j] \subseteq {bound[j]}

LEMMA StepKeeps ==
    ASSUME Unbound \notin Runs, HandOffInductive, [Next]_handOffVars
    PROVE  HandOffInductive'
  <1> USE DEF HandOffInductive
  <1>1. CASE UNCHANGED handOffVars
    BY <1>1 DEF handOffVars
  <1>2. ASSUME NEW j \in Jobs, NEW r \in Runs, Bind(j, r), Tell(j) \/ UNCHANGED told
        PROVE  HandOffInductive'
    <2>1. told[j] = {} /\ bound' \in [Jobs -> Runs \cup {Unbound}] /\ bound'[j] = r
      BY <1>2 DEF Bind
    <2>2. \A i \in Jobs \ {j} : bound'[i] = bound[i]
      BY <1>2 DEF Bind
    <2>3. CASE Tell(j)
      BY <2>1, <2>2, <2>3 DEF Tell
    <2>4. CASE UNCHANGED told
      BY <2>1, <2>2, <2>4
    <2> QED
      BY <1>2, <2>3, <2>4
  <1>3. ASSUME NEW j \in Jobs, Tell(j), UNCHANGED bound PROVE HandOffInductive'
    BY <1>3 DEF Tell
  <1> QED
    BY <1>1, <1>2, <1>3 DEF Next

\* The abstract promise: whoever is told a run for a job is told the same one.
THEOREM OneRunIsTold == ASSUME Unbound \notin Runs PROVE Spec => []OneRunTold
  <1>1. Init => HandOffInductive
    BY DEF Init, HandOffInductive
  <1>2. HandOffInductive /\ [Next]_handOffVars => HandOffInductive'
    BY StepKeeps
  <1>3. HandOffInductive => OneRunTold
    BY DEF HandOffInductive, OneRunTold
  <1> QED
    BY <1>1, <1>2, <1>3, PTL DEF Spec

\* A job bound to a run is bound to it for ever.
THEOREM BoundForEver ==
    ASSUME Unbound \notin Runs, NEW j \in Jobs, NEW r \in Runs
    PROVE  Spec => [](bound[j] = r => [](bound[j] = r))
  <1>1. Init => HandOffInductive
    BY DEF Init, HandOffInductive
  <1>2. HandOffInductive /\ [Next]_handOffVars => HandOffInductive'
    BY StepKeeps
  <1>3. HandOffInductive /\ bound[j] = r /\ [Next]_handOffVars => (bound[j] = r)'
    BY DEF HandOffInductive, Next, Bind, Tell, handOffVars
  <1> QED
    BY <1>1, <1>2, <1>3, PTL DEF Spec
===============================================================================

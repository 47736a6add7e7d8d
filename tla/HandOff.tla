-------------------------------- MODULE HandOff --------------------------------
(***************************************************************************)
(* What the broker promises about work it hands to a provider, whether it  *)
(* is planning or execution: a job is bound to at most one provider run,   *)
(* for ever, and whoever is told a run for the job is told that one.       *)
(***************************************************************************)
CONSTANTS
    Jobs,      \* the pieces of work handed over
    Runs,      \* the provider's runs
    Unbound    \* a job no run is known for

VARIABLES
    bound,     \* the run the broker holds each job to
    told       \* the runs callers and packets have named for each job

handOffVars == <<bound, told>>

Init ==
    /\ bound = [j \in Jobs |-> Unbound]
    /\ told = [j \in Jobs |-> {}]

\* A run is stored for a job that has none.
Bind(j, r) ==
    /\ bound[j] = Unbound
    /\ bound' = [bound EXCEPT ![j] = r]

\* The run of the job is named to a caller.
Tell(j) ==
    /\ bound'[j] \in Runs
    /\ told' = [told EXCEPT ![j] = @ \cup {bound'[j]}]

Next ==
    \E j \in Jobs :
        \/ /\ \E r \in Runs : Bind(j, r)
           /\ Tell(j) \/ UNCHANGED told
        \/ Tell(j) /\ UNCHANGED bound

Spec == Init /\ [][Next]_handOffVars
-------------------------------------------------------------------------------
\* Nobody is ever told two runs for one job.
OneRunTold == \A j \in Jobs : \A r, s \in told[j] : r = s
===============================================================================

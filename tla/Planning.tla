-------------------------------- MODULE Planning --------------------------------
(***************************************************************************)
(* One work order from its submission to its plan                          *)
(* (submit_prompt_for_planning, submit_work_bundle_for_planning,           *)
(* _route_and_dispatch, refresh_planning).                                 *)
(*                                                                         *)
(* Any number of calls carry the same idempotency key: the first creates   *)
(* the work order, the others replay it.  A call holds the lock of the     *)
(* work order for each of its transactions and never across the call to    *)
(* the provider, so calls interleave, and a call may die between any two   *)
(* of its steps.  `calls' says what each caller does next.                 *)
(***************************************************************************)
EXTENDS Integers, Sequences, FiniteSets

CONSTANTS
    Callers,     \* processes that submit or refresh at the same time
    Payloads,    \* what may be submitted under the key
    None,
    Endings,     \* what a planning run may end in
    MaxCalls,    \* bound on the submissions
    MaxRuns,     \* bound on the runs of the provider's agent
    MaxCrashes   \* bound on the calls that die

Statuses == {"ACCEPTED", "ROUTED", "PLANNING", "PLAN_READY", "FAILED"}

ASSUME PlanningAssumption ==
    /\ Endings \subseteq {"finished", "error"}
    /\ {MaxCalls, MaxRuns, MaxCrashes} \subseteq Nat
    /\ None \notin Payloads /\ None \notin 1..MaxRuns /\ None \notin Statuses

VARIABLES
    status,       \* WorkStatus of the work order, None before it exists
    payload,      \* what it stores: the Markdown and everything _validate_replay compares
    ledger,       \* its ledger; the index is the sequence number
    calls,        \* what each caller does next, and what it holds
    answers,      \* acknowledgements and plans handed out: the run, the payload of the call
    runs,         \* the runs of the provider's agent, oldest first
    parent,       \* the work order it refines, if any: not yet, or acknowledged
    bundle,       \* the artifacts it comes with, if any: as resolved, or changed since
    submissions,  \* submissions so far
    crashes       \* calls that died so far

storeVars == <<status, payload, ledger>>
worldVars == <<parent, bundle>>
planningVars ==
    <<status, payload, ledger, calls, answers, runs, parent, bundle, submissions, crashes>>

RunIds == 1..MaxRuns

Events ==
    {"work_order.accepted", "bundle.validated", "bundle.rejected", "work_order.routed",
     "executor.acknowledged", "executor.rejected", "executor.failed", "executor.status",
     "plan.received", "plan.available"}

Entries == [event : Events, run : RunIds \cup {None}]

Steps ==
    {"idle", "lookup", "bundle", "verify", "route", "submit", "raised", "rejected", "accepted",
     "polled"}

Calls ==
    [pc : Steps, payload : Payloads \cup {None}, run : RunIds \cup {None},
     outcome : {"running", None} \cup Endings]

Call(pc, p, run, outcome) == [pc |-> pc, payload |-> p, run |-> run, outcome |-> outcome]
Idle == Call("idle", None, None, None)

PlanningTypeOK ==
    /\ status \in Statuses \cup {None}
    /\ payload \in Payloads \cup {None}
    /\ ledger \in Seq(Entries)
    /\ calls \in [Callers -> Calls]
    /\ answers \subseteq [run : RunIds, payload : Payloads \cup {None}]
    /\ runs \in Seq([ours : BOOLEAN, payload : Payloads \cup {None},
                     outcome : {"running"} \cup Endings])
    /\ parent \in {"none", "waiting", "acknowledged"} /\ bundle \in {"none", "intact", "changed"}
    /\ submissions \in 0..MaxCalls /\ crashes \in 0..MaxCrashes

PlanningInit ==
    /\ status = None /\ payload = None
    /\ ledger = <<>>
    /\ calls = [c \in Callers |-> Idle]
    /\ answers = {}
    /\ runs = <<>>
    /\ parent \in {"none", "waiting"}
    /\ bundle \in {"none", "intact"}
    /\ submissions = 0 /\ crashes = 0
-------------------------------------------------------------------------------
Logged(event) == \E i \in DOMAIN ledger : ledger[i].event = event

\* _latest_from: the run of the last entry of this type.
LatestRun(event) ==
    LET last == CHOOSE i \in DOMAIN ledger :
                    /\ ledger[i].event = event
                    /\ \A j \in DOMAIN ledger : ledger[j].event = event => j <= i
    IN  ledger[last].run

AckedRun == LatestRun("executor.acknowledged")

Entry(event, run) == [event |-> event, run |-> run]
Logs(event, run) == ledger' = Append(ledger, Entry(event, run))

Becomes(c, call) == calls' = [calls EXCEPT ![c] = call]
Goes(c, pc) == Becomes(c, Call(pc, calls[c].payload, None, None))
Ends(c) == Becomes(c, Idle)
Answers(c, run) == answers' = answers \cup {[run |-> run, payload |-> calls[c].payload]}

\* Where a submission that got past the replay check goes.
AfterCreation == IF bundle = "none" THEN "route" ELSE "bundle"

\* create_work_order: the work order and its first ledger entry, in one transaction.
CreateWorkOrder(p) ==
    /\ status = None
    /\ status' = "ACCEPTED" /\ payload' = p
    /\ Logs("work_order.accepted", None)

SubmitNew(c, p) ==
    /\ calls[c].pc = "idle" /\ submissions < MaxCalls
    /\ bundle # "changed"
    /\ CreateWorkOrder(p)
    /\ Becomes(c, Call(AfterCreation, p, None, None))
    /\ submissions' = submissions + 1
    /\ UNCHANGED <<answers, runs, worldVars>>

\* Mutant of IsSameWorkOrder: the key alone says it is the same work order.
IsSameKey(p) == p \in Payloads

\* _validate_replay
IsSameWorkOrder(p) == p = payload

\* The key exists: a call with another payload is refused.
SubmitReplay(c, p) ==
    /\ calls[c].pc = "idle" /\ submissions < MaxCalls
    /\ status # None
    /\ bundle # "changed"
    /\ IsSameWorkOrder(p)
    /\ Becomes(c, Call("lookup", p, None, None))
    /\ submissions' = submissions + 1
    /\ UNCHANGED <<storeVars, answers, runs, worldVars>>

\* Mutant of LookUpAcknowledgement: a work order that is known is taken to be planned.
LookUpAnyEvent(c) ==
    /\ calls[c].pc = "lookup"
    /\ Answers(c, LatestRun("work_order.accepted"))
    /\ Ends(c)
    /\ UNCHANGED <<storeVars, runs, worldVars>>

\* A replay looks for the acknowledgement outside the lock.
LookUpAcknowledgement(c) ==
    /\ calls[c].pc = "lookup"
    /\ IF Logged("executor.acknowledged")
       THEN /\ Answers(c, AckedRun)
            /\ Ends(c)
       ELSE /\ Goes(c, AfterCreation)
            /\ UNCHANGED answers
    /\ UNCHANGED <<storeVars, runs, worldVars>>

\* _record_bundle
RecordBundle(c) ==
    /\ calls[c].pc = "bundle"
    /\ IF Logged("bundle.validated") THEN UNCHANGED ledger ELSE Logs("bundle.validated", None)
    /\ Goes(c, "verify")
    /\ UNCHANGED <<status, payload, answers, runs, worldVars>>

\* verify_bundle_generation reads the artifacts once more, outside the lock.
VerifyBundle(c) ==
    /\ calls[c].pc = "verify"
    /\ bundle = "intact"
    /\ Goes(c, "route")
    /\ UNCHANGED <<storeVars, answers, runs, worldVars>>

\* They are gone or changed: the work order fails, unless another call routed it.
RejectBundle(c) ==
    /\ calls[c].pc = "verify"
    /\ bundle = "changed"
    /\ IF Logged("work_order.routed")
       THEN UNCHANGED <<status, ledger>>
       ELSE status' = "FAILED" /\ Logs("bundle.rejected", None)
    /\ Ends(c)
    /\ UNCHANGED <<payload, answers, runs, worldVars>>

\* Mutant of ReroutedFrom: a replay routes again, wherever the work order is.
ReroutedFromAnywhere == Statuses

\* _ensure_routed
ReroutedFrom == {"ACCEPTED", "FAILED"}

EnsureRouted(c) ==
    /\ calls[c].pc = "route"
    /\ IF Logged("work_order.routed")
       THEN /\ status' = IF status \in ReroutedFrom THEN "ROUTED" ELSE status
            /\ UNCHANGED ledger
       ELSE status' = "ROUTED" /\ Logs("work_order.routed", None)
    /\ Goes(c, "submit")
    /\ UNCHANGED <<payload, answers, runs, worldVars>>
-------------------------------------------------------------------------------
\* Mutant of MustPost: the agent id is not derived from the work order.
MustPostAlways == TRUE

\* The provider.  A new work order creates an agent with an id derived from the work
\* order and its first run; a second creation is answered 409 and read back as the
\* agent's latest run.  A refinement posts a run to the parent's agent, every time.
MustPost == parent # "none" \/ runs = <<>>
Posts(c) ==
    runs' = Append(runs, [ours |-> TRUE, payload |-> calls[c].payload, outcome |-> "running"])

CanPost == parent # "waiting" /\ Len(runs) < MaxRuns

SubmitAccepted(c) ==
    /\ calls[c].pc = "submit"
    /\ IF MustPost THEN CanPost /\ Posts(c) ELSE UNCHANGED runs
    /\ Becomes(c, Call("accepted", calls[c].payload, Len(runs'), None))
    /\ UNCHANGED <<storeVars, answers, worldVars>>

\* The call raises: the provider cannot be reached, or its answer is lost after it
\* started a run, or the parent has no session to refine (_parent_agent_id).
SubmitRaises(c) ==
    /\ calls[c].pc = "submit"
    /\ \/ UNCHANGED runs
       \/ MustPost /\ CanPost /\ Posts(c)
    /\ Goes(c, "raised")
    /\ UNCHANGED <<storeVars, answers, worldVars>>

SubmitRejected(c) ==
    /\ calls[c].pc = "submit"
    /\ parent # "waiting"
    /\ Goes(c, "rejected")
    /\ UNCHANGED <<storeVars, answers, runs, worldVars>>

RecordFailure(c) ==
    /\ calls[c].pc = "raised"
    /\ IF Logged("executor.acknowledged")
       THEN UNCHANGED <<status, ledger>>
       ELSE status' = "FAILED" /\ Logs("executor.failed", None)
    /\ Ends(c)
    /\ UNCHANGED <<payload, answers, runs, worldVars>>

\* A rejection looks for an earlier rejection, not for an acknowledgement.  Its receipt,
\* executor.rejected, hands on whatever run id the executor rejected with, which is stored
\* nowhere; `answers' holds what an acknowledgement or a plan tells, so it is not among them.
RecordRejection(c) ==
    /\ calls[c].pc = "rejected"
    /\ IF Logged("executor.rejected")
       THEN UNCHANGED <<status, ledger>>
       ELSE status' = "FAILED" /\ Logs("executor.rejected", None)
    /\ Ends(c)
    /\ UNCHANGED <<payload, answers, runs, worldVars>>

\* Mutant of IsFirstAcknowledgement: it was looked for before the provider was called.
IsFirstAtLookup == TRUE

\* The first acknowledgement counts; a later call answers with it.
IsFirstAcknowledgement == ~Logged("executor.acknowledged")

RecordAcknowledgement(c) ==
    /\ calls[c].pc = "accepted"
    /\ IF IsFirstAcknowledgement
       THEN /\ Answers(c, calls[c].run)
            /\ status' = "PLANNING" /\ Logs("executor.acknowledged", calls[c].run)
       ELSE /\ Answers(c, AckedRun)
            /\ UNCHANGED <<status, ledger>>
    /\ Ends(c)
    /\ UNCHANGED <<payload, runs, worldVars>>
-------------------------------------------------------------------------------
\* refresh_planning: a plan that is there is returned; otherwise the acknowledged run
\* is read outside the lock ...
ReturnPlan(c) ==
    /\ calls[c].pc = "idle"
    /\ Logged("plan.available")
    /\ answers' = answers \cup {[run |-> LatestRun("plan.received"), payload |-> payload]}
    /\ UNCHANGED <<storeVars, calls, runs, worldVars>>

\* Mutant of IsPollable: a work order that failed is not refreshed.
IsPollableWhilePlanning == Logged("executor.acknowledged") /\ status = "PLANNING"

IsPollable == Logged("executor.acknowledged")

PollRun(c) ==
    /\ calls[c].pc = "idle"
    /\ ~Logged("plan.available")
    /\ IsPollable
    /\ Becomes(c, Call("polled", payload, AckedRun, runs[AckedRun].outcome))
    /\ UNCHANGED <<storeVars, answers, runs, worldVars>>

\* ... and what it said is stored, unless another refresh stored the plan meanwhile.
\* CREATING and RUNNING are one outcome here; the code logs a change between them.
CommitRunning(c) ==
    /\ calls[c].pc = "polled" /\ calls[c].outcome = "running"
    /\ ~Logged("plan.available")
    /\ IF Logged("executor.status") THEN UNCHANGED ledger ELSE Logs("executor.status", calls[c].run)
    /\ Ends(c)
    /\ UNCHANGED <<status, payload, answers, runs, worldVars>>

CommitFailed(c) ==
    /\ calls[c].pc = "polled" /\ calls[c].outcome = "error"
    /\ ~Logged("plan.available")
    /\ IF Logged("executor.failed")
       THEN UNCHANGED <<status, ledger>>
       ELSE status' = "FAILED" /\ Logs("executor.failed", calls[c].run)
    /\ Ends(c)
    /\ UNCHANGED <<payload, answers, runs, worldVars>>

\* Mutant of PlanIsMissing: the second of two refreshes stores the plan again.
PlanIsMissingAlways == TRUE

PlanIsMissing == ~Logged("plan.available")

CommitPlan(c) ==
    /\ calls[c].pc = "polled" /\ calls[c].outcome = "finished"
    /\ PlanIsMissing
    /\ status' = "PLAN_READY"
    /\ ledger' = ledger \o <<Entry("plan.received", calls[c].run), Entry("plan.available", None)>>
    /\ Answers(c, calls[c].run)
    /\ Ends(c)
    /\ UNCHANGED <<payload, runs, worldVars>>

\* _commit_existing_plan; received and available are stored together.
FindPlan(c) ==
    /\ calls[c].pc = "polled"
    /\ Logged("plan.available")
    /\ Answers(c, LatestRun("plan.received"))
    /\ Ends(c)
    /\ UNCHANGED <<storeVars, runs, worldVars>>
-------------------------------------------------------------------------------
\* The world: the process of a call dies; a run ends; the parent is acknowledged; an
\* artifact of the bundle is purged; a refinement of this work order posts its own
\* run to this agent.
Crash(c) ==
    /\ calls[c].pc # "idle"
    /\ crashes < MaxCrashes
    /\ crashes' = crashes + 1
    /\ Ends(c)
    /\ UNCHANGED <<storeVars, answers, runs, worldVars, submissions>>

RunEnds(r) ==
    /\ runs[r].outcome = "running"
    /\ \E outcome \in Endings : runs' = [runs EXCEPT ![r].outcome = outcome]
    /\ UNCHANGED <<storeVars, calls, answers, worldVars>>

ChildPosts ==
    /\ Logged("executor.acknowledged")
    /\ Len(runs) < MaxRuns
    /\ runs' = Append(runs, [ours |-> FALSE, payload |-> None, outcome |-> "running"])
    /\ UNCHANGED <<storeVars, calls, answers, worldVars>>

ParentAcknowledged ==
    /\ parent = "waiting"
    /\ parent' = "acknowledged"
    /\ UNCHANGED <<storeVars, calls, answers, runs, bundle>>

ArtifactChanges ==
    /\ bundle = "intact"
    /\ bundle' = "changed"
    /\ UNCHANGED <<storeVars, calls, answers, runs, parent>>

Submit(c) == \E p \in Payloads : SubmitNew(c, p) \/ SubmitReplay(c, p)

CallStep(c) ==
    \/ LookUpAcknowledgement(c)
    \/ RecordBundle(c) \/ VerifyBundle(c) \/ RejectBundle(c) \/ EnsureRouted(c)
    \/ SubmitAccepted(c) \/ SubmitRaises(c) \/ SubmitRejected(c)
    \/ RecordFailure(c) \/ RecordRejection(c) \/ RecordAcknowledgement(c)

RefreshStep(c) ==
    \/ PollRun(c) \/ ReturnPlan(c)
    \/ CommitRunning(c) \/ CommitFailed(c) \/ CommitPlan(c) \/ FindPlan(c)

WorldStep ==
    \/ \E r \in DOMAIN runs : RunEnds(r)
    \/ ChildPosts \/ ParentAcknowledged \/ ArtifactChanges

PlanningNext ==
    \/ \E c \in Callers : Submit(c) /\ UNCHANGED crashes
    \/ /\ \/ \E c \in Callers : CallStep(c) \/ RefreshStep(c)
          \/ WorldStep
       /\ UNCHANGED <<submissions, crashes>>
    \/ \E c \in Callers : Crash(c)

PlanningSpec == PlanningInit /\ [][PlanningNext]_planningVars

\* A call that was made goes on, and somebody refreshes again and again.
PlanningFairness ==
    \A c \in Callers :
        /\ WF_planningVars(CallStep(c) /\ UNCHANGED <<submissions, crashes>>)
        /\ WF_planningVars(RefreshStep(c) /\ UNCHANGED <<submissions, crashes>>)

FairPlanningSpec == PlanningSpec /\ PlanningFairness
-------------------------------------------------------------------------------
\* Replays, retries and refreshes that race never log the same receipt twice (README.md:86-87:
\* they do "not duplicate the agent, plan, or ledger receipts"), except for failures, which a
\* retry may repeat, and for the status of the run, which may change.
LoggedOnce ==
    \A i, j \in DOMAIN ledger :
        /\ ledger[i].event = ledger[j].event
        /\ ledger[i].event \notin {"executor.failed", "bundle.rejected", "executor.status"}
        => i = j

\* Whoever is told of a run by an acknowledgement or a plan is told of the one that was
\* acknowledged, for what the work order stores, however many calls reached the provider
\* (_route_and_dispatch keeps the first acknowledgement and _validate_replay refuses another
\* payload).  Receipts of rejections are not meant: they hand on the executor's own words.
AnswersAgree ==
    \A a \in answers :
        /\ Logged("executor.acknowledged")
        /\ a.run = AckedRun
        /\ a.payload = payload

\* The acknowledged run was started for this work order and works on what it stores, never
\* a run that a refinement left on the same agent (_recover_idempotent_create reads the
\* agent's latest run); the plan is that run's, and it finished.
PlanIsOfOwnRun ==
    \A i \in DOMAIN ledger :
        ledger[i].event \in {"executor.acknowledged", "plan.received"} =>
            /\ ledger[i].run \in DOMAIN runs
            /\ runs[ledger[i].run].ours /\ runs[ledger[i].run].payload = payload
            /\ ledger[i].event = "plan.received" =>
                  /\ ledger[i].run = AckedRun
                  /\ runs[ledger[i].run].outcome = "finished"

\* At most one run is this work order's (docs/AWR-GT-001.md:40, "The replay does not launch
\* a second executor run").
OnePlanningRun ==
    \A i, j \in DOMAIN runs : runs[i].ours /\ runs[j].ours => i = j

\* No replay, retry or late failure starts a second planning run of a work order without a
\* parent: the id of its agent is derived from its own, and the provider refuses to create
\* it twice.  (A refinement posts to its parent's agent each time, with nothing to tell the
\* posts apart: submit_for_planning.)
OneRunWithoutParent == parent = "none" => OnePlanningRun

\* A plan once ready stays ready: no call that was still on its way, whose provider failed
\* or whose artifacts changed, takes it back (_ensure_routed and the failure branches look
\* again under the lock).  Only a rejection already on its way may: that branch does not.
PlanStaysReady ==
    [][/\ status = "PLAN_READY"
       /\ \A c \in Callers : calls[c].pc # "rejected"
       => status' = "PLAN_READY"]_planningVars

\* The plan of an acknowledged run that finished is stored in the end, whatever calls died
\* and whatever they made of the status meanwhile (refresh_planning does not look at it).
PlanArrives ==
    \A r \in RunIds :
        (/\ \E i \in DOMAIN ledger : ledger[i] = Entry("executor.acknowledged", r)
         /\ runs[r].outcome = "finished") ~> Logged("plan.available")

\* Planning is a hand-off: the job is the planning of the work order, bound by the
\* acknowledgement, told by receipts and plans.
Plan == INSTANCE HandOff WITH
    Jobs <- {"planning"}, Runs <- RunIds, Unbound <- None,
    bound <- [j \in {"planning"} |->
                 IF Logged("executor.acknowledged")
                 THEN AckedRun ELSE None],
    told <- [j \in {"planning"} |-> {a.run : a \in answers}]

\* Every behaviour of the broker's planning is one of the abstract hand-off: the run is
\* stored once and every acknowledgement and plan names it.
PlanningIsAHandOff == Plan!Spec
===============================================================================

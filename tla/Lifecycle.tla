------------------------------- MODULE Lifecycle -------------------------------
(***************************************************************************)
(* The lifecycle kernel of a work order (src/awr/lifecycle): the statuses, *)
(* the transition table, the authoritative snapshot, and the three         *)
(* functions that judge an input against them: apply_response,             *)
(* apply_broker_event and apply_decision.  Nothing here has state.  Each   *)
(* function is split into a guard (Accepts...), which is the conjunction   *)
(* of its raises, and a result (After..., ...Transition).                  *)
(*                                                                         *)
(* Abstractions.  A message id is a number.  The ids the broker makes are  *)
(* fresh: the message that leads to snapshot version v has id v, and the   *)
(* work order itself is message 1.  A packet brings its own id, a fresh    *)
(* one (again v) or any that an earlier message had: nothing here looks at *)
(* it.  A packet of another work order, with another source hash or with   *)
(* an expected_version that differs from the stored one is only ever       *)
(* refused: such inputs are left out.                                      *)
(***************************************************************************)
EXTENDS Naturals

CONSTANTS
    Sender,      \* the work order's sender: the planner, and the only decision principal
    Recipient,   \* the work order's recipient: the executor's principal
    Broker,      \* "broker:awr", the third participant
    Actors,      \* authenticated principals, participants or not
    PlanIds,     \* plan identifiers
    PlanShas,    \* plan fingerprints
    Runs,        \* provider run identifiers
    Keys,        \* idempotency keys
    Times,       \* instants at which a decision may expire
    None         \* Python's None

Terminal == {"COMPLETE", "FAILED", "CANCELLED"}

\* contracts.py WorkStatus
Statuses ==
    Terminal \cup
    {"ACCEPTED", "ROUTED", "PLANNING", "PLAN_READY", "WAITING_FOR_PLAN_APPROVAL",
     "READY_FOR_EXECUTION", "EXECUTION_DISPATCHED", "EXECUTING", "COMPLETION_READY",
     "PLANNER_REVIEWING", "REVISION_REQUIRED", "WAITING_FOR_HUMAN_REVIEW",
     "WAITING_FOR_INPUT"}

ResponseTypes ==
    {"plan.completed", "question.blocked", "execution.acknowledged",
     "execution.progress", "execution.completed", "execution.failed",
     "review.completed"}

BrokerEvents ==
    {"plan.approval_requested", "plan.execute", "completion.review",
     "implementation.refine", "question.answer"}

DecisionTypes ==
    {"approve_plan", "reject_plan", "accept_completion", "request_revision", "cancel"}

ReviewOutcomes == {"APPROVED", "REJECTED", "REVISE"}

Plans == [id : PlanIds, sha : PlanShas]

ASSUME LifecycleAssumption ==
    /\ Sender \in Actors
    /\ Times \subseteq Nat
    /\ None \notin Actors \cup {Broker} \cup Runs \cup Nat \cup Plans \cup Statuses
                   \cup ResponseTypes \cup ReviewOutcomes

Participants == {Sender, Recipient, Broker}

\* Mutant of Cancellable: the finished statuses are forgotten.
CancellableAnyStatus == Statuses \ {"ACCEPTED", "ROUTED"}

Cancellable == Statuses \ (Terminal \cup {"ACCEPTED", "ROUTED"})
-------------------------------------------------------------------------------
\* Mutant of PlanningEdges: a better plan may still replace one that is ready.
PlanningEdgesReplacingPlan ==
    {<<"PLANNING", "plan.completed", "PLAN_READY">>,
     <<"PLAN_READY", "plan.completed", "PLAN_READY">>,
     <<"PLANNING", "question.blocked", "WAITING_FOR_INPUT">>,
     <<"PLAN_READY", "plan.approval_requested", "WAITING_FOR_PLAN_APPROVAL">>,
     <<"WAITING_FOR_PLAN_APPROVAL", "approve_plan", "READY_FOR_EXECUTION">>,
     <<"WAITING_FOR_PLAN_APPROVAL", "reject_plan", "PLAN_READY">>}

\* The edges <<from, event, to>> of TRANSITION_TABLE.  Its rows for review.completed
\* and question.answer only admit the event; the operators below resolve the target.
PlanningEdges ==
    {<<"PLANNING", "plan.completed", "PLAN_READY">>,
     <<"PLANNING", "question.blocked", "WAITING_FOR_INPUT">>,
     <<"PLAN_READY", "plan.approval_requested", "WAITING_FOR_PLAN_APPROVAL">>,
     <<"WAITING_FOR_PLAN_APPROVAL", "approve_plan", "READY_FOR_EXECUTION">>,
     <<"WAITING_FOR_PLAN_APPROVAL", "reject_plan", "PLAN_READY">>}

\* Mutant of ExecutionEdges: the provider may acknowledge a run it already works on.
ExecutionEdgesReacknowledging ==
    {<<"READY_FOR_EXECUTION", "plan.execute", "EXECUTION_DISPATCHED">>,
     <<"EXECUTION_DISPATCHED", "execution.acknowledged", "EXECUTING">>,
     <<"EXECUTING", "execution.acknowledged", "EXECUTING">>,
     <<"EXECUTING", "execution.completed", "COMPLETION_READY">>}

ExecutionEdges ==
    {<<"READY_FOR_EXECUTION", "plan.execute", "EXECUTION_DISPATCHED">>,
     <<"EXECUTION_DISPATCHED", "execution.acknowledged", "EXECUTING">>,
     <<"EXECUTING", "execution.progress", "EXECUTING">>,
     <<"EXECUTING", "execution.completed", "COMPLETION_READY">>,
     <<"EXECUTING", "execution.failed", "FAILED">>,
     <<"EXECUTING", "question.blocked", "WAITING_FOR_INPUT">>}

\* Mutant of ReviewEdges: late progress is still welcome while a review waits.
ReviewEdgesWithLateProgress ==
    {<<"COMPLETION_READY", "completion.review", "PLANNER_REVIEWING">>,
     <<"WAITING_FOR_HUMAN_REVIEW", "execution.progress", "WAITING_FOR_HUMAN_REVIEW">>,
     <<"WAITING_FOR_HUMAN_REVIEW", "accept_completion", "COMPLETE">>}

ReviewEdges ==
    {<<"COMPLETION_READY", "completion.review", "PLANNER_REVIEWING">>,
     <<"WAITING_FOR_HUMAN_REVIEW", "accept_completion", "COMPLETE">>,
     <<"WAITING_FOR_HUMAN_REVIEW", "request_revision", "REVISION_REQUIRED">>,
     <<"REVISION_REQUIRED", "implementation.refine", "EXECUTION_DISPATCHED">>}

TransitionTable == PlanningEdges \cup ExecutionEdges \cup ReviewEdges

\* next_state: the table, and the family rule for cancel.
Transition(from, event, to) ==
    \/ <<from, event, to>> \in TransitionTable
    \/ event = "cancel" /\ from \in Cancellable /\ to = "CANCELLED"
-------------------------------------------------------------------------------
\* LifecycleSnapshot.  Of original_lineage only its being non-empty is ever
\* tested, and it always is; participants and decision_principals never change.
Snapshots ==
    [parent       : Nat,
     version      : Nat,
     plan         : Plans \cup {None},
     agent        : Actors \cup {None},
     run          : Runs \cup {None},
     blockedFrom  : Statuses \cup {None},
     acknowledged : BOOLEAN,
     review       : ReviewOutcomes \cup {None},
     executors    : SUBSET (Actors \cup {Recipient})]

DeriveSnapshot ==
    [parent |-> 1, version |-> 1, plan |-> None, agent |-> None, run |-> None,
     blockedFrom |-> None, acknowledged |-> FALSE, review |-> None,
     executors |-> {Recipient}]

\* A response packet; `id' is its message_id, `parent' its in_reply_to, `plan' what
\* plan.completed fingerprints, `outcome' what review.completed reports, `run' the
\* provider run a packet names.
Packets ==
    [id : Nat, type : ResponseTypes, key : Keys, parent : Nat, run : Runs \cup {None},
     plan : Plans \cup {None}, outcome : ReviewOutcomes \cup {None}]

\* A decision a human asks to record; `at' is the version at which it was stored.
Decisions ==
    [type : DecisionTypes, actor : Actors, kind : {"plan", "work_order"},
     plan : Plans \cup {None}, key : Keys, expires : Times \cup {None}, at : Nat]

DecisionIsExpired(d, now) == d.expires # None /\ d.expires <= now

\* Mutant of Approves: what kind of target the decision names is not looked at.
ApprovesAnyKind(d, plan, now) ==
    d.type = "approve_plan" /\ d.plan = plan /\ ~DecisionIsExpired(d, now)

\* One of the decisions matching_plan_approval collects.
Approves(d, plan, now) ==
    /\ d.type = "approve_plan"
    /\ d.kind = "plan"
    /\ d.plan = plan
    /\ ~DecisionIsExpired(d, now)

\* matching_plan_approval returns the last match in the order of storage.
IsMatchingPlanApproval(d, decisions, plan, now) ==
    /\ d \in decisions
    /\ Approves(d, plan, now)
    /\ \A e \in decisions : Approves(e, plan, now) => e.at <= d.at
-------------------------------------------------------------------------------
\* apply_response
RunBoundTypes == {"execution.progress", "execution.completed", "execution.failed"}

\* Mutant of AcceptsResponse: any packet of the work order is current.
AcceptsResponseToAnyParent(snap, packet, actor, decisions, now) ==
    /\ actor \in Participants
    /\ packet.type = "execution.acknowledged" =>
          \E d \in decisions : IsMatchingPlanApproval(d, decisions, snap.plan, now)
    /\ packet.type \in RunBoundTypes => snap.acknowledged /\ packet.run = snap.run

\* Mutant of AcceptsResponse: an acknowledged work order takes reports of any run.
AcceptsResponseOfAnyRun(snap, packet, actor, decisions, now) ==
    /\ actor \in Participants
    /\ packet.parent = snap.parent
    /\ packet.type = "execution.acknowledged" =>
          \E d \in decisions : IsMatchingPlanApproval(d, decisions, snap.plan, now)
    /\ packet.type \in RunBoundTypes => snap.acknowledged

AcceptsResponse(snap, packet, actor, decisions, now) ==
    /\ actor \in Participants
    /\ packet.parent = snap.parent
    /\ packet.type = "execution.acknowledged" =>
          \E d \in decisions : IsMatchingPlanApproval(d, decisions, snap.plan, now)
    /\ packet.type \in RunBoundTypes => snap.acknowledged /\ packet.run = snap.run

\* _response_target: a review's outcome picks the status, the table the rest.
ResponseTransition(from, packet, to) ==
    IF packet.type = "review.completed"
    THEN /\ from = "PLANNER_REVIEWING"
         /\ to = IF packet.outcome = "REVISE" THEN "REVISION_REQUIRED"
                                              ELSE "WAITING_FOR_HUMAN_REVIEW"
    ELSE Transition(from, packet.type, to)

AfterResponse(from, snap, packet, actor) ==
    LET acks == packet.type = "execution.acknowledged" IN
    [parent       |-> packet.id,
     version      |-> snap.version + 1,
     plan         |-> IF packet.type = "plan.completed" THEN packet.plan ELSE snap.plan,
     agent        |-> IF acks THEN actor ELSE snap.agent,
     run          |-> IF acks THEN packet.run ELSE snap.run,
     blockedFrom  |-> IF packet.type = "question.blocked" THEN from ELSE snap.blockedFrom,
     acknowledged |-> IF acks THEN TRUE ELSE snap.acknowledged,
     review       |-> IF packet.type = "review.completed" THEN packet.outcome ELSE snap.review,
     executors    |-> IF acks THEN snap.executors \cup {actor} ELSE snap.executors]
-------------------------------------------------------------------------------
\* apply_broker_event; `plan' is the fingerprint an execution intent resolved.
AcceptsBrokerEvent(snap, event, actor, plan, decisions, now) ==
    /\ actor \in Participants
    /\ event \in {"plan.execute", "implementation.refine"} =>
          /\ snap.plan # None => plan = snap.plan
          /\ \E d \in decisions : IsMatchingPlanApproval(d, decisions, plan, now)

\* question.answer restores the status the question interrupted.
BrokerTransition(from, snap, event, to) ==
    IF event = "question.answer"
    THEN /\ from = "WAITING_FOR_INPUT"
         /\ snap.blockedFrom # None
         /\ to = snap.blockedFrom
    ELSE Transition(from, event, to)

\* Mutant of AfterBrokerEvent: an answered question leaves its origin behind.
AfterBrokerEventKeepingOrigin(snap, event) ==
    [snap EXCEPT !.parent = snap.version + 1, !.version = snap.version + 1]

AfterBrokerEvent(snap, event) ==
    [snap EXCEPT !.parent = snap.version + 1,
                 !.version = snap.version + 1,
                 !.blockedFrom = IF event = "question.answer" THEN None ELSE @]
-------------------------------------------------------------------------------
\* Mutant of AcceptsDecision: only the sender decides, even when it also executed.
AcceptsDecisionOfExecutor(snap, d, now) ==
    /\ d.actor \in Participants
    /\ d.actor = Sender
    /\ ~DecisionIsExpired(d, now)
    /\ snap.blockedFrom # None => d.type \notin {"accept_completion", "request_revision"}
    /\ d.type = "approve_plan" => snap.plan # None /\ d.plan = snap.plan

\* apply_decision
AcceptsDecision(snap, d, now) ==
    /\ d.actor \in Participants
    /\ d.actor # snap.agent
    /\ d.actor \notin snap.executors
    /\ d.actor = Sender
    /\ ~DecisionIsExpired(d, now)
    /\ snap.blockedFrom # None => d.type \notin {"accept_completion", "request_revision"}
    /\ d.type = "approve_plan" => snap.plan # None /\ d.plan = snap.plan

AfterDecision(snap) == [snap EXCEPT !.version = @ + 1]
===============================================================================

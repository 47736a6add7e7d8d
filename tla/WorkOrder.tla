------------------------------- MODULE WorkOrder -------------------------------
(***************************************************************************)
(* One work order from the moment the executor acknowledged the planning   *)
(* run: the handlers of BrokerService that move it through its lifecycle.  *)
(*                                                                         *)
(* Each handler does its work inside `with store.lock_work_order(id)', one *)
(* serialised transaction over status, lifecycle snapshot, stored packets, *)
(* decisions, dispatches and ledger: one action per handler.  A call that  *)
(* is refused, or replayed and answered with its stored receipt, changes   *)
(* nothing and is a stuttering step.                                       *)
(***************************************************************************)
EXTENDS Lifecycle, Sequences, FiniteSets

CONSTANTS
    MaxVersion,    \* bound on the lifecycle version: how long a history is explored
    MaxNow,        \* bound on the clock
    MaxReusedIds   \* bound on the packets that bring the id of an earlier message

ASSUME WorkOrderAssumption == {MaxVersion, MaxNow, MaxReusedIds} \subseteq Nat

VARIABLES
    status,       \* WorkStatus of the work order
    snap,         \* its lifecycle snapshot
    responses,    \* stored response packets, each with its actor and version
    decisions,    \* stored decisions
    dispatches,   \* execution dispatch records; the index is the attempt
    now,          \* the clock decisions expire against
    planningRun,  \* the provider's planning run: "running", "finished" or "error"
    planLedger    \* "none", "captured" (plan.received and plan.available) or "failed"

lifecycleVars == <<status, snap, responses, decisions, dispatches>>
planningVars == <<planningRun, planLedger>>
vars == <<status, snap, responses, decisions, dispatches, now, planningRun, planLedger>>

\* Events whose receipt a dispatch record may carry.
IntentEvents == {"plan.execute", "implementation.refine"}

DispatchStates ==
    {"PENDING", "LEASED", "PROVIDER_ACCEPTED", "ACKNOWLEDGED",
     "RECONCILIATION_REQUIRED", "FAILED"}

StoredResponses ==
    [id : Nat, type : ResponseTypes, key : Keys, parent : Nat, run : Runs \cup {None},
     plan : Plans \cup {None}, outcome : ReviewOutcomes \cup {None},
     actor : Actors, at : Nat]

\* The durable record of one attempt to hand the plan to the provider.
Dispatches ==
    [event : IntentEvents, plan : Plans, approval : Nat, at : Nat,
     state : DispatchStates, attemptCount : Nat,
     leaseOwner : Actors \cup {None},
     run : Runs \cup {None}, receipt : ResponseTypes \cup IntentEvents]

TypeOK ==
    /\ status \in Statuses
    /\ snap \in Snapshots
    /\ responses \subseteq StoredResponses
    /\ decisions \subseteq Decisions
    /\ dispatches \in Seq(Dispatches)
    /\ now \in Nat
    /\ planningRun \in {"running", "finished", "error"}
    /\ planLedger \in {"none", "captured", "failed"}

\* _route_and_dispatch stored the acknowledgement and set PLANNING; no snapshot
\* is stored yet, so the first handler derives one.
Init ==
    /\ status = "PLANNING"
    /\ snap = DeriveSnapshot
    /\ responses = {}
    /\ decisions = {}
    /\ dispatches = <<>>
    /\ now = 0
    /\ planningRun = "running"
    /\ planLedger = "none"
-------------------------------------------------------------------------------
\* Mutant of ResponseKeyIsFree: a key is only spent for the message it answered.
ResponseKeyIsFreeForParent(actor, packet) ==
    \A r \in responses :
        <<r.actor, r.type, r.key, r.parent>> # <<actor, packet.type, packet.key, packet.parent>>

\* submit_response: a key already bound to a packet answers or conflicts, and
\* changes nothing; otherwise the packet is applied and stored with its effect.
ResponseKeyIsFree(actor, packet) ==
    \A r \in responses : <<r.actor, r.type, r.key>> # <<actor, packet.type, packet.key>>

\* The id is the primary key of the packet table.  An insert that meets it again fails,
\* and takes the whole transaction with it.
PacketIdIsFree(packet) == \A r \in responses : r.id # packet.id

StoredResponse(packet, actor) ==
    [id |-> packet.id, type |-> packet.type, key |-> packet.key, parent |-> packet.parent,
     run |-> packet.run, plan |-> packet.plan, outcome |-> packet.outcome,
     actor |-> actor, at |-> snap.version + 1]

SubmitResponse(actor, packet) ==
    /\ snap.version < MaxVersion
    /\ ResponseKeyIsFree(actor, packet)
    /\ AcceptsResponse(snap, packet, actor, decisions, now)
    /\ PacketIdIsFree(packet)
    /\ \E to \in Statuses :
          /\ ResponseTransition(status, packet, to)
          /\ status' = to
    /\ snap' = AfterResponse(status, snap, packet, actor)
    /\ responses' = responses \cup {StoredResponse(packet, actor)}
    /\ UNCHANGED <<decisions, dispatches>>

\* record_decision; a replay is refused or answered exactly as above.
DecisionKeyIsFree(d) ==
    \A e \in decisions : <<e.actor, e.type, e.key>> # <<d.actor, d.type, d.key>>

RecordDecision(d) ==
    /\ snap.version < MaxVersion
    /\ DecisionKeyIsFree(d)
    /\ AcceptsDecision(snap, d, now)
    /\ \E to \in Statuses :
          /\ Transition(status, d.type, to)
          /\ status' = to
    /\ snap' = AfterDecision(snap)
    /\ decisions' = decisions \cup {[d EXCEPT !.at = snap.version + 1]}
    /\ UNCHANGED <<responses, dispatches>>

\* _apply_broker: request_plan_approval, request_completion_review, answer_question.
ApplyBroker(event, actor) ==
    /\ snap.version < MaxVersion
    /\ AcceptsBrokerEvent(snap, event, actor, None, decisions, now)
    /\ \E to \in Statuses :
          /\ BrokerTransition(status, snap, event, to)
          /\ status' = to
    /\ snap' = AfterBrokerEvent(snap, event)
    /\ UNCHANGED <<responses, decisions, dispatches>>

RequestPlanApproval(actor) == ApplyBroker("plan.approval_requested", actor)
RequestCompletionReview(actor) == ApplyBroker("completion.review", actor)
AnswerQuestion(actor) == ApplyBroker("question.answer", actor)

\* _commit_execution_intent.  An undelivered dispatch of a work order that is
\* still EXECUTION_DISPATCHED answers the call, so nothing happens; otherwise the
\* event is applied and the dispatch record stored in the same transaction.
HasPendingDispatch ==
    /\ status = "EXECUTION_DISPATCHED"
    /\ \E n \in DOMAIN dispatches : dispatches[n].state \notin {"ACKNOWLEDGED", "FAILED"}

\* Mutant of NewDispatch: the record is stored before its receipt is known.
NewDispatchWithoutReceipt(event, plan, approval) ==
    [event |-> event, plan |-> plan, approval |-> approval.at, at |-> snap.version + 1,
     state |-> "PENDING", attemptCount |-> 0, leaseOwner |-> None,
     run |-> None, receipt |-> None]

NewDispatch(event, plan, approval) ==
    [event |-> event, plan |-> plan, approval |-> approval.at, at |-> snap.version + 1,
     state |-> "PENDING", attemptCount |-> 0, leaseOwner |-> None,
     run |-> None, receipt |-> event]

CommitExecutionIntent(event, actor, requested) ==
    LET plan == IF requested # None THEN requested ELSE snap.plan
    IN  /\ snap.version < MaxVersion
        /\ ~HasPendingDispatch
        /\ plan # None
        /\ AcceptsBrokerEvent(snap, event, actor, plan, decisions, now)
        /\ \E to \in Statuses :
              /\ BrokerTransition(status, snap, event, to)
              /\ status' = to
        /\ snap' = AfterBrokerEvent(snap, event)
        /\ \E d \in decisions :
              /\ IsMatchingPlanApproval(d, decisions, plan, now)
              /\ dispatches' = Append(dispatches, NewDispatch(event, plan, d))
        /\ UNCHANGED <<responses, decisions>>
-------------------------------------------------------------------------------
\* refresh_planning polls the planning run outside the lock and commits what it
\* saw.  The answer of a terminal run never changes, and the transaction looks at
\* nothing the poll read, so poll and commit are one action.
RefreshPlanningFinished ==
    /\ planLedger # "captured"
    /\ planningRun = "finished"
    /\ status' = "PLAN_READY"
    /\ planLedger' = "captured"
    /\ UNCHANGED <<snap, responses, decisions, dispatches, planningRun>>

RefreshPlanningFailed ==
    /\ planLedger = "none"
    /\ planningRun = "error"
    /\ status' = "FAILED"
    /\ planLedger' = "failed"
    /\ UNCHANGED <<snap, responses, decisions, dispatches, planningRun>>

\* The provider ends the planning run.
PlanningRunEnds ==
    /\ planningRun = "running"
    /\ planningRun' \in {"finished", "error"}
    /\ UNCHANGED <<lifecycleVars, planLedger>>

Tick ==
    /\ now < MaxNow
    /\ now' = now + 1
    /\ UNCHANGED <<lifecycleVars, planningVars>>
-------------------------------------------------------------------------------
\* What a client can send.  A packet answers the current parent or, stale, the work
\* order itself; fields are told apart only for the types whose handling reads them.
\* Its id is fresh, or one that some message had before: message_id is the client's.
ReusedIds == {r \in responses : r.id # r.at}

MessageIds ==
    {snap.version + 1} \cup
    {id \in 1..snap.version : Cardinality(ReusedIds) < MaxReusedIds}

InputsOf(types, runIds, plans, outcomes) ==
    [id : {0}, type : types, key : Keys, parent : {DeriveSnapshot.parent, snap.parent},
     run : runIds, plan : plans, outcome : outcomes]

PacketInputs ==
    InputsOf({"plan.completed"}, {None}, Plans, {None})
    \cup InputsOf({"review.completed"}, {None}, {None}, ReviewOutcomes)
    \cup InputsOf(RunBoundTypes \cup {"execution.acknowledged"}, Runs, {None}, {None})
    \cup InputsOf({"question.blocked"}, Runs \cup {None}, {None}, {None})

DecisionsOf(types, kinds, plans) ==
    [type : types, actor : Actors, kind : kinds, plan : plans, key : Keys,
     expires : Times \cup {None}, at : {0}]

DecisionInputs ==
    DecisionsOf({"approve_plan"}, {"plan", "work_order"}, Plans \cup {None})
    \cup DecisionsOf(DecisionTypes \ {"approve_plan"}, {"work_order"}, {None})

HandlerStep ==
    \/ \E actor \in Actors, p \in PacketInputs, id \in MessageIds :
          SubmitResponse(actor, [p EXCEPT !.id = id])
    \/ \E d \in DecisionInputs : RecordDecision(d)
    \/ \E actor \in Actors : RequestPlanApproval(actor)
    \/ \E actor \in Actors : RequestCompletionReview(actor)
    \/ \E actor \in Actors : AnswerQuestion(actor)
    \/ \E event \in IntentEvents, actor \in Actors, requested \in Plans \cup {None} :
          CommitExecutionIntent(event, actor, requested)

\* The response lifecycle alone: the plan arrives as a plan.completed packet and
\* nobody polls the planning run.
LifecycleNext ==
    \/ HandlerStep /\ UNCHANGED <<now, planningVars>>
    \/ Tick

\* Everything the broker offers for a work order.
Next ==
    \/ LifecycleNext
    \/ PlanningRunEnds /\ UNCHANGED now
    \/ RefreshPlanningFinished /\ UNCHANGED now
    \/ RefreshPlanningFailed /\ UNCHANGED now

LifecycleSpec == Init /\ [][LifecycleNext]_vars
Spec == Init /\ [][Next]_vars
-------------------------------------------------------------------------------
\* Statuses a work order only has after a plan was approved and handed over.
ExecutionStatuses ==
    {"EXECUTION_DISPATCHED", "EXECUTING", "COMPLETION_READY", "PLANNER_REVIEWING",
     "REVISION_REQUIRED", "WAITING_FOR_HUMAN_REVIEW", "COMPLETE"}

\* The sender approved exactly this plan, by id and by fingerprint, no later than
\* version v.
PlanApprovedBy(plan, v) ==
    \E d \in decisions :
        /\ d.type = "approve_plan" /\ d.actor = Sender /\ d.kind = "plan"
        /\ d.plan = plan
        /\ d.at <= v

\* Nothing is ever handed to the provider, and no execution status is ever shown,
\* without an earlier stored approval by the sender of the very plan that is stored
\* (apply_broker_event, matching_plan_approval), however the two planning paths,
\* revisions and expiring approvals interleave.
ApprovedBeforeExecution ==
    /\ \A n \in DOMAIN dispatches :
          /\ dispatches[n].plan = snap.plan
          /\ PlanApprovedBy(snap.plan, dispatches[n].at - 1)
    /\ status \in ExecutionStatuses => dispatches # <<>>

\* A completed work order was accepted by the sender, after the last packet about
\* it, and the one who accepted never acted as its executor (apply_decision,
\* _assert_decision_principal).
SeparationOfDuties ==
    status = "COMPLETE" =>
        \E d \in decisions :
            /\ d.type = "accept_completion"
            /\ d.actor = Sender
            /\ d.actor \notin snap.executors
            /\ \A r \in responses : r.at < d.at

\* The packets of a work order form one line, whatever two reporters interleave: the
\* same message is answered again only after a packet, the first answer or a later one,
\* was stored under that very message's id (apply_response moves current_parent_id to
\* the id the packet brings).
LineageIsLinear ==
    \A r, s \in responses : r # s /\ r.parent = s.parent /\ r.at <= s.at =>
        \E q \in responses : q.id = r.parent /\ r.at <= q.at /\ q.at < s.at

\* A work order waits for a human only over a review of the latest completion: a
\* review of an earlier attempt never opens the gate after a revision.
ReviewIsOfLatestCompletion ==
    status \in {"WAITING_FOR_HUMAN_REVIEW", "COMPLETE"} =>
        \E r \in responses :
            /\ r.type = "review.completed" /\ r.outcome # "REVISE"
            /\ \E c \in responses : c.type = "execution.completed" /\ c.at < r.at
            /\ \A s \in responses : s.type # "review.completed" => s.at < r.at

\* An idempotency key takes effect at most once per caller and type, for packets and
\* for decisions (get_response_by_idempotency, list_decisions).
OneEffectPerKey ==
    /\ \A r, s \in responses :
          <<r.actor, r.type, r.key>> = <<s.actor, s.type, s.key>> => r = s
    /\ \A d, e \in decisions :
          <<d.actor, d.type, d.key>> = <<e.actor, e.type, e.key>> => d = e

\* Once stored, the plan id and fingerprint never change: what was approved is what
\* every later intent, refinement and acknowledgement is checked against.
PlanFingerprintIsFrozen == [][snap.plan # None => snap'.plan = snap.plan]_vars
-------------------------------------------------------------------------------
\* Properties of the response lifecycle alone (LifecycleSpec).

Acknowledgements == {r \in responses : r.type = "execution.acknowledged"}

\* Every attempt is acknowledged once before the next one begins: work under way or
\* reviewed always belongs to the newest dispatch, and none was skipped.
OneAcknowledgementPerDispatch ==
    LET acks == Cardinality(Acknowledgements) IN
    /\ status = "EXECUTION_DISPATCHED" => acks = Len(dispatches) - 1
    /\ status \in ExecutionStatuses \ {"EXECUTION_DISPATCHED"} => acks = Len(dispatches)
    /\ acks <= Len(dispatches)

\* A blocking question is open exactly while the work order waits for its answer,
\* and remembers a status the answer can return to (blocked_from).
BlockedOriginIsCoherent ==
    /\ status = "WAITING_FOR_INPUT" => snap.blockedFrom \in {"PLANNING", "EXECUTING"}
    /\ snap.blockedFrom # None => status \in {"WAITING_FOR_INPUT", "CANCELLED"}
    /\ status = "WAITING_FOR_INPUT" /\ snap.blockedFrom = "EXECUTING" => snap.acknowledged

\* The run a packet names is the one the newest acknowledgement before it bound.
IsOfBoundRun(r) ==
    \E a \in Acknowledgements :
        /\ a.run = r.run /\ a.at < r.at
        /\ \A b \in Acknowledgements : b.at < r.at => b.at <= a.at

\* A completion, failure or progress report names the bound run: no packet of an
\* earlier attempt is taken for this one (the run check of apply_response).
ReportsAreOfBoundRun == \A r \in responses : r.type \in RunBoundTypes => IsOfBoundRun(r)

\* A finished work order is left as it is: no packet, decision, intent or answer
\* changes anything once it is COMPLETE, FAILED or CANCELLED.
TerminalIsFinal == [][(status \in Terminal) => UNCHANGED lifecycleVars]_vars
-------------------------------------------------------------------------------
\* What docs/AWR-LC-01B.md says and the code does not do.

\* A blocking question asked while work is under way names the bound run ("Parent,
\* source, bound run", docs/AWR-LC-01B.md:42).
QuestionsAreOfBoundRun ==
    \A r \in responses :
        /\ r.type = "question.blocked"
        /\ \E a \in Acknowledgements : a.at < r.at
        => IsOfBoundRun(r)

\* The moves of the table of allowed edges, the answer to a question among them.
IsAllowedEdge(from, to) ==
    \/ \E event \in ResponseTypes \cup BrokerEvents \cup DecisionTypes :
          Transition(from, event, to)
    \/ from = "PLANNER_REVIEWING" /\ to \in {"WAITING_FOR_HUMAN_REVIEW", "REVISION_REQUIRED"}
    \/ from = "WAITING_FOR_INPUT" /\ to = snap.blockedFrom

\* Once planning is over, a work order only moves along the allowed edges
\* (docs/AWR-LC-01B.md:25-49).
OnlyAllowedEdges ==
    [][status' = status \/ status = "PLANNING" \/ IsAllowedEdge(status, status')]_vars
===============================================================================

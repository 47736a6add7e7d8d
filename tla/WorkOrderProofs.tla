---------------------------- MODULE WorkOrderProofs ----------------------------
(***************************************************************************)
(* Theorems about WorkOrder: its type invariant, and the safety properties *)
(* that the approval gate, the separation of duties and the lineage check  *)
(* are there for, for any actors, plans, runs, keys and bounds.            *)
(***************************************************************************)
EXTENDS WorkOrder, TLAPS

\* What a row of the transition table can be: the facts about it that the proofs use.
LEMMA TransitionFacts ==
    ASSUME NEW from, NEW event, NEW to, Transition(from, event, to)
    PROVE  /\ from \in Statuses \ Terminal /\ to \in Statuses
           /\ to # "PLANNING"
           /\ event = "plan.completed" => from = "PLANNING" /\ to = "PLAN_READY"
           /\ event = "question.blocked" =>
                 from \in {"PLANNING", "EXECUTING"} /\ to = "WAITING_FOR_INPUT"
           /\ to = "WAITING_FOR_INPUT" => event = "question.blocked"
           /\ to = "COMPLETE" => event = "accept_completion"
           /\ to \in ExecutionStatuses => from \in ExecutionStatuses \/ event \in IntentEvents
  BY DEF Transition, TransitionTable, PlanningEdges, ExecutionEdges, ReviewEdges, Cancellable,
         Statuses, Terminal, ExecutionStatuses, IntentEvents

\* The same for the packets a status admits.
LEMMA ResponseFacts ==
    ASSUME NEW from, NEW packet, NEW to, packet.type \in ResponseTypes,
           ResponseTransition(from, packet, to)
    PROVE  /\ from \in Statuses \ Terminal /\ to \in Statuses
           /\ to \notin {"PLANNING", "COMPLETE"}
           /\ packet.type = "plan.completed" => from = "PLANNING" /\ to = "PLAN_READY"
           /\ packet.type = "question.blocked" =>
                 from \in {"PLANNING", "EXECUTING"} /\ to = "WAITING_FOR_INPUT"
           /\ to = "WAITING_FOR_INPUT" => packet.type = "question.blocked"
           /\ to \in ExecutionStatuses => from \in ExecutionStatuses
  <1>1. CASE packet.type = "review.completed"
    BY <1>1 DEF ResponseTransition, Statuses, Terminal, ExecutionStatuses
  <1>2. CASE packet.type # "review.completed"
    <2>1. Transition(from, packet.type, to)
      BY <1>2 DEF ResponseTransition
    <2> QED
      BY <2>1, TransitionFacts DEF ResponseTypes, IntentEvents
  <1> QED
    BY <1>1, <1>2
-------------------------------------------------------------------------------
\* A packet a client can send: its id is fresh or an earlier one, and a plan has a
\* fingerprint.
IsClientPacket(p) ==
    /\ p \in Packets
    /\ p.id \in 1..(snap.version + 1)
    /\ p.type = "plan.completed" => p.plan # None

\* The inputs of the handlers have the types the handlers store.
LEMMA InputTypes ==
    ASSUME TypeOK
    PROVE  /\ \A p \in PacketInputs, id \in MessageIds : IsClientPacket([p EXCEPT !.id = id])
           /\ DecisionInputs \subseteq Decisions
  <1>1. DecisionInputs \subseteq Decisions
    <2>1. None \in Plans \cup {None}
      OBVIOUS
    <2> QED
      BY <2>1 DEF DecisionInputs, DecisionsOf, Decisions, DecisionTypes
  <1>2. ASSUME NEW p \in PacketInputs, NEW id \in MessageIds
        PROVE  IsClientPacket([p EXCEPT !.id = id])
    <2>1. snap.version \in Nat /\ snap.parent \in Nat
      BY DEF TypeOK, Snapshots
    <2>2. id \in 1..(snap.version + 1) /\ id \in Nat
      BY <2>1 DEF MessageIds
    <2>3. PacketInputs \subseteq Packets
      BY <2>1 DEF PacketInputs, InputsOf, Packets, DeriveSnapshot, ResponseTypes, RunBoundTypes
    <2>4. p.type = "plan.completed" => p.plan \in Plans
      BY DEF PacketInputs, InputsOf, RunBoundTypes
    <2>5. None \notin Plans
      BY LifecycleAssumption
    <2>6. [p EXCEPT !.id = id] \in Packets
      BY <2>2, <2>3 DEF Packets
    <2>7. /\ [p EXCEPT !.id = id].id = id
          /\ [p EXCEPT !.id = id].type = p.type /\ [p EXCEPT !.id = id].plan = p.plan
      BY <2>3 DEF Packets
    <2> QED
      BY <2>2, <2>4, <2>5, <2>6, <2>7 DEF IsClientPacket
  <1> QED
    BY <1>1, <1>2

\* So a packet that is submitted is one a client can send.
LEMMA SubmittedPacket ==
    ASSUME TypeOK,
           \E actor \in Actors, p \in PacketInputs, id \in MessageIds :
              SubmitResponse(actor, [p EXCEPT !.id = id])
    PROVE  \E actor \in Actors, p \in Packets : IsClientPacket(p) /\ SubmitResponse(actor, p)
  BY InputTypes DEF IsClientPacket

LEMMA SnapshotTypes ==
    ASSUME TypeOK
    PROVE  /\ \A actor \in Actors, p \in Packets :
                 AfterResponse(status, snap, p, actor) \in Snapshots
           /\ \A event \in BrokerEvents : AfterBrokerEvent(snap, event) \in Snapshots
           /\ AfterDecision(snap) \in Snapshots
  <1>1. ASSUME NEW actor \in Actors, NEW p \in Packets
        PROVE  AfterResponse(status, snap, p, actor) \in Snapshots
    <2> DEFINE after == AfterResponse(status, snap, p, actor)
    <2>1. snap.version + 1 \in Nat /\ status \in Statuses \cup {None}
      BY DEF TypeOK, Snapshots
    <2>2. after.plan \in Plans \cup {None} /\ after.run \in Runs \cup {None}
      BY DEF TypeOK, Snapshots, Packets, AfterResponse
    <2>3. after.agent \in Actors \cup {None} /\ after.acknowledged \in BOOLEAN
      BY DEF TypeOK, Snapshots, AfterResponse
    <2>4. after.review \in ReviewOutcomes \cup {None}
      BY DEF TypeOK, Snapshots, Packets, AfterResponse
    <2>5. after.executors \in SUBSET (Actors \cup {Recipient})
      BY DEF TypeOK, Snapshots, AfterResponse
    <2>6. after.blockedFrom \in Statuses \cup {None}
      BY <2>1 DEF TypeOK, Snapshots, AfterResponse
    <2> QED
      BY <2>1, <2>2, <2>3, <2>4, <2>5, <2>6 DEF AfterResponse, Snapshots, Packets
  <1>2. ASSUME NEW event \in BrokerEvents
        PROVE  AfterBrokerEvent(snap, event) \in Snapshots
    <2> DEFINE v == snap.version + 1
               origin == IF event = "question.answer" THEN None ELSE snap.blockedFrom
               moved == [snap EXCEPT !.parent = v]
               numbered == [moved EXCEPT !.version = v]
    <2>1. v \in Nat /\ origin \in Statuses \cup {None}
      BY DEF TypeOK, Snapshots
    <2>2. moved \in Snapshots
      BY <2>1 DEF TypeOK, Snapshots
    <2>3. numbered \in Snapshots
      BY <2>1, <2>2 DEF Snapshots
    <2>4. [numbered EXCEPT !.blockedFrom = origin] \in Snapshots
      BY <2>1, <2>3 DEF Snapshots
    <2>5. AfterBrokerEvent(snap, event) = [numbered EXCEPT !.blockedFrom = origin]
      BY DEF TypeOK, Snapshots, AfterBrokerEvent
    <2> QED
      BY <2>4, <2>5
  <1>3. AfterDecision(snap) \in Snapshots
    BY DEF TypeOK, Snapshots, AfterDecision
  <1> QED
    BY <1>1, <1>2, <1>3

\* A new dispatch record is a dispatch record.
LEMMA DispatchType ==
    ASSUME NEW event \in IntentEvents, NEW plan \in Plans, NEW approval \in Decisions,
           snap \in Snapshots
    PROVE  NewDispatch(event, plan, approval) \in Dispatches
  BY DEF NewDispatch, Dispatches, DispatchStates, Decisions, Snapshots

\* Each handler keeps the types of the work order, whatever packet, decision or event
\* of the right shape it is given.
LEMMA SubmitTypes ==
    ASSUME TypeOK, NEW actor \in Actors, NEW p \in Packets, SubmitResponse(actor, p),
           UNCHANGED <<now, planningVars>>
    PROVE  TypeOK'
  <1>1. StoredResponse(p, actor) \in StoredResponses
    BY DEF StoredResponse, StoredResponses, Packets, TypeOK, Snapshots
  <1>2. snap' \in Snapshots
    BY SnapshotTypes DEF SubmitResponse
  <1> QED
    BY <1>1, <1>2 DEF SubmitResponse, TypeOK, planningVars

LEMMA DecideTypes ==
    ASSUME TypeOK, NEW d \in Decisions, RecordDecision(d), UNCHANGED <<now, planningVars>>
    PROVE  TypeOK'
  <1>1. [d EXCEPT !.at = snap.version + 1] \in Decisions
    BY DEF Decisions, TypeOK, Snapshots
  <1>2. snap' \in Snapshots
    BY SnapshotTypes DEF RecordDecision
  <1> QED
    BY <1>1, <1>2 DEF RecordDecision, TypeOK, planningVars

LEMMA BrokerTypes ==
    ASSUME TypeOK, NEW actor \in Actors, NEW event \in BrokerEvents, ApplyBroker(event, actor),
           UNCHANGED <<now, planningVars>>
    PROVE  TypeOK'
  BY SnapshotTypes DEF ApplyBroker, TypeOK, planningVars

LEMMA IntentTypes ==
    ASSUME TypeOK, NEW event \in IntentEvents, NEW actor,
           NEW requested \in Plans \cup {None},
           CommitExecutionIntent(event, actor, requested),
           UNCHANGED <<now, planningVars>>
    PROVE  TypeOK'
  <1> DEFINE plan == IF requested # None THEN requested ELSE snap.plan
  <1>1. PICK d \in decisions : dispatches' = Append(dispatches, NewDispatch(event, plan, d))
    BY DEF CommitExecutionIntent
  <1>2. plan \in Plans
    BY DEF CommitExecutionIntent, TypeOK, Snapshots
  <1>3. NewDispatch(event, plan, d) \in Dispatches
    BY <1>2, DispatchType DEF TypeOK
  <1>4. dispatches' \in Seq(Dispatches)
    BY <1>1, <1>3 DEF TypeOK
  <1>5. snap' \in Snapshots
    BY SnapshotTypes DEF CommitExecutionIntent, IntentEvents, BrokerEvents
  <1> QED
    BY <1>4, <1>5 DEF CommitExecutionIntent, TypeOK, planningVars

\* Each variable stays in its set (the records the stores hold have the shape the
\* service reads back), whatever handler runs next.
THEOREM TypeCorrectness == Spec => []TypeOK
  <1>1. Init => TypeOK
    BY DEF Init, TypeOK, DeriveSnapshot, Snapshots, Statuses
  <1>2. TypeOK /\ [Next]_vars => TypeOK'
    <2> SUFFICES ASSUME TypeOK, [Next]_vars
                 PROVE  TypeOK'
      OBVIOUS
    <2>1. CASE HandlerStep /\ UNCHANGED <<now, planningVars>>
      BY <2>1, InputTypes, SubmittedPacket, SubmitTypes, DecideTypes, BrokerTypes, IntentTypes
         DEF HandlerStep, BrokerEvents, RequestPlanApproval, RequestCompletionReview,
             AnswerQuestion
    <2>2. CASE RefreshPlanningFinished /\ UNCHANGED now
      BY <2>2 DEF RefreshPlanningFinished, TypeOK, Statuses
    <2>3. CASE RefreshPlanningFailed /\ UNCHANGED now
      BY <2>3 DEF RefreshPlanningFailed, TypeOK, Statuses, Terminal
    <2>4. CASE PlanningRunEnds /\ UNCHANGED now
      BY <2>4 DEF PlanningRunEnds, TypeOK, lifecycleVars
    <2>5. CASE Tick
      BY <2>5 DEF Tick, TypeOK, lifecycleVars, planningVars
    <2>6. CASE UNCHANGED vars
      BY <2>6 DEF vars, TypeOK
    <2> QED
      BY <2>1, <2>2, <2>3, <2>4, <2>5, <2>6 DEF Next, LifecycleNext
  <1> QED
    BY <1>1, <1>2, PTL DEF Spec
-------------------------------------------------------------------------------
(***************************************************************************)
(* The inductive invariant.  ApprovedBeforeExecution is not inductive on   *)
(* its own: a plan that is fingerprinted after a dispatch, or an answer    *)
(* that returns to an execution status nobody dispatched, would break it.  *)
(***************************************************************************)

\* No plan is stored while planning may still deliver one, and an approval names the
\* plan that is stored.
PlanIsSettled ==
    /\ status = "PLANNING" => snap.plan = None
    /\ status = "WAITING_FOR_INPUT" /\ snap.blockedFrom = "PLANNING" => snap.plan = None
    /\ \A d \in decisions : d.type = "approve_plan" => snap.plan # None /\ d.plan = snap.plan

\* A question interrupted planning, or work that had been dispatched.
OriginWasReached ==
    /\ snap.blockedFrom \in {None, "PLANNING", "EXECUTING"}
    /\ snap.blockedFrom = "EXECUTING" => dispatches # <<>>

\* Everything stored is older than the snapshot, ids and parents too, so the next
\* message the broker makes is nobody's parent yet.
StoredIsOlder ==
    /\ snap.parent <= snap.version
    /\ \A d \in decisions : d.at <= snap.version /\ d.actor = Sender
    /\ \A r \in responses :
          r.at <= snap.version /\ r.id <= snap.version /\ r.parent < r.at

\* If the message the next packet must answer has been answered before, a packet came
\* back to its id since.
ParentWasBroughtBack ==
    \A r \in responses : r.parent = snap.parent =>
        \E q \in responses : q.id = r.parent /\ r.at <= q.at

\* No two packets share an id: it is the key they are stored under.
IdsAreUnique == \A r, s \in responses : r.id = s.id => r = s

Inductive ==
    /\ PlanIsSettled
    /\ OriginWasReached
    /\ StoredIsOlder
    /\ ParentWasBroughtBack
    /\ IdsAreUnique
    /\ ApprovedBeforeExecution
    /\ SeparationOfDuties
    /\ LineageIsLinear
    /\ OneEffectPerKey

\* A message the broker makes is nobody's parent yet.
LEMMA NextMessageIsUnanswered ==
    ASSUME TypeOK, Inductive
    PROVE  \A r \in responses : r.parent # snap.version + 1
  <1>1. snap.version \in Nat /\ \A r \in responses : r.at \in Nat /\ r.parent \in Nat
    BY DEF TypeOK, Snapshots, StoredResponses
  <1> QED
    BY <1>1 DEF Inductive, StoredIsOlder

LEMMA InitInductive == Init => Inductive
  <1> SUFFICES ASSUME Init PROVE Inductive
    OBVIOUS
  <1>1. None \notin Statuses
    BY LifecycleAssumption
  <1>2. DOMAIN dispatches = {}
    BY DEF Init
  <1> QED
    BY <1>1, <1>2 DEF Init, Inductive, PlanIsSettled, OriginWasReached, StoredIsOlder,
       ParentWasBroughtBack, IdsAreUnique, DeriveSnapshot, ApprovedBeforeExecution, SeparationOfDuties, LineageIsLinear, OneEffectPerKey,
       ExecutionStatuses, Statuses, Terminal

\* A packet: it extends the line of parents, and only a plan for a work order that
\* is being planned changes the stored plan.
LEMMA SubmitPreserves ==
    ASSUME TypeOK, Inductive, NEW actor \in Actors, NEW p, IsClientPacket(p),
           SubmitResponse(actor, p)
    PROVE  Inductive'
  <1> DEFINE new == StoredResponse(p, actor)
  <1>1. PICK to \in Statuses : ResponseTransition(status, p, to) /\ status' = to
    BY DEF SubmitResponse
  <1>2. p \in Packets /\ (p.type = "plan.completed" => p.plan # None)
    BY DEF IsClientPacket
  <1>3. /\ status \notin Terminal
        /\ to \notin {"PLANNING", "COMPLETE"}
        /\ p.type = "plan.completed" => status = "PLANNING" /\ to = "PLAN_READY"
        /\ p.type = "question.blocked" => status \in {"PLANNING", "EXECUTING"}
        /\ to = "WAITING_FOR_INPUT" => p.type = "question.blocked"
        /\ to \in ExecutionStatuses => status \in ExecutionStatuses
    BY <1>1, <1>2, ResponseFacts DEF Packets
  <1>4. /\ snap'.plan = IF p.type = "plan.completed" THEN p.plan ELSE snap.plan
        /\ snap'.blockedFrom = IF p.type = "question.blocked" THEN status ELSE snap.blockedFrom
        /\ snap'.parent = p.id
        /\ snap'.version = snap.version + 1
        /\ decisions' = decisions /\ dispatches' = dispatches
        /\ p.parent = snap.parent
    BY DEF SubmitResponse, AfterResponse, AcceptsResponse
  <1>5. /\ responses' = responses \cup {new}
        /\ new.id = p.id /\ new.parent = p.parent /\ new.at = snap.version + 1
        /\ \A r \in responses : r.id # new.id
    BY DEF SubmitResponse, StoredResponse, PacketIdIsFree
  <1>6. snap.version \in Nat /\ snap.parent \in Nat /\ snap.parent <= snap.version
    BY DEF TypeOK, Snapshots, Inductive, StoredIsOlder
  <1>7. /\ \A r \in responses : r.at \in Nat /\ r.id \in Nat /\ r.parent \in Nat
        /\ p.id \in Nat /\ p.id <= snap.version + 1
    BY <1>6 DEF TypeOK, StoredResponses, IsClientPacket
  <1>8. \A d \in decisions : d.at \in Nat
    BY DEF TypeOK, Decisions
  <1>9. p.type = "plan.completed" => snap.plan = None /\ DOMAIN dispatches = {}
    BY <1>3 DEF Inductive, PlanIsSettled, ApprovedBeforeExecution, PlanApprovedBy
  <1>10. PlanIsSettled'
    BY <1>1, <1>2, <1>3, <1>4, <1>9 DEF Inductive, PlanIsSettled
  <1>11. OriginWasReached'
    BY <1>3, <1>4 DEF Inductive, OriginWasReached, ApprovedBeforeExecution, ExecutionStatuses
  <1>12. StoredIsOlder'
    <2> HIDE DEF new
    <2> QED
      BY <1>4, <1>5, <1>6, <1>7, <1>8 DEF Inductive, StoredIsOlder
  <1>13. ApprovedBeforeExecution'
    BY <1>1, <1>3, <1>4, <1>9 DEF Inductive, ApprovedBeforeExecution, PlanApprovedBy
  <1>14. SeparationOfDuties'
    BY <1>1, <1>3 DEF SeparationOfDuties
  <1>15. LineageIsLinear'
    <2> SUFFICES ASSUME NEW r \in responses', NEW s \in responses',
                        r # s, r.parent = s.parent, r.at <= s.at
                 PROVE  \E q \in responses' : q.id = r.parent /\ r.at <= q.at /\ q.at < s.at
      BY DEF LineageIsLinear
    <2> HIDE DEF new
    <2>1. r \in responses
      BY <1>5, <1>6, <1>7 DEF Inductive, StoredIsOlder
    <2>2. CASE s \in responses
      BY <1>5, <2>1, <2>2 DEF Inductive, LineageIsLinear
    <2>3. CASE s = new
      <3>1. PICK q \in responses : q.id = r.parent /\ r.at <= q.at
        BY <1>4, <1>5, <2>1, <2>3 DEF Inductive, ParentWasBroughtBack
      <3>2. q.at < s.at
        BY <1>5, <1>6, <1>7, <2>3 DEF Inductive, StoredIsOlder
      <3> QED
        BY <1>5, <3>1, <3>2
    <2> QED
      BY <1>5, <2>2, <2>3
  <1>16. OneEffectPerKey'
    BY <1>4, <1>5 DEF Inductive, OneEffectPerKey, SubmitResponse, ResponseKeyIsFree, StoredResponse
  <1>17. ParentWasBroughtBack'
    <2> HIDE DEF new
    <2> SUFFICES ASSUME NEW r \in responses', r.parent = new.id
                 PROVE  new.id = r.parent /\ r.at <= new.at
      BY <1>4, <1>5 DEF ParentWasBroughtBack
    <2> QED
      BY <1>5, <1>6, <1>7 DEF Inductive, StoredIsOlder
  <1>18. IdsAreUnique'
    <2> HIDE DEF new
    <2> QED
      BY <1>5 DEF Inductive, IdsAreUnique
  <1> QED
    BY <1>10, <1>11, <1>12, <1>13, <1>14, <1>15, <1>16, <1>17, <1>18 DEF Inductive

\* A decision: an approval names the stored plan, and acceptance comes from a sender
\* who executed nothing, after every packet.
LEMMA DecidePreserves ==
    ASSUME TypeOK, Inductive, NEW d \in Decisions, RecordDecision(d)
    PROVE  Inductive'
  <1> DEFINE stored == [d EXCEPT !.at = snap.version + 1]
  <1>1. PICK to \in Statuses : Transition(status, d.type, to) /\ status' = to
    BY DEF RecordDecision
  <1>2. d \in Decisions /\ d.type \in DecisionTypes
    BY DEF Decisions
  <1>3. /\ to \notin {"PLANNING", "WAITING_FOR_INPUT"}
        /\ to = "COMPLETE" => d.type = "accept_completion"
        /\ to \in ExecutionStatuses => status \in ExecutionStatuses
    BY <1>1, <1>2, TransitionFacts DEF DecisionTypes, IntentEvents
  <1>4. /\ snap' = [snap EXCEPT !.version = @ + 1]
        /\ decisions' = decisions \cup {stored}
        /\ responses' = responses /\ dispatches' = dispatches
        /\ d.actor = Sender /\ d.actor \notin snap.executors
        /\ d.type = "approve_plan" => snap.plan # None /\ d.plan = snap.plan
    BY DEF RecordDecision, AfterDecision, AcceptsDecision
  <1>5. /\ snap'.plan = snap.plan /\ snap'.parent = snap.parent
        /\ snap'.blockedFrom = snap.blockedFrom /\ snap'.executors = snap.executors
        /\ snap'.version = snap.version + 1
    BY <1>4 DEF TypeOK, Snapshots
  <1>6. /\ stored.type = d.type /\ stored.actor = d.actor /\ stored.plan = d.plan
        /\ stored.key = d.key /\ stored.at = snap.version + 1
    BY <1>2 DEF Decisions
  <1>7. snap.version \in Nat /\ snap.parent \in Nat
    BY DEF TypeOK, Snapshots
  <1>8. \A r \in responses : r.at \in Nat /\ r.id \in Nat /\ r.parent \in Nat
    BY DEF TypeOK, StoredResponses
  <1>9. \A e \in decisions : e.at \in Nat
    BY DEF TypeOK, Decisions
  <1>10. PlanIsSettled'
    BY <1>1, <1>3, <1>4, <1>5, <1>6 DEF Inductive, PlanIsSettled
  <1>11. OriginWasReached'
    BY <1>4, <1>5 DEF Inductive, OriginWasReached
  <1>12. StoredIsOlder'
    <2>1. \A e \in decisions' : e.at <= snap.version + 1 /\ e.actor = Sender
      <3>1. \A e \in decisions : e.at <= snap.version + 1 /\ e.actor = Sender
        BY <1>7, <1>9 DEF Inductive, StoredIsOlder
      <3>2. stored.at <= snap.version + 1 /\ stored.actor = Sender
        BY <1>4, <1>6, <1>7
      <3> QED
        BY <1>4, <3>1, <3>2
    <2>2. \A r \in responses : /\ r.at <= snap.version + 1 /\ r.id <= snap.version + 1
                                /\ r.parent < r.at
      BY <1>7, <1>8 DEF Inductive, StoredIsOlder
    <2>3. snap.parent <= snap.version + 1
      BY <1>7 DEF Inductive, StoredIsOlder
    <2> QED
      BY <1>4, <1>5, <2>1, <2>2, <2>3 DEF StoredIsOlder
  <1>13. ApprovedBeforeExecution'
    BY <1>1, <1>3, <1>4, <1>5 DEF Inductive, ApprovedBeforeExecution, PlanApprovedBy
  <1>14. SeparationOfDuties'
    <2> SUFFICES ASSUME status' = "COMPLETE"
                 PROVE  /\ stored \in decisions'
                        /\ stored.type = "accept_completion"
                        /\ stored.actor = Sender
                        /\ stored.actor \notin snap'.executors
                        /\ \A r \in responses' : r.at < stored.at
      BY DEF SeparationOfDuties
    <2>1. \A r \in responses' : r.at < stored.at
      BY <1>4, <1>6, <1>7, <1>8 DEF Inductive, StoredIsOlder
    <2> QED
      BY <2>1, <1>1, <1>3, <1>4, <1>5, <1>6
  <1>15. LineageIsLinear' /\ ParentWasBroughtBack' /\ IdsAreUnique'
    BY <1>4, <1>5 DEF Inductive, LineageIsLinear, ParentWasBroughtBack, IdsAreUnique
  <1>16. OneEffectPerKey'
    <2>1. /\ \A r, s \in responses : <<r.actor, r.type, r.key>> = <<s.actor, s.type, s.key>> => r = s
          /\ \A e, f \in decisions : <<e.actor, e.type, e.key>> = <<f.actor, f.type, f.key>> => e = f
      BY DEF Inductive, OneEffectPerKey
    <2>2. \A e \in decisions : <<e.actor, e.type, e.key>> # <<stored.actor, stored.type, stored.key>>
      BY <1>6 DEF RecordDecision, DecisionKeyIsFree
    <2> HIDE DEF stored
    <2> QED
      BY <1>4, <2>1, <2>2 DEF OneEffectPerKey
  <1> QED
    BY <1>10, <1>11, <1>12, <1>13, <1>14, <1>15, <1>16 DEF Inductive

\* What a broker event leaves behind in the snapshot.
LEMMA BrokerSnapshot ==
    ASSUME TypeOK, NEW event
    PROVE  LET after == AfterBrokerEvent(snap, event) IN
           /\ after.plan = snap.plan /\ after.executors = snap.executors
           /\ after.parent = snap.version + 1 /\ after.version = snap.version + 1
           /\ after.blockedFrom = IF event = "question.answer" THEN None ELSE snap.blockedFrom
  BY DEF AfterBrokerEvent, TypeOK, Snapshots

\* A broker event: an answer only returns to a status the work order was in.
LEMMA BrokerPreserves ==
    ASSUME TypeOK, Inductive, NEW actor \in Actors,
           NEW event \in {"plan.approval_requested", "completion.review", "question.answer"},
           ApplyBroker(event, actor)
    PROVE  Inductive'
  <1>1. PICK to \in Statuses : BrokerTransition(status, snap, event, to) /\ status' = to
    BY DEF ApplyBroker
  <1>2. /\ to \notin {"WAITING_FOR_INPUT", "COMPLETE"}
        /\ to = "PLANNING" => snap.plan = None
        /\ to \in ExecutionStatuses => dispatches # <<>>
    <2>1. CASE event = "question.answer"
      <3>1. /\ status = "WAITING_FOR_INPUT" /\ to = snap.blockedFrom
            /\ to \in {"PLANNING", "EXECUTING"}
        BY <1>1, <2>1 DEF BrokerTransition, Inductive, OriginWasReached
      <3> QED
        BY <3>1 DEF Inductive, OriginWasReached, PlanIsSettled, ExecutionStatuses
    <2>2. CASE event # "question.answer"
      <3>1. Transition(status, event, to)
        BY <1>1, <2>2 DEF BrokerTransition
      <3> QED
        BY <3>1, TransitionFacts DEF IntentEvents, Inductive, ApprovedBeforeExecution
    <2> QED
      BY <2>1, <2>2
  <1>3. /\ snap'.plan = snap.plan
        /\ snap'.parent = snap.version + 1 /\ snap'.version = snap.version + 1
        /\ snap'.blockedFrom \in {None, snap.blockedFrom}
        /\ decisions' = decisions /\ responses' = responses /\ dispatches' = dispatches
    BY BrokerSnapshot DEF ApplyBroker
  <1>4. None \notin Statuses
    BY LifecycleAssumption
  <1>5. PlanIsSettled'
    BY <1>1, <1>2, <1>3 DEF Inductive, PlanIsSettled
  <1>6. OriginWasReached'
    BY <1>3, <1>4 DEF Inductive, OriginWasReached, Statuses
  <1>7. StoredIsOlder'
    BY <1>3 DEF Inductive, StoredIsOlder, TypeOK, Snapshots, Decisions, StoredResponses
  <1>8. ApprovedBeforeExecution'
    BY <1>1, <1>2, <1>3 DEF Inductive, ApprovedBeforeExecution, PlanApprovedBy
  <1>9. SeparationOfDuties'
    BY <1>1, <1>2 DEF SeparationOfDuties
  <1>10. LineageIsLinear' /\ IdsAreUnique' /\ OneEffectPerKey'
    BY <1>3 DEF Inductive, LineageIsLinear, IdsAreUnique, OneEffectPerKey
  <1>11. ParentWasBroughtBack'
    BY <1>3, NextMessageIsUnanswered DEF ParentWasBroughtBack
  <1> QED
    BY <1>5, <1>6, <1>7, <1>8, <1>9, <1>10, <1>11 DEF Inductive

\* An execution intent: whatever plan the caller names, the approval it needs exists
\* only for the stored plan, so that is the plan the dispatch carries.
LEMMA IntentPreserves ==
    ASSUME TypeOK, Inductive, NEW event \in IntentEvents, NEW actor,
           NEW requested \in Plans \cup {None},
           CommitExecutionIntent(event, actor, requested)
    PROVE  Inductive'
  <1> DEFINE plan == IF requested # None THEN requested ELSE snap.plan
  <1>1. PICK d \in decisions :
           /\ IsMatchingPlanApproval(d, decisions, plan, now)
           /\ dispatches' = Append(dispatches, NewDispatch(event, plan, d))
    BY DEF CommitExecutionIntent
  <1>2. PICK to \in Statuses : Transition(status, event, to) /\ status' = to
    BY DEF CommitExecutionIntent, BrokerTransition, IntentEvents
  <1>3. to \notin {"PLANNING", "WAITING_FOR_INPUT", "COMPLETE"}
    BY <1>2, TransitionFacts DEF IntentEvents
  <1>4. /\ d.type = "approve_plan" /\ d.kind = "plan" /\ d.plan = plan
        /\ d.actor = Sender /\ plan = snap.plan
        /\ d.at \in Nat /\ d.at <= snap.version
    BY <1>1 DEF IsMatchingPlanApproval, Approves, Inductive, PlanIsSettled, StoredIsOlder,
       TypeOK, Decisions
  <1>5. /\ snap'.plan = snap.plan
        /\ snap'.parent = snap.version + 1 /\ snap'.version = snap.version + 1
        /\ snap'.blockedFrom = snap.blockedFrom
        /\ decisions' = decisions /\ responses' = responses
    BY BrokerSnapshot DEF CommitExecutionIntent, IntentEvents
  <1>6. /\ DOMAIN dispatches' = DOMAIN dispatches \cup {Len(dispatches) + 1}
        /\ \A n \in DOMAIN dispatches : dispatches'[n] = dispatches[n]
        /\ dispatches'[Len(dispatches) + 1] = NewDispatch(event, plan, d)
        /\ dispatches' # <<>>
    BY <1>1 DEF TypeOK
  <1>7. NewDispatch(event, plan, d).plan = plan /\ NewDispatch(event, plan, d).at = snap.version + 1
    BY DEF NewDispatch
  <1>8. PlanIsSettled'
    BY <1>2, <1>3, <1>5 DEF Inductive, PlanIsSettled
  <1>9. OriginWasReached'
    BY <1>5, <1>6 DEF Inductive, OriginWasReached
  <1>10. StoredIsOlder'
    BY <1>5 DEF Inductive, StoredIsOlder, TypeOK, Snapshots, Decisions, StoredResponses
  <1>11. ApprovedBeforeExecution'
    <2>1. ASSUME NEW n \in DOMAIN dispatches'
          PROVE  /\ dispatches'[n].plan = snap'.plan
                 /\ PlanApprovedBy(snap.plan, dispatches'[n].at - 1)
      <3>1. CASE n \in DOMAIN dispatches
        BY <1>5, <1>6, <3>1 DEF Inductive, ApprovedBeforeExecution
      <3>2. CASE n = Len(dispatches) + 1
        <4>1. dispatches'[n].at - 1 = snap.version
          <5>1. dispatches'[n].at = snap.version + 1
            BY <1>6, <1>7, <3>2
          <5>2. snap.version \in Nat
            BY DEF TypeOK, Snapshots
          <5> QED
            BY <5>1, <5>2
        <4> QED
          BY <1>4, <1>5, <1>6, <1>7, <3>2, <4>1 DEF PlanApprovedBy
      <3> QED
        BY <1>6, <3>1, <3>2
    <2> QED
      BY <1>5, <1>6, <2>1 DEF ApprovedBeforeExecution, PlanApprovedBy
  <1>12. SeparationOfDuties'
    BY <1>2, <1>3 DEF SeparationOfDuties
  <1>13. LineageIsLinear' /\ IdsAreUnique' /\ OneEffectPerKey'
    BY <1>5 DEF Inductive, LineageIsLinear, IdsAreUnique, OneEffectPerKey
  <1>14. ParentWasBroughtBack'
    BY <1>5, NextMessageIsUnanswered DEF ParentWasBroughtBack
  <1> QED
    BY <1>8, <1>9, <1>10, <1>11, <1>12, <1>13, <1>14 DEF Inductive

\* The planning poll: it leaves the lifecycle's records alone and only moves a work
\* order to statuses nothing is promised about.
LEMMA PollPreserves ==
    ASSUME TypeOK, Inductive, status' \in {"PLAN_READY", "FAILED"},
           UNCHANGED <<snap, responses, decisions, dispatches>>
    PROVE  Inductive'
  BY DEF Inductive, PlanIsSettled, OriginWasReached, StoredIsOlder, ParentWasBroughtBack,
         IdsAreUnique, ApprovedBeforeExecution, PlanApprovedBy, SeparationOfDuties, LineageIsLinear, OneEffectPerKey, ExecutionStatuses

LEMMA RestPreserves ==
    ASSUME TypeOK, Inductive, UNCHANGED lifecycleVars
    PROVE  Inductive'
  BY DEF Inductive, PlanIsSettled, OriginWasReached, StoredIsOlder, ParentWasBroughtBack,
         IdsAreUnique, ApprovedBeforeExecution, PlanApprovedBy, SeparationOfDuties, LineageIsLinear, OneEffectPerKey, lifecycleVars

THEOREM InductiveInvariant == Spec => []Inductive
  <1>1. TypeOK /\ Inductive /\ [Next]_vars => Inductive'
    <2> SUFFICES ASSUME TypeOK, Inductive, [Next]_vars
                 PROVE  Inductive'
      OBVIOUS
    <2>1. CASE \E actor \in Actors, p \in PacketInputs, id \in MessageIds :
                  SubmitResponse(actor, [p EXCEPT !.id = id])
      BY <2>1, SubmittedPacket, SubmitPreserves
    <2>2. CASE \E d \in DecisionInputs : RecordDecision(d)
      BY <2>2, InputTypes, DecidePreserves
    <2>3. CASE \E actor \in Actors : \/ RequestPlanApproval(actor)
                                     \/ RequestCompletionReview(actor)
                                     \/ AnswerQuestion(actor)
      BY <2>3, BrokerPreserves DEF RequestPlanApproval, RequestCompletionReview, AnswerQuestion
    <2>4. CASE \E event \in IntentEvents, actor \in Actors, requested \in Plans \cup {None} :
                  CommitExecutionIntent(event, actor, requested)
      BY <2>4, IntentPreserves
    <2>5. CASE RefreshPlanningFinished \/ RefreshPlanningFailed
      BY <2>5, PollPreserves DEF RefreshPlanningFinished, RefreshPlanningFailed
    <2>6. CASE PlanningRunEnds \/ Tick \/ UNCHANGED vars
      BY <2>6, RestPreserves DEF PlanningRunEnds, Tick, vars, lifecycleVars
    <2> QED
      BY <2>1, <2>2, <2>3, <2>4, <2>5, <2>6 DEF Next, LifecycleNext, HandlerStep
  <1> QED
    BY <1>1, InitInductive, TypeCorrectness, PTL DEF Spec
-------------------------------------------------------------------------------
\* No dispatch and no execution status without an earlier approval by the sender of
\* the stored plan (apply_broker_event, matching_plan_approval).
THEOREM ApprovalGate == Spec => []ApprovedBeforeExecution
  BY InductiveInvariant, PTL DEF Inductive

\* A completed work order was accepted, after its last packet, by a sender who never
\* acted as its executor (_assert_decision_principal).
THEOREM DutiesSeparated == Spec => []SeparationOfDuties
  BY InductiveInvariant, PTL DEF Inductive

\* A message is answered again only after a packet came back to its id (the lineage
\* check of apply_response), whatever ids clients choose.
THEOREM LineageNeverForks == Spec => []LineageIsLinear
  BY InductiveInvariant, PTL DEF Inductive

\* The packet table takes an id once, so a message is answered at most twice.
AnsweredAtMostTwice ==
    \A r, s, t \in responses :
        r.parent = s.parent /\ s.parent = t.parent => r = s \/ s = t \/ r = t

\* Where every packet brings a fresh id, as those the broker makes do, it is answered
\* at most once.
AnsweredOnceIfFresh ==
    (\A r \in responses : r.id = r.at) => \A r, s \in responses : r.parent = s.parent => r = s

\* No message has three answers, and none has two if no packet reuses an id
\* (put_response_packet, apply_response).
THEOREM AnswersAreFew == Spec => [](AnsweredAtMostTwice /\ AnsweredOnceIfFresh)
  <1>1. ASSUME TypeOK, Inductive, NEW r \in responses, NEW s \in responses,
               r # s, r.parent = s.parent
        PROVE  \E q \in responses :
                  /\ q.id = r.parent
                  /\ \/ r.at <= q.at /\ q.at < s.at
                     \/ s.at <= q.at /\ q.at < r.at
    <2>1. r.at \in Nat /\ s.at \in Nat
      BY <1>1 DEF TypeOK, StoredResponses
    <2>2. ASSUME NEW a \in responses, NEW b \in responses, a # b, a.parent = b.parent,
                 a.at <= b.at
          PROVE  \E q \in responses : q.id = a.parent /\ a.at <= q.at /\ q.at < b.at
      BY <1>1, <2>2 DEF Inductive, LineageIsLinear
    <2>3. CASE r.at <= s.at
      <3>1. PICK q \in responses : q.id = r.parent /\ r.at <= q.at /\ q.at < s.at
        BY <1>1, <2>2, <2>3
      <3> QED
        BY <3>1
    <2>4. CASE s.at <= r.at
      <3>1. PICK q \in responses : q.id = s.parent /\ s.at <= q.at /\ q.at < r.at
        BY <1>1, <2>2, <2>4
      <3> QED
        BY <1>1, <3>1
    <2> QED
      BY <2>1, <2>3, <2>4
  <1>2. TypeOK /\ Inductive => AnsweredAtMostTwice
    <2> SUFFICES ASSUME TypeOK, Inductive, NEW r \in responses, NEW s \in responses,
                        NEW t \in responses, r.parent = s.parent, s.parent = t.parent,
                        r # s, s # t, r # t
                 PROVE  FALSE
      BY DEF AnsweredAtMostTwice
    <2>1. PICK q1 \in responses :
             /\ q1.id = r.parent
             /\ \/ r.at <= q1.at /\ q1.at < s.at
                \/ s.at <= q1.at /\ q1.at < r.at
      BY <1>1
    <2>2. PICK q2 \in responses :
             /\ q2.id = r.parent
             /\ \/ s.at <= q2.at /\ q2.at < t.at
                \/ t.at <= q2.at /\ q2.at < s.at
      BY <1>1
    <2>3. PICK q3 \in responses :
             /\ q3.id = r.parent
             /\ \/ r.at <= q3.at /\ q3.at < t.at
                \/ t.at <= q3.at /\ q3.at < r.at
      BY <1>1
    <2>4. q1 = q2 /\ q2 = q3
      BY <2>1, <2>2, <2>3 DEF Inductive, IdsAreUnique
    <2>5. {r.at, s.at, t.at, q1.at} \subseteq Nat
      BY DEF TypeOK, StoredResponses
    <2> QED
      BY <2>1, <2>2, <2>3, <2>4, <2>5
  <1>3. TypeOK /\ Inductive => AnsweredOnceIfFresh
    <2> SUFFICES ASSUME TypeOK, Inductive, \A r \in responses : r.id = r.at,
                        NEW r \in responses, NEW s \in responses,
                        r # s, r.parent = s.parent
                 PROVE  FALSE
      BY DEF AnsweredOnceIfFresh
    <2>1. PICK q \in responses :
             /\ q.id = r.parent
             /\ \/ r.at <= q.at /\ q.at < s.at
                \/ s.at <= q.at /\ q.at < r.at
      BY <1>1
    <2> QED
      BY <2>1 DEF Inductive, StoredIsOlder, TypeOK, StoredResponses
  <1> QED
    BY <1>2, <1>3, InductiveInvariant, TypeCorrectness, PTL

\* A key takes effect once per caller and type (submit_response, record_decision).
THEOREM KeysActOnce == Spec => []OneEffectPerKey
  BY InductiveInvariant, PTL DEF Inductive

\* No handler replaces a stored plan: only a plan.completed packet stores one, and no
\* status that admits it comes back.
LEMMA HandlerKeepsPlan ==
    ASSUME TypeOK, Inductive, HandlerStep, snap.plan # None
    PROVE  snap'.plan = snap.plan
  <1>1. ASSUME NEW actor \in Actors, NEW p \in Packets, SubmitResponse(actor, p)
        PROVE  snap'.plan = snap.plan
    <2>1. p.type # "plan.completed"
      BY <1>1, ResponseFacts DEF SubmitResponse, Packets, Inductive, PlanIsSettled
    <2> QED
      BY <1>1, <2>1 DEF SubmitResponse, AfterResponse
  <1>2. ASSUME NEW d \in DecisionInputs, RecordDecision(d)
        PROVE  snap'.plan = snap.plan
    BY <1>2 DEF RecordDecision, AfterDecision, TypeOK, Snapshots
  <1>3. ASSUME NEW actor \in Actors, NEW event, ApplyBroker(event, actor)
        PROVE  snap'.plan = snap.plan
    BY <1>3, BrokerSnapshot DEF ApplyBroker
  <1>4. ASSUME NEW event, NEW actor \in Actors, NEW requested,
               CommitExecutionIntent(event, actor, requested)
        PROVE  snap'.plan = snap.plan
    BY <1>4, BrokerSnapshot DEF CommitExecutionIntent
  <1> QED
    BY <1>1, <1>2, <1>3, <1>4, SubmittedPacket
       DEF HandlerStep, RequestPlanApproval, RequestCompletionReview, AnswerQuestion

\* Once stored, the plan id and fingerprint never change, whatever the planning poll
\* does to the status.
THEOREM PlanIsFrozen == Spec => PlanFingerprintIsFrozen
  <1>1. TypeOK /\ Inductive /\ [Next]_vars => [snap.plan # None => snap'.plan = snap.plan]_vars
    <2> SUFFICES ASSUME TypeOK, Inductive, Next, snap.plan # None
                 PROVE  snap'.plan = snap.plan
      BY DEF vars
    <2>1. CASE HandlerStep
      BY <2>1, HandlerKeepsPlan
    <2>2. CASE UNCHANGED snap
      BY <2>2
    <2> QED
      BY <2>1, <2>2 DEF Next, LifecycleNext, Tick, lifecycleVars, RefreshPlanningFinished,
         RefreshPlanningFailed, PlanningRunEnds
  <1> QED
    BY <1>1, TypeCorrectness, InductiveInvariant, PTL DEF Spec, PlanFingerprintIsFrozen
===============================================================================

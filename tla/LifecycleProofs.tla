---------------------------- MODULE LifecycleProofs ----------------------------
(***************************************************************************)
(* Theorems about the response lifecycle alone (LifecycleSpec): attempts,  *)
(* bound runs, blocking questions, reviews and terminal statuses, for any  *)
(* actors, plans, runs, keys and bounds.  They are stated without the      *)
(* planning poll, which sets the status whatever the lifecycle says.       *)
(***************************************************************************)
EXTENDS WorkOrderProofs, FiniteSetTheorems

\* The statuses before a dispatch can exist, and those in which one is worked on.
BeforeDispatch == {"PLANNING", "PLAN_READY", "WAITING_FOR_PLAN_APPROVAL", "READY_FOR_EXECUTION"}
UnderWay == ExecutionStatuses \ {"EXECUTION_DISPATCHED"}

\* The same for a work order that waits for an answer, by the status it came from.
IsBeforeDispatch ==
    \/ status \in BeforeDispatch
    \/ status = "WAITING_FOR_INPUT" /\ snap.blockedFrom = "PLANNING"

IsUnderWay ==
    \/ status \in UnderWay
    \/ status = "WAITING_FOR_INPUT" /\ snap.blockedFrom = "EXECUTING"

\* The number of acknowledgements tells how far the newest dispatch has come.
AttemptsAreCounted ==
    /\ IsFiniteSet(responses)
    /\ IsBeforeDispatch => dispatches = <<>>
    /\ status = "EXECUTION_DISPATCHED" => Cardinality(Acknowledgements) = Len(dispatches) - 1
    /\ IsUnderWay => Cardinality(Acknowledgements) = Len(dispatches)
    /\ Cardinality(Acknowledgements) <= Len(dispatches)

\* The snapshot's run is the one the newest acknowledgement named.
RunIsBound ==
    /\ IsUnderWay => snap.acknowledged
    /\ snap.acknowledged =>
          \E a \in Acknowledgements :
              a.run = snap.run /\ \A b \in Acknowledgements : b.at <= a.at

\* Whatever is about to be reviewed was reported as completed.
CompletionIsStored ==
    status \in {"COMPLETION_READY", "PLANNER_REVIEWING"} =>
        \E c \in responses : c.type = "execution.completed"

LifecycleInductive ==
    /\ AttemptsAreCounted
    /\ RunIsBound
    /\ CompletionIsStored
    /\ BlockedOriginIsCoherent
    /\ ReportsAreOfBoundRun
    /\ ReviewIsOfLatestCompletion

LEMMA InitLifecycle == Init => LifecycleInductive
  <1> SUFFICES ASSUME Init PROVE LifecycleInductive
    OBVIOUS
  <1>1. responses = {} /\ Acknowledgements = {} /\ IsFiniteSet(responses)
    BY FS_EmptySet DEF Init, Acknowledgements
  <1>2. Cardinality(Acknowledgements) = 0 /\ Len(dispatches) = 0
    BY <1>1, FS_EmptySet DEF Init
  <1>3. status = "PLANNING" /\ snap.blockedFrom = None /\ snap.acknowledged = FALSE
    BY DEF Init, DeriveSnapshot
  <1> QED
    BY <1>1, <1>2, <1>3 DEF Init, LifecycleInductive, AttemptsAreCounted, RunIsBound, CompletionIsStored,
       BlockedOriginIsCoherent, ReportsAreOfBoundRun, ReviewIsOfLatestCompletion, IsUnderWay,
       UnderWay, ExecutionStatuses
-------------------------------------------------------------------------------
\* How an edge of the table moves a work order between the two groups of statuses.
LEMMA EdgeFacts ==
    ASSUME NEW from, NEW event, NEW to, Transition(from, event, to)
    PROVE  /\ from = "WAITING_FOR_INPUT" => event = "cancel"
           /\ event = "cancel" => to = "CANCELLED"
           /\ event = "execution.failed" => from = "EXECUTING" /\ to = "FAILED"
           /\ event = "execution.acknowledged" => from = "EXECUTION_DISPATCHED" /\ to = "EXECUTING"
           /\ event = "execution.completed" => from = "EXECUTING" /\ to = "COMPLETION_READY"
           /\ event = "plan.execute" =>
                 from = "READY_FOR_EXECUTION" /\ to = "EXECUTION_DISPATCHED"
           /\ event = "implementation.refine" =>
                 from = "REVISION_REQUIRED" /\ to = "EXECUTION_DISPATCHED"
           /\ event \notin IntentEvents \cup
                 {"cancel", "execution.failed", "execution.acknowledged", "question.blocked"} =>
                 \/ from \in BeforeDispatch /\ to \in BeforeDispatch
                 \/ from \in UnderWay /\ to \in UnderWay
           /\ to = "COMPLETION_READY" => event = "execution.completed"
           /\ to = "PLANNER_REVIEWING" => from = "COMPLETION_READY" /\ event = "completion.review"
           /\ to # "WAITING_FOR_HUMAN_REVIEW"
           /\ to = "COMPLETE" => from = "WAITING_FOR_HUMAN_REVIEW"
           /\ from = "WAITING_FOR_HUMAN_REVIEW" => event \in DecisionTypes
  BY DEF Transition, TransitionTable, PlanningEdges, ExecutionEdges, ReviewEdges, Cancellable,
         Statuses, Terminal, BeforeDispatch, UnderWay, ExecutionStatuses, IntentEvents, DecisionTypes

\* A step that stores no packet and no dispatch, does not touch the run, and leaves
\* the work order in its group (or stops it) keeps the invariant.
LEMMA QuietHandler ==
    ASSUME LifecycleInductive,
           UNCHANGED <<responses, dispatches>>,
           snap'.acknowledged = snap.acknowledged, snap'.run = snap.run,
           status' # "EXECUTION_DISPATCHED",
           IsBeforeDispatch' => IsBeforeDispatch, IsUnderWay' => IsUnderWay,
           status' # "COMPLETION_READY",
           status' = "PLANNER_REVIEWING" => status = "COMPLETION_READY",
           status' \in {"WAITING_FOR_HUMAN_REVIEW", "COMPLETE"} =>
              status = "WAITING_FOR_HUMAN_REVIEW",
           BlockedOriginIsCoherent'
    PROVE  LifecycleInductive'
  <1>1. Acknowledgements' = Acknowledgements
    BY DEF Acknowledgements
  <1>2. AttemptsAreCounted'
    BY <1>1 DEF LifecycleInductive, AttemptsAreCounted
  <1>3. RunIsBound'
    BY <1>1 DEF LifecycleInductive, RunIsBound
  <1>4. CompletionIsStored'
    BY DEF LifecycleInductive, CompletionIsStored
  <1>5. ReportsAreOfBoundRun'
    BY <1>1 DEF LifecycleInductive, ReportsAreOfBoundRun, IsOfBoundRun
  <1>6. ReviewIsOfLatestCompletion'
    BY DEF LifecycleInductive, ReviewIsOfLatestCompletion
  <1> QED
    BY <1>2, <1>3, <1>4, <1>5, <1>6 DEF LifecycleInductive

\* A decision stores no packet and no dispatch, and moves within a group or cancels.
LEMMA DecideKeeps ==
    ASSUME TypeOK, LifecycleInductive, NEW d \in Decisions, RecordDecision(d)
    PROVE  LifecycleInductive'
  <1>1. PICK to \in Statuses : Transition(status, d.type, to) /\ status' = to
    BY DEF RecordDecision
  <1>2. /\ snap'.acknowledged = snap.acknowledged /\ snap'.run = snap.run
        /\ snap'.blockedFrom = snap.blockedFrom
    BY DEF RecordDecision, AfterDecision, TypeOK, Snapshots
  <1>3. d.type \in DecisionTypes
    BY DEF Decisions
  <1>4. \/ status \in BeforeDispatch /\ to \in BeforeDispatch
        \/ status \in UnderWay /\ to \in UnderWay
        \/ to = "CANCELLED"
    BY <1>1, <1>3, EdgeFacts DEF DecisionTypes, IntentEvents
  <1>5. /\ to \notin {"EXECUTION_DISPATCHED", "WAITING_FOR_INPUT", "COMPLETION_READY",
                      "WAITING_FOR_HUMAN_REVIEW"}
        /\ to = "PLANNER_REVIEWING" => status = "COMPLETION_READY"
        /\ to = "COMPLETE" => status = "WAITING_FOR_HUMAN_REVIEW"
        /\ status = "WAITING_FOR_INPUT" => to = "CANCELLED"
    BY <1>1, <1>3, <1>4, EdgeFacts, TransitionFacts
       DEF DecisionTypes, BeforeDispatch, UnderWay, ExecutionStatuses
  <1>6. (IsBeforeDispatch' => IsBeforeDispatch) /\ (IsUnderWay' => IsUnderWay)
    BY <1>1, <1>4, <1>5
       DEF IsBeforeDispatch, IsUnderWay, BeforeDispatch, UnderWay, ExecutionStatuses
  <1>7. BlockedOriginIsCoherent'
    BY <1>1, <1>2, <1>4, <1>5 DEF LifecycleInductive, BlockedOriginIsCoherent, BeforeDispatch, UnderWay,
       ExecutionStatuses
  <1> QED
    BY <1>1, <1>2, <1>5, <1>6, <1>7, QuietHandler DEF RecordDecision

\* A broker event: an answer returns to the group its question came from.
LEMMA BrokerKeeps ==
    ASSUME TypeOK, LifecycleInductive, NEW actor \in Actors,
           NEW event \in {"plan.approval_requested", "completion.review", "question.answer"},
           ApplyBroker(event, actor)
    PROVE  LifecycleInductive'
  <1>1. PICK to \in Statuses : BrokerTransition(status, snap, event, to) /\ status' = to
    BY DEF ApplyBroker
  <1>2. /\ snap'.acknowledged = snap.acknowledged /\ snap'.run = snap.run
        /\ snap'.blockedFrom = IF event = "question.answer" THEN None ELSE snap.blockedFrom
    BY DEF ApplyBroker, AfterBrokerEvent, TypeOK, Snapshots
  <1>3. None \notin Statuses
    BY LifecycleAssumption
  <1>4. CASE event = "question.answer"
    <2>1. /\ status = "WAITING_FOR_INPUT" /\ to = snap.blockedFrom
          /\ to \in {"PLANNING", "EXECUTING"} /\ snap'.blockedFrom = None
      BY <1>1, <1>2, <1>4 DEF BrokerTransition, LifecycleInductive, BlockedOriginIsCoherent
    <2>2. BlockedOriginIsCoherent'
      BY <1>1, <2>1 DEF BlockedOriginIsCoherent
    <2>3. (IsBeforeDispatch' => IsBeforeDispatch) /\ (IsUnderWay' => IsUnderWay)
      BY <1>1, <2>1
         DEF IsBeforeDispatch, IsUnderWay, BeforeDispatch, UnderWay, ExecutionStatuses
    <2> QED
      BY <1>1, <1>2, <2>1, <2>2, <2>3, QuietHandler DEF ApplyBroker
  <1>5. CASE event # "question.answer"
    <2>1. Transition(status, event, to) /\ snap'.blockedFrom = snap.blockedFrom
      BY <1>1, <1>2, <1>5 DEF BrokerTransition
    <2>2. /\ \/ status \in BeforeDispatch /\ to \in BeforeDispatch
             \/ status \in UnderWay /\ to \in UnderWay
          /\ to = "PLANNER_REVIEWING" => status = "COMPLETION_READY"
          /\ to \notin {"COMPLETION_READY", "WAITING_FOR_HUMAN_REVIEW", "COMPLETE"}
      BY <1>5, <2>1, EdgeFacts DEF IntentEvents, DecisionTypes
    <2>3. BlockedOriginIsCoherent'
      BY <1>1, <2>1, <2>2 DEF LifecycleInductive, BlockedOriginIsCoherent, BeforeDispatch, UnderWay,
         ExecutionStatuses
    <2>4. /\ IsBeforeDispatch' => IsBeforeDispatch
          /\ IsUnderWay' => IsUnderWay
          /\ to # "EXECUTION_DISPATCHED"
      BY <1>1, <2>2
         DEF IsBeforeDispatch, IsUnderWay, BeforeDispatch, UnderWay, ExecutionStatuses
    <2> QED
      BY <1>1, <1>2, <2>2, <2>3, <2>4, QuietHandler DEF ApplyBroker
  <1> QED
    BY <1>4, <1>5

\* An intent: every earlier attempt was acknowledged, so the new one is the only one
\* that is not.
LEMMA IntentKeeps ==
    ASSUME TypeOK, LifecycleInductive, NEW event \in IntentEvents, NEW actor,
           NEW requested \in Plans \cup {None},
           CommitExecutionIntent(event, actor, requested)
    PROVE  LifecycleInductive'
  <1>1. PICK to \in Statuses : Transition(status, event, to) /\ status' = to
    BY DEF CommitExecutionIntent, BrokerTransition, IntentEvents
  <1>2. to = "EXECUTION_DISPATCHED" /\ status \in {"READY_FOR_EXECUTION", "REVISION_REQUIRED"}
    BY <1>1, EdgeFacts DEF IntentEvents
  <1>3. /\ responses' = responses /\ Acknowledgements' = Acknowledgements
        /\ snap'.acknowledged = snap.acknowledged /\ snap'.run = snap.run
        /\ snap'.blockedFrom = snap.blockedFrom
    BY DEF CommitExecutionIntent, AfterBrokerEvent, Acknowledgements, TypeOK, Snapshots, IntentEvents
  <1>4. Len(dispatches') = Len(dispatches) + 1 /\ Len(dispatches) \in Nat
    BY DEF CommitExecutionIntent, TypeOK
  <1>5. Cardinality(Acknowledgements) = Len(dispatches)
    <2>1. CASE status = "READY_FOR_EXECUTION"
      <3>1. Len(dispatches) = 0
        BY <2>1 DEF LifecycleInductive, AttemptsAreCounted, IsBeforeDispatch, BeforeDispatch
      <3>2. Cardinality(Acknowledgements) \in Nat
        BY FS_Subset, FS_CardinalityType DEF LifecycleInductive, AttemptsAreCounted, Acknowledgements
      <3> QED
        BY <3>1, <3>2 DEF LifecycleInductive, AttemptsAreCounted
    <2>2. CASE status = "REVISION_REQUIRED"
      BY <2>2 DEF LifecycleInductive, AttemptsAreCounted, IsUnderWay, UnderWay, ExecutionStatuses
    <2> QED
      BY <1>2, <2>1, <2>2
  <1>6. ~IsBeforeDispatch' /\ ~IsUnderWay'
    BY <1>1, <1>2 DEF IsBeforeDispatch, IsUnderWay, BeforeDispatch, UnderWay, ExecutionStatuses
  <1>7. AttemptsAreCounted'
    BY <1>3, <1>4, <1>5, <1>6 DEF LifecycleInductive, AttemptsAreCounted
  <1>8. RunIsBound'
    BY <1>3, <1>6 DEF LifecycleInductive, RunIsBound
  <1>9. CompletionIsStored' /\ ReviewIsOfLatestCompletion'
    BY <1>1, <1>2 DEF CompletionIsStored, ReviewIsOfLatestCompletion
  <1>10. ReportsAreOfBoundRun'
    BY <1>3 DEF LifecycleInductive, ReportsAreOfBoundRun, IsOfBoundRun
  <1>11. BlockedOriginIsCoherent'
    BY <1>1, <1>2, <1>3 DEF LifecycleInductive, BlockedOriginIsCoherent
  <1> QED
    BY <1>7, <1>8, <1>9, <1>10, <1>11 DEF LifecycleInductive
-------------------------------------------------------------------------------
\* How a packet moves a work order between the two groups.
LEMMA PacketFacts ==
    ASSUME NEW from, NEW packet, NEW to, packet.type \in ResponseTypes,
           ResponseTransition(from, packet, to)
    PROVE  /\ \/ from \in BeforeDispatch /\ to \in BeforeDispatch
              \/ from \in UnderWay /\ to \in UnderWay
              \/ /\ packet.type = "execution.acknowledged"
                 /\ from = "EXECUTION_DISPATCHED" /\ to = "EXECUTING"
              \/ packet.type = "execution.failed" /\ from = "EXECUTING" /\ to = "FAILED"
              \/ /\ packet.type = "question.blocked"
                 /\ from \in {"PLANNING", "EXECUTING"} /\ to = "WAITING_FOR_INPUT"
           /\ packet.type = "execution.acknowledged" => from = "EXECUTION_DISPATCHED"
           /\ packet.type = "question.blocked" => to = "WAITING_FOR_INPUT"
           /\ to \notin {"PLANNER_REVIEWING", "COMPLETE"}
           /\ to = "COMPLETION_READY" => packet.type = "execution.completed"
           /\ to = "WAITING_FOR_HUMAN_REVIEW" =>
                 /\ packet.type = "review.completed" /\ packet.outcome # "REVISE"
                 /\ from = "PLANNER_REVIEWING"
  <1>1. CASE packet.type = "review.completed"
    BY <1>1 DEF ResponseTransition, UnderWay, ExecutionStatuses
  <1>2. CASE packet.type # "review.completed"
    <2>1. Transition(from, packet.type, to)
      BY <1>2 DEF ResponseTransition
    <2> QED
      BY <1>2, <2>1, EdgeFacts, TransitionFacts DEF ResponseTypes, IntentEvents, DecisionTypes
  <1> QED
    BY <1>1, <1>2

\* A packet is stored after everything before it: an acknowledgement becomes the
\* newest one, a report names the run of the newest one.
LEMMA SubmitKeeps ==
    ASSUME TypeOK, Inductive, LifecycleInductive, NEW actor \in Actors, NEW p \in Packets,
           SubmitResponse(actor, p)
    PROVE  LifecycleInductive'
  <1> DEFINE new == StoredResponse(p, actor)
             acks == p.type = "execution.acknowledged"
  <1>1. PICK to \in Statuses : ResponseTransition(status, p, to) /\ status' = to
    BY DEF SubmitResponse
  <1>2. p.type \in ResponseTypes
    BY DEF Packets
  <1>3. /\ responses' = responses \cup {new} /\ dispatches' = dispatches
        /\ new.type = p.type /\ new.run = p.run /\ new.outcome = p.outcome
        /\ new.at = snap.version + 1
        /\ snap'.acknowledged = (acks \/ snap.acknowledged)
        /\ snap'.run = (IF acks THEN p.run ELSE snap.run)
        /\ snap'.blockedFrom = (IF p.type = "question.blocked" THEN status ELSE snap.blockedFrom)
        /\ p.type \in RunBoundTypes => snap.acknowledged /\ p.run = snap.run
    BY DEF SubmitResponse, StoredResponse, AfterResponse, AcceptsResponse, TypeOK, Snapshots
  <1>4. /\ snap.version \in Nat
        /\ \A r \in responses : r.at \in Nat /\ r.at <= snap.version
    BY DEF TypeOK, Snapshots, StoredResponses, Inductive, StoredIsOlder
  <1>5. new \notin responses /\ \A r \in responses : r.at < new.at
    BY <1>3, <1>4
  <1>6. Acknowledgements' = IF acks THEN Acknowledgements \cup {new} ELSE Acknowledgements
    BY <1>3 DEF Acknowledgements
  <1>7. Acknowledgements \subseteq responses
    BY DEF Acknowledgements
  <1>8. AttemptsAreCounted'
    <2>1. IsFiniteSet(responses') /\ IsFiniteSet(Acknowledgements)
      BY <1>3, <1>7, FS_AddElement, FS_Subset DEF LifecycleInductive, AttemptsAreCounted
    <2>2. Cardinality(Acknowledgements') =
             IF acks THEN Cardinality(Acknowledgements) + 1 ELSE Cardinality(Acknowledgements)
      BY <1>5, <1>6, <1>7, <2>1, FS_AddElement
    <2>3. Cardinality(Acknowledgements) \in Nat /\ Len(dispatches) \in Nat
      BY <2>1, FS_CardinalityType DEF TypeOK
    <2>4. CASE acks
      <3>1. status = "EXECUTION_DISPATCHED" /\ to = "EXECUTING"
        BY <1>1, <1>2, <2>4, PacketFacts DEF BeforeDispatch, UnderWay
      <3>2. ~IsBeforeDispatch'
        BY <1>1, <3>1 DEF IsBeforeDispatch, BeforeDispatch
      <3>3. Cardinality(Acknowledgements') = Len(dispatches')
        BY <1>3, <2>2, <2>3, <2>4, <3>1 DEF LifecycleInductive, AttemptsAreCounted
      <3> QED
        BY <1>1, <1>3, <2>1, <2>3, <3>1, <3>2, <3>3 DEF AttemptsAreCounted
    <2>5. CASE ~acks
      <3>1. /\ IsBeforeDispatch' => IsBeforeDispatch
            /\ IsUnderWay' => IsUnderWay
            /\ to # "EXECUTION_DISPATCHED"
        BY <1>1, <1>2, <1>3, <2>5, PacketFacts
           DEF IsBeforeDispatch, IsUnderWay, BeforeDispatch, UnderWay, ExecutionStatuses
      <3> QED
        BY <1>1, <1>3, <2>1, <2>2, <2>5, <3>1 DEF LifecycleInductive, AttemptsAreCounted
    <2> QED
      BY <2>4, <2>5
  <1>9. RunIsBound'
    <2>1. CASE acks
      <3>1. snap'.acknowledged /\ snap'.run = new.run /\ new \in Acknowledgements'
        BY <1>3, <1>6, <2>1
      <3>2. \A b \in Acknowledgements' : b.at <= new.at
        BY <1>3, <1>4, <1>5, <1>6, <1>7, <2>1
      <3> QED
        BY <3>1, <3>2 DEF RunIsBound
    <2>2. CASE ~acks
      <3>1. IsUnderWay' => IsUnderWay
        BY <1>1, <1>2, <1>3, <2>2, PacketFacts
           DEF IsUnderWay, BeforeDispatch, UnderWay, ExecutionStatuses
      <3> QED
        BY <1>3, <1>6, <2>2, <3>1 DEF LifecycleInductive, RunIsBound
    <2> QED
      BY <2>1, <2>2
  <1>10. CompletionIsStored'
    BY <1>1, <1>2, <1>3, PacketFacts DEF CompletionIsStored
  <1>11. BlockedOriginIsCoherent'
    <2>1. CASE p.type = "question.blocked"
      <3>1. status \in {"PLANNING", "EXECUTING"} /\ to = "WAITING_FOR_INPUT" /\ ~acks
        BY <1>1, <1>2, <2>1, ResponseFacts
      <3>2. status = "EXECUTING" => snap.acknowledged
        BY DEF LifecycleInductive, RunIsBound, IsUnderWay, UnderWay, ExecutionStatuses
      <3> QED
        BY <1>1, <1>3, <2>1, <3>1, <3>2 DEF BlockedOriginIsCoherent
    <2>2. CASE p.type # "question.blocked"
      <3>1. to # "WAITING_FOR_INPUT" /\ status \notin {"WAITING_FOR_INPUT", "CANCELLED"}
        BY <1>1, <1>2, <2>2, PacketFacts, ResponseFacts
           DEF BeforeDispatch, UnderWay, ExecutionStatuses
      <3> QED
        BY <1>1, <1>3, <2>2, <3>1 DEF LifecycleInductive, BlockedOriginIsCoherent
    <2> QED
      BY <2>1, <2>2
  <1>12. ReportsAreOfBoundRun'
    <2> SUFFICES ASSUME NEW r \in responses', r.type \in RunBoundTypes
                 PROVE  \E a \in Acknowledgements' :
                           /\ a.run = r.run /\ a.at < r.at
                           /\ \A b \in Acknowledgements' : b.at < r.at => b.at <= a.at
      BY DEF ReportsAreOfBoundRun, IsOfBoundRun
    <2>1. Acknowledgements \subseteq Acknowledgements'
      BY <1>6
    <2>2. CASE r \in responses
      <3>1. PICK a \in Acknowledgements :
               /\ a.run = r.run /\ a.at < r.at
               /\ \A b \in Acknowledgements : b.at < r.at => b.at <= a.at
        BY <2>2 DEF LifecycleInductive, ReportsAreOfBoundRun, IsOfBoundRun
      <3>2. ~(new.at < r.at)
        BY <1>3, <1>4, <2>2
      <3> QED
        BY <1>6, <2>1, <3>1, <3>2
    <2>3. CASE r = new
      <3>1. ~acks /\ snap.acknowledged /\ r.run = snap.run
        BY <1>3, <2>3 DEF RunBoundTypes
      <3>2. PICK a \in Acknowledgements :
               a.run = snap.run /\ \A b \in Acknowledgements : b.at <= a.at
        BY <3>1 DEF LifecycleInductive, RunIsBound
      <3> QED
        BY <1>5, <1>6, <1>7, <2>3, <3>1, <3>2
    <2> QED
      BY <1>3, <2>2, <2>3
  <1>13. ReviewIsOfLatestCompletion'
    <2> SUFFICES ASSUME to = "WAITING_FOR_HUMAN_REVIEW"
                 PROVE  ReviewIsOfLatestCompletion'
      BY <1>1, <1>2, PacketFacts DEF ReviewIsOfLatestCompletion
    <2>1. new.type = "review.completed" /\ new.outcome # "REVISE" /\ status = "PLANNER_REVIEWING"
      BY <1>1, <1>2, <1>3, PacketFacts
    <2>2. PICK c \in responses : c.type = "execution.completed"
      BY <2>1 DEF LifecycleInductive, CompletionIsStored
    <2>3. c \in responses' /\ c.at < new.at /\ new \in responses'
      BY <1>3, <1>5
    <2>4. \A s \in responses' : s.type # "review.completed" => s.at < new.at
      BY <1>3, <1>5, <2>1
    <2> QED
      BY <2>1, <2>2, <2>3, <2>4 DEF ReviewIsOfLatestCompletion
  <1> QED
    BY <1>8, <1>9, <1>10, <1>11, <1>12, <1>13 DEF LifecycleInductive
-------------------------------------------------------------------------------
\* Without the planning poll the broker offers a part of what it offers with it, so
\* what is proved of Spec holds here too.
LEMMA LifecycleIsPartOfSpec == LifecycleSpec => Spec
  <1>1. [LifecycleNext]_vars => [Next]_vars
    BY DEF Next
  <1> QED
    BY <1>1, PTL DEF LifecycleSpec, Spec

\* Every step of the response lifecycle keeps the invariant.
LEMMA LifecycleStep ==
    ASSUME TypeOK, Inductive, LifecycleInductive, [LifecycleNext]_vars
    PROVE  LifecycleInductive'
  <1>1. CASE \E actor \in Actors, p \in PacketInputs, id \in MessageIds :
                SubmitResponse(actor, [p EXCEPT !.id = id])
    BY <1>1, SubmittedPacket, SubmitKeeps
  <1>2. CASE \E d \in DecisionInputs : RecordDecision(d)
    BY <1>2, InputTypes, DecideKeeps
  <1>3. CASE \E actor \in Actors : \/ RequestPlanApproval(actor)
                                   \/ RequestCompletionReview(actor)
                                   \/ AnswerQuestion(actor)
    BY <1>3, BrokerKeeps DEF RequestPlanApproval, RequestCompletionReview, AnswerQuestion
  <1>4. CASE \E event \in IntentEvents, actor \in Actors, requested \in Plans \cup {None} :
                CommitExecutionIntent(event, actor, requested)
    BY <1>4, IntentKeeps
  <1>5. CASE Tick \/ UNCHANGED vars
    <2>1. UNCHANGED <<status, snap, responses, decisions, dispatches>>
      BY <1>5 DEF Tick, vars, lifecycleVars
    <2>2. /\ Acknowledgements' = Acknowledgements
          /\ IsBeforeDispatch' = IsBeforeDispatch /\ IsUnderWay' = IsUnderWay
      BY <2>1 DEF Acknowledgements, IsBeforeDispatch, IsUnderWay
    <2>3. AttemptsAreCounted' /\ RunIsBound'
      BY <2>1, <2>2 DEF LifecycleInductive, AttemptsAreCounted, RunIsBound
    <2>4. CompletionIsStored' /\ BlockedOriginIsCoherent'
      BY <2>1 DEF LifecycleInductive, CompletionIsStored, BlockedOriginIsCoherent
    <2>5. ReportsAreOfBoundRun' /\ ReviewIsOfLatestCompletion'
      BY <2>1, <2>2 DEF LifecycleInductive, ReportsAreOfBoundRun, IsOfBoundRun,
         ReviewIsOfLatestCompletion
    <2> QED
      BY <2>3, <2>4, <2>5 DEF LifecycleInductive
  <1> QED
    BY <1>1, <1>2, <1>3, <1>4, <1>5 DEF LifecycleNext, HandlerStep

\* The invariant behind the theorems on attempts, questions, reports and reviews.
THEOREM LifecycleInvariant == LifecycleSpec => [](TypeOK /\ Inductive /\ LifecycleInductive)
  <1>1. TypeOK /\ Inductive /\ LifecycleInductive /\ [LifecycleNext]_vars => LifecycleInductive'
    BY LifecycleStep
  <1>2. Init => LifecycleInductive
    BY InitLifecycle
  <1> QED
    BY <1>1, <1>2, LifecycleIsPartOfSpec, TypeCorrectness, InductiveInvariant, PTL DEF LifecycleSpec

\* Every attempt is acknowledged once before the next begins (the rows of the table
\* that admit execution.acknowledged and the two execution intents).
THEOREM AttemptsAreAcknowledgedOnce == LifecycleSpec => []OneAcknowledgementPerDispatch
  <1>1. LifecycleInductive => OneAcknowledgementPerDispatch
    BY DEF LifecycleInductive, AttemptsAreCounted, OneAcknowledgementPerDispatch, IsUnderWay, UnderWay
  <1> QED
    BY <1>1, LifecycleInvariant, PTL

\* A blocking question remembers a status its answer can return to (blocked_from).
THEOREM QuestionsComeBack == LifecycleSpec => []BlockedOriginIsCoherent
  BY LifecycleInvariant, PTL DEF LifecycleInductive

\* A report names the run of the newest acknowledgement before it (the run check of
\* apply_response).
THEOREM ReportsAreBound == LifecycleSpec => []ReportsAreOfBoundRun
  BY LifecycleInvariant, PTL DEF LifecycleInductive

\* A human is asked only about a review made after the latest completion.
THEOREM ReviewsAreFresh == LifecycleSpec => []ReviewIsOfLatestCompletion
  BY LifecycleInvariant, PTL DEF LifecycleInductive

\* No handler does anything to a finished work order: no row of the table leaves a
\* terminal status, and an answer needs WAITING_FOR_INPUT.
LEMMA TerminalRefuses ==
    ASSUME TypeOK, status \in Terminal
    PROVE  ~HandlerStep
  <1>1. ASSUME NEW actor \in Actors, NEW p \in Packets, SubmitResponse(actor, p)
        PROVE  FALSE
    BY <1>1, ResponseFacts DEF SubmitResponse, Packets
  <1>2. ASSUME NEW d \in DecisionInputs, RecordDecision(d)
        PROVE  FALSE
    BY <1>2, TransitionFacts DEF RecordDecision
  <1>3. ASSUME NEW event, NEW to, BrokerTransition(status, snap, event, to)
        PROVE  FALSE
    BY <1>3, TransitionFacts DEF BrokerTransition, Terminal
  <1> QED
    BY <1>1, <1>2, <1>3, SubmittedPacket DEF HandlerStep, ApplyBroker, RequestPlanApproval,
       RequestCompletionReview, AnswerQuestion, CommitExecutionIntent

\* Nothing changes a finished work order (COMPLETE, FAILED, CANCELLED).
THEOREM FinishedIsFinished == LifecycleSpec => TerminalIsFinal
  <1>1. TypeOK /\ [LifecycleNext]_vars => [(status \in Terminal) => UNCHANGED lifecycleVars]_vars
    BY TerminalRefuses DEF LifecycleNext, Tick, vars, lifecycleVars
  <1> QED
    BY <1>1, LifecycleIsPartOfSpec, TypeCorrectness, PTL DEF LifecycleSpec, TerminalIsFinal

\* Once planning is over, no handler moves a work order but along the table of allowed
\* edges (_response_target, apply_broker_event, apply_decision): what the planning poll
\* does to the status is the only exception.
THEOREM HandlersKeepToTheEdges == LifecycleSpec => OnlyAllowedEdges
  <1>1. ASSUME TypeOK, LifecycleNext, status' # status
        PROVE  IsAllowedEdge(status, status')
    <2>1. ASSUME NEW actor \in Actors, NEW p \in Packets, SubmitResponse(actor, p)
          PROVE  IsAllowedEdge(status, status')
      <3>1. ResponseTransition(status, p, status') /\ p.type \in ResponseTypes
        BY <2>1 DEF SubmitResponse, Packets
      <3> QED
        BY <3>1 DEF ResponseTransition, IsAllowedEdge
    <2>2. ASSUME NEW d \in DecisionInputs, RecordDecision(d)
          PROVE  IsAllowedEdge(status, status')
      <3>1. Transition(status, d.type, status') /\ d.type \in DecisionTypes
        BY <1>1, <2>2, InputTypes DEF RecordDecision, Decisions
      <3> QED
        BY <3>1 DEF IsAllowedEdge
    <2>3. ASSUME NEW event \in BrokerEvents, BrokerTransition(status, snap, event, status')
          PROVE  IsAllowedEdge(status, status')
      BY <2>3 DEF BrokerTransition, IsAllowedEdge
    <2>4. ASSUME NEW actor, NEW event \in BrokerEvents, ApplyBroker(event, actor)
          PROVE  IsAllowedEdge(status, status')
      BY <2>3, <2>4 DEF ApplyBroker
    <2>5. ASSUME NEW event \in IntentEvents, NEW actor, NEW requested,
                 CommitExecutionIntent(event, actor, requested)
          PROVE  IsAllowedEdge(status, status')
      BY <2>3, <2>5 DEF CommitExecutionIntent, IntentEvents, BrokerEvents
    <2> QED
      BY <1>1, <2>1, <2>2, <2>4, <2>5, SubmittedPacket DEF LifecycleNext, HandlerStep, Tick, lifecycleVars,
         RequestPlanApproval, RequestCompletionReview, AnswerQuestion, BrokerEvents
  <1>2. TypeOK /\ [LifecycleNext]_vars =>
           [status' = status \/ status = "PLANNING" \/ IsAllowedEdge(status, status')]_vars
    BY <1>1
  <1> QED
    BY <1>2, LifecycleIsPartOfSpec, TypeCorrectness, PTL DEF LifecycleSpec, OnlyAllowedEdges
===============================================================================

------------------------ MODULE ExecutionDispatchProofs ------------------------
(***************************************************************************)
(* Theorems about ExecutionDispatch, for any number of workers, attempts,  *)
(* runs and crashes: an attempt starts at most one run, and a settled      *)
(* dispatch was acknowledged.  The work order's own safety properties      *)
(* carry over to the composed system.                                      *)
(***************************************************************************)
EXTENDS ExecutionDispatch, WorkOrderProofs

\* Steps of a refresh that act on the dispatch it found or claimed.
OnDispatch == {"claim", "submit", "accept", "mark", "ackParent", "ack", "settle", "rememberOn"}

\* What a report on the provider's run can be.
ReportTypes == RunBoundTypes \cup {"question.blocked"}

\* What a worker read is still there: records, runs and packets are never removed.
SoundWorker(w) ==
    /\ worker[w].pc \notin {"idle", "commit"} => dispatches # <<>>
    /\ worker[w].pc \in OnDispatch => worker[w].dispatch \in DOMAIN dispatches
    /\ worker[w].run # None => worker[w].run \in DOMAIN runs
    /\ worker[w].pc \in {"query", "reportParent", "report"} => worker[w].run # None
    /\ worker[w].pc \in {"reportParent", "report", "remember", "rememberOn"} =>
          worker[w].type \in ReportTypes
    /\ worker[w].pc = "settle" =>
          \E r \in Acknowledgements : r.key = worker[w].dispatch /\ r.run = worker[w].run

\* A worker that is about to post is the only one, has counted its attempt, and nobody
\* posted before it.
SoleSubmitter(w) ==
    worker[w].pc = "submit" =>
        /\ dispatches[worker[w].dispatch].attemptCount > 0
        /\ \A r \in DOMAIN runs : runs[r].dispatch # worker[w].dispatch
        /\ \A v \in Workers :
              worker[v].pc = "submit" /\ worker[v].dispatch = worker[w].dispatch => v = w

\* Every run was posted in an attempt that is counted.
RunsAreCounted ==
    \A r \in DOMAIN runs :
        /\ runs[r].dispatch \in DOMAIN dispatches
        /\ dispatches[runs[r].dispatch].attemptCount > 0

RecordedRunsExist ==
    \A n \in DOMAIN dispatches : dispatches[n].run # None => dispatches[n].run \in DOMAIN runs

Records ==
    /\ TypeOK
    /\ Inductive
    /\ runs \in Seq(RunRecords) /\ Len(runs) <= MaxRuns
    /\ Len(dispatches) <= MaxAttempts
    /\ RunsAreCounted
    /\ RecordedRunsExist
    /\ SettledMeansAcknowledged

DispatchInductive ==
    /\ Records
    /\ crashes \in 0..MaxCrashes
    /\ worker \in [Workers -> WorkerStates]
    /\ \A w \in Workers : SoundWorker(w)
    /\ \A w \in Workers : SoleSubmitter(w)
    /\ OneRunPerDispatch
-------------------------------------------------------------------------------
LEMMA InitHolds == DispatchInit => DispatchInductive
  <1> SUFFICES ASSUME DispatchInit PROVE DispatchInductive
    OBVIOUS
  <1>1. PICK plan \in Plans, expires \in Times \cup {None} :
           /\ snap = [DeriveSnapshot EXCEPT !.parent = 3, !.version = 4, !.plan = plan]
           /\ responses = {PlanCompleted(plan)}
           /\ decisions = {PlanApproved(plan, expires)}
    BY DEF DispatchInit
  <1>2. /\ snap.parent = 3 /\ snap.version = 4 /\ snap.plan = plan /\ snap.blockedFrom = None
        /\ snap \in Snapshots
    BY <1>1 DEF DeriveSnapshot, Snapshots
  <1>3. PlanCompleted(plan) \in StoredResponses
    BY DispatchAssumption, LifecycleAssumption DEF PlanCompleted, StoredResponses, ResponseTypes
  <1>4. PlanApproved(plan, expires) \in Decisions
    BY DispatchAssumption, LifecycleAssumption DEF PlanApproved, Decisions, DecisionTypes
  <1>5. dispatches = <<>> /\ runs = <<>> /\ DOMAIN dispatches = {} /\ DOMAIN runs = {}
    BY DEF DispatchInit
  <1>6. TypeOK
    BY <1>1, <1>2, <1>3, <1>4 DEF DispatchInit, TypeOK, Statuses
  <1>7. Inductive
    <2>1. /\ \A d \in decisions : /\ d.type = "approve_plan" /\ d.actor = Sender
                                  /\ d.plan = plan /\ d.at = 4
          /\ \A d, e \in decisions : d = e
      BY <1>1 DEF PlanApproved
    <2>2. /\ \A r \in responses : r.id = 2 /\ r.parent = 1 /\ r.at = 2
          /\ \A r, s \in responses : r = s
      BY <1>1 DEF PlanCompleted
    <2>3. PlanIsSettled
      BY <1>2, <2>1, LifecycleAssumption DEF DispatchInit, PlanIsSettled
    <2>4. StoredIsOlder
      BY <1>2, <2>1, <2>2 DEF StoredIsOlder
    <2>5. OriginWasReached /\ ApprovedBeforeExecution /\ SeparationOfDuties
      BY <1>2, <1>5, LifecycleAssumption
         DEF DispatchInit, OriginWasReached, ApprovedBeforeExecution, SeparationOfDuties,
             ExecutionStatuses, Statuses
    <2>6. LineageIsLinear /\ OneEffectPerKey /\ IdsAreUnique
      BY <2>1, <2>2 DEF LineageIsLinear, OneEffectPerKey, IdsAreUnique
    <2>7. ParentWasBroughtBack
      BY <1>2, <2>2 DEF ParentWasBroughtBack
    <2> QED
      BY <2>3, <2>4, <2>5, <2>6, <2>7 DEF Inductive
  <1> QED
    BY <1>5, <1>6, <1>7, DispatchAssumption
       DEF DispatchInit, DispatchInductive, Records, RunsAreCounted, RecordedRunsExist,
           SettledMeansAcknowledged, SoundWorker, SoleSubmitter, OneRunPerDispatch, Idle,
           WorkerStates, Steps, OnDispatch
-------------------------------------------------------------------------------
\* Nothing a worker read is taken away.
Grows ==
    /\ dispatches # <<>> => dispatches' # <<>>
    /\ DOMAIN dispatches \subseteq DOMAIN dispatches'
    /\ \A n \in DOMAIN dispatches :
          dispatches[n].attemptCount > 0 => dispatches'[n].attemptCount > 0
    /\ responses \subseteq responses'
    /\ DOMAIN runs \subseteq DOMAIN runs'

\* What every kind of transaction does to the records.
LEMMA RestKeepsRecords ==
    ASSUME Records, UNCHANGED <<lifecycleVars, runs, planningVars>>, now' \in Nat
    PROVE  Records' /\ Grows
  <1>1. Inductive'
    BY RestPreserves DEF Records
  <1>2. TypeOK'
    BY DEF Records, TypeOK, lifecycleVars, planningVars
  <1> QED
    BY <1>1, <1>2 DEF Records, Grows, lifecycleVars, RunsAreCounted, RecordedRunsExist,
       SettledMeansAcknowledged, Acknowledgements

LEMMA SubmitKeepsRecords ==
    ASSUME Records, NEW actor \in Actors, NEW p, IsClientPacket(p),
           SubmitResponse(actor, p), UNCHANGED <<runs, now, planningVars>>
    PROVE  /\ Records' /\ Grows /\ dispatches' = dispatches
           /\ StoredResponse(p, actor) \in responses'
  <1>1. Inductive'
    BY SubmitPreserves DEF Records
  <1>2. TypeOK'
    BY SubmitTypes DEF Records, IsClientPacket
  <1>3. /\ dispatches' = dispatches /\ responses \subseteq responses'
        /\ StoredResponse(p, actor) \in responses'
    BY DEF SubmitResponse
  <1> QED
    BY <1>1, <1>2, <1>3 DEF Records, Grows, RunsAreCounted, RecordedRunsExist,
       SettledMeansAcknowledged, Acknowledgements

LEMMA DecideKeepsRecords ==
    ASSUME Records, NEW d \in Decisions, RecordDecision(d), UNCHANGED <<runs, now, planningVars>>
    PROVE  Records' /\ Grows
  <1>1. Inductive'
    BY DecidePreserves DEF Records
  <1>2. TypeOK'
    BY DecideTypes DEF Records
  <1>3. dispatches' = dispatches /\ responses' = responses
    BY DEF RecordDecision
  <1> QED
    BY <1>1, <1>2, <1>3 DEF Records, Grows, RunsAreCounted, RecordedRunsExist,
       SettledMeansAcknowledged, Acknowledgements

LEMMA BrokerKeepsRecords ==
    ASSUME Records, NEW actor \in Actors,
           NEW event \in {"plan.approval_requested", "completion.review", "question.answer"},
           ApplyBroker(event, actor), UNCHANGED <<runs, now, planningVars>>
    PROVE  Records' /\ Grows
  <1>1. Inductive'
    BY BrokerPreserves DEF Records
  <1>2. TypeOK'
    BY BrokerTypes DEF Records, BrokerEvents
  <1>3. dispatches' = dispatches /\ responses' = responses
    BY DEF ApplyBroker
  <1> QED
    BY <1>1, <1>2, <1>3 DEF Records, Grows, RunsAreCounted, RecordedRunsExist,
       SettledMeansAcknowledged, Acknowledgements

\* An intent appends a record nobody has claimed.
LEMMA IntentKeepsRecords ==
    ASSUME Records, Len(dispatches) < MaxAttempts, NEW event \in IntentEvents, NEW actor,
           CommitExecutionIntent(event, actor, None), UNCHANGED <<runs, now, planningVars>>
    PROVE  /\ Records' /\ Grows
           /\ DOMAIN dispatches' = 1..(Len(dispatches) + 1)
  <1>1. Inductive'
    BY IntentPreserves DEF Records
  <1>2. TypeOK'
    BY IntentTypes DEF Records
  <1>3. PICK plan, d : dispatches' = Append(dispatches, NewDispatch(event, plan, d))
    BY DEF CommitExecutionIntent
  <1> DEFINE new == NewDispatch(event, plan, d)
  <1>4. /\ Len(dispatches') = Len(dispatches) + 1 /\ Len(dispatches) \in Nat
        /\ DOMAIN dispatches' = 1..(Len(dispatches) + 1)
        /\ \A n \in DOMAIN dispatches : dispatches'[n] = dispatches[n]
        /\ dispatches'[Len(dispatches) + 1] = new
        /\ DOMAIN dispatches = 1..Len(dispatches)
    BY <1>3 DEF Records, TypeOK
  <1>5. new.run = None /\ new.state = "PENDING"
    BY DEF NewDispatch
  <1>6. responses' = responses
    BY DEF CommitExecutionIntent
  <1>7. Grows
    BY <1>4, <1>6 DEF Grows
  <1>8. RunsAreCounted' /\ RecordedRunsExist' /\ SettledMeansAcknowledged'
    BY <1>4, <1>5, <1>6 DEF Records, RunsAreCounted, RecordedRunsExist,
       SettledMeansAcknowledged, Acknowledgements
  <1> QED
    BY <1>1, <1>2, <1>4, <1>7, <1>8, DispatchAssumption DEF Records

\* An update of one record that keeps what it was made of.
LEMMA UpdatePreserves ==
    ASSUME TypeOK, Inductive, NEW n \in DOMAIN dispatches, NEW record \in Dispatches,
           record.plan = dispatches[n].plan, record.at = dispatches[n].at,
           UpdatesDispatch(n, record)
    PROVE  Inductive'
  <1>1. /\ DOMAIN dispatches' = DOMAIN dispatches
        /\ \A m \in DOMAIN dispatches : /\ dispatches'[m].plan = dispatches[m].plan
                                        /\ dispatches'[m].at = dispatches[m].at
        /\ dispatches # <<>> => dispatches' # <<>>
    BY DEF UpdatesDispatch, TypeOK
  <1>2. UNCHANGED <<status, snap, responses, decisions>>
    BY DEF UpdatesDispatch
  <1>3. ApprovedBeforeExecution'
    BY <1>1, <1>2 DEF Inductive, ApprovedBeforeExecution, PlanApprovedBy
  <1>4. OriginWasReached'
    BY <1>1, <1>2 DEF Inductive, OriginWasReached
  <1> QED
    BY <1>2, <1>3, <1>4 DEF Inductive, PlanIsSettled, StoredIsOlder, ParentWasBroughtBack,
       IdsAreUnique, SeparationOfDuties, LineageIsLinear, OneEffectPerKey

LEMMA UpdateKeepsRecords ==
    ASSUME Records, NEW n \in DOMAIN dispatches, NEW record \in Dispatches,
           record.plan = dispatches[n].plan, record.at = dispatches[n].at,
           dispatches[n].attemptCount > 0 => record.attemptCount > 0,
           record.run # None => record.run \in DOMAIN runs,
           record.state = "ACKNOWLEDGED" =>
              \E r \in Acknowledgements : r.key = n /\ r.run = record.run,
           UpdatesDispatch(n, record), UNCHANGED <<runs, now, planningVars>>
    PROVE  /\ Records' /\ Grows
           /\ dispatches' = [dispatches EXCEPT ![n] = record]
           /\ DOMAIN dispatches' = DOMAIN dispatches
           /\ responses' = responses
  <1>1. Inductive'
    BY UpdatePreserves DEF Records
  <1>2. /\ dispatches' = [dispatches EXCEPT ![n] = record]
        /\ UNCHANGED <<status, snap, responses, decisions>>
    BY DEF UpdatesDispatch
  <1>3. /\ dispatches' \in Seq(Dispatches) /\ Len(dispatches') = Len(dispatches)
        /\ DOMAIN dispatches' = DOMAIN dispatches
        /\ dispatches'[n] = record
        /\ \A m \in DOMAIN dispatches : m # n => dispatches'[m] = dispatches[m]
        /\ dispatches # <<>> => dispatches' # <<>>
    BY <1>2 DEF Records, TypeOK
  <1>4. TypeOK'
    BY <1>2, <1>3 DEF Records, TypeOK, planningVars
  <1>5. Grows
    BY <1>2, <1>3 DEF Grows
  <1>6. RunsAreCounted' /\ RecordedRunsExist' /\ SettledMeansAcknowledged'
    BY <1>2, <1>3 DEF Records, RunsAreCounted, RecordedRunsExist,
       SettledMeansAcknowledged, Acknowledgements
  <1> QED
    BY <1>1, <1>2, <1>3, <1>4, <1>5, <1>6 DEF Records
-------------------------------------------------------------------------------
\* What one worker read survives every step that only adds to the records.
LEMMA StaysSound ==
    ASSUME DispatchInductive, Grows, NEW v \in Workers, worker'[v] = worker[v]
    PROVE  SoundWorker(v)'
  BY DEF DispatchInductive, Grows, SoundWorker, Acknowledgements

\* A step in which no worker goes to the provider and no run is started: only the
\* workers that move have to be looked at.
LEMMA QuietStep ==
    ASSUME DispatchInductive, Records', Grows,
           DOMAIN runs' = DOMAIN runs,
           \A r \in DOMAIN runs : runs'[r].dispatch = runs[r].dispatch,
           worker' \in [Workers -> WorkerStates], crashes' \in 0..MaxCrashes,
           \A v \in Workers : \/ worker'[v] = worker[v]
                              \/ SoundWorker(v)' /\ worker'[v].pc # "submit"
    PROVE  DispatchInductive'
  <1>1. \A v \in Workers : SoundWorker(v)'
    BY StaysSound
  <1>2. ASSUME NEW w \in Workers
        PROVE  SoleSubmitter(w)'
    <2> SUFFICES ASSUME worker'[w].pc = "submit"
                 PROVE  /\ dispatches'[worker'[w].dispatch].attemptCount > 0
                        /\ \A r \in DOMAIN runs' : runs'[r].dispatch # worker'[w].dispatch
                        /\ \A v \in Workers :
                              /\ worker'[v].pc = "submit"
                              /\ worker'[v].dispatch = worker'[w].dispatch
                              => v = w
      BY DEF SoleSubmitter
    <2>1. worker'[w] = worker[w] /\ SoundWorker(w) /\ SoleSubmitter(w)
      BY DEF DispatchInductive
    <2>2. \A v \in Workers : worker'[v].pc = "submit" => worker'[v] = worker[v]
      OBVIOUS
    <2>3. worker[w].dispatch \in DOMAIN dispatches
      BY <2>1 DEF SoundWorker, OnDispatch
    <2> QED
      BY <2>1, <2>2, <2>3 DEF SoleSubmitter, Grows
  <1>3. OneRunPerDispatch'
    BY DEF DispatchInductive, OneRunPerDispatch
  <1> QED
    BY <1>1, <1>2, <1>3 DEF DispatchInductive

LEMMA WorkerTypes ==
    ASSUME DispatchInductive, NEW w \in Workers
    PROVE  /\ worker[w] \in WorkerStates
           /\ Idle \in WorkerStates
           /\ DOMAIN worker = Workers
           /\ 0 \in 0..MaxAttempts
           /\ now \in Nat
  BY DispatchAssumption DEF DispatchInductive, Records, TypeOK, WorkerStates, Idle, Steps

\* A step that only changes what one worker is about to do.
LEMMA LocalStep ==
    ASSUME DispatchInductive, NEW w \in Workers, NEW k \in WorkerStates,
           worker' = [worker EXCEPT ![w] = k],
           UNCHANGED <<lifecycleVars, runs, now, planningVars>>,
           crashes' \in 0..MaxCrashes,
           SoundWorker(w)', k.pc # "submit"
    PROVE  DispatchInductive'
  <1>1. Records' /\ Grows
    BY WorkerTypes, RestKeepsRecords DEF DispatchInductive
  <1>2. worker' \in [Workers -> WorkerStates]
    BY DEF DispatchInductive
  <1>3. \A v \in Workers : \/ worker'[v] = worker[v]
                           \/ SoundWorker(v)' /\ worker'[v].pc # "submit"
    BY WorkerTypes
  <1> QED
    BY <1>1, <1>2, <1>3, QuietStep

LEMMA EndKeeps ==
    ASSUME DispatchInductive, NEW w \in Workers, Ends(w),
           UNCHANGED <<lifecycleVars, runs, now, planningVars>>,
           crashes' \in 0..MaxCrashes
    PROVE  DispatchInductive'
  <1>1. worker'[w] = Idle /\ Idle \in WorkerStates
    BY WorkerTypes DEF Ends
  <1>2. SoundWorker(w)'
    BY <1>1 DEF SoundWorker, Idle, OnDispatch
  <1> QED
    BY <1>1, <1>2, LocalStep DEF Ends, Idle
-------------------------------------------------------------------------------
\* A worker looks around: what it goes on with exists.
LEMMA RefreshKeeps ==
    ASSUME DispatchInductive, NEW w \in Workers, NEW actor \in Callers, Refresh(w, actor),
           UNCHANGED <<crashes, now, planningVars>>
    PROVE  DispatchInductive'
  <1>a. PICK branch \in {<<"READY_FOR_EXECUTION", "commit">>,
                         <<"EXECUTION_DISPATCHED", "advance">>, <<"EXECUTING", "poll">>} :
           /\ status = branch[1]
           /\ worker' = [worker EXCEPT ![w] = [Idle EXCEPT !.pc = branch[2], !.actor = actor]]
    BY DEF Refresh
  <1> DEFINE pc == branch[2]
             k == [Idle EXCEPT !.pc = pc, !.actor = actor]
  <1>1. /\ pc \in {"commit", "advance", "poll"}
        /\ pc # "commit" => status \in {"EXECUTION_DISPATCHED", "EXECUTING"}
        /\ worker' = [worker EXCEPT ![w] = k]
    BY <1>a
  <1> HIDE DEF pc
  <1>2. k \in WorkerStates /\ k.pc = pc /\ k.run = None
    BY <1>1, WorkerTypes, DispatchAssumption DEF WorkerStates, Steps, Idle
  <1>3. pc # "commit" => dispatches # <<>>
    BY <1>1 DEF DispatchInductive, Records, Inductive, ApprovedBeforeExecution, ExecutionStatuses
  <1>4. worker'[w] = k /\ dispatches' = dispatches
    BY <1>1, WorkerTypes DEF Refresh, lifecycleVars
  <1>5. SoundWorker(w)'
    BY <1>1, <1>2, <1>3, <1>4 DEF SoundWorker, OnDispatch
  <1> QED
    BY <1>1, <1>2, <1>5, LocalStep DEF Refresh, DispatchInductive

LEMMA FindsIntentKeeps ==
    ASSUME DispatchInductive, NEW w \in Workers, RefreshFindsIntent(w),
           UNCHANGED <<crashes, now, planningVars>>
    PROVE  DispatchInductive'
  <1>1. PICK n \in Pending :
           worker' = [worker EXCEPT ![w] =
              IF dispatches[n].receipt \in IntentEvents
              THEN [worker[w] EXCEPT !.pc = "claim", !.dispatch = n] ELSE Idle]
    BY WorkerTypes DEF RefreshFindsIntent
  <1> DEFINE k == [worker[w] EXCEPT !.pc = "claim", !.dispatch = n]
  <1>2. CASE worker' = [worker EXCEPT ![w] = k]
    <2>1. n \in DOMAIN dispatches /\ n \in 0..MaxAttempts /\ dispatches # <<>>
      BY DispatchAssumption DEF Pending, DispatchInductive, Records, TypeOK
    <2>2. k \in WorkerStates /\ k.pc = "claim" /\ k.dispatch = n /\ k.run = worker[w].run
      BY <2>1, WorkerTypes DEF WorkerStates, Steps
    <2>3. worker'[w] = k /\ dispatches' = dispatches /\ runs' = runs
      BY <1>2, WorkerTypes DEF RefreshFindsIntent, lifecycleVars
    <2>4. SoundWorker(w)
      BY DEF DispatchInductive
    <2>5. SoundWorker(w)'
      BY <2>1, <2>2, <2>3, <2>4 DEF SoundWorker
    <2> QED
      BY <1>2, <2>2, <2>5, LocalStep DEF RefreshFindsIntent, DispatchInductive
  <1>3. CASE worker' = [worker EXCEPT ![w] = Idle]
    BY <1>3, EndKeeps DEF Ends, RefreshFindsIntent, DispatchInductive
  <1> QED
    BY <1>1, <1>2, <1>3

\* The latest dispatch is one.
LEMMA LatestDispatch ==
    ASSUME DispatchInductive, dispatches # <<>>
    PROVE  Len(dispatches) \in DOMAIN dispatches /\ Len(dispatches) \in 0..MaxAttempts
  BY DispatchAssumption DEF DispatchInductive, Records, TypeOK

LEMMA FindsLatestKeeps ==
    ASSUME DispatchInductive, NEW w \in Workers,
           AdvanceFindsDispatch(w) \/ RememberFindsDispatch(w),
           UNCHANGED <<crashes, now, planningVars>>
    PROVE  DispatchInductive'
  <1>1. PICK pc \in {"claim", "rememberOn"} :
           /\ pc = "rememberOn" <=> worker[w].pc = "remember"
           /\ worker[w].pc \in {"advance", "remember"}
           /\ worker' = [worker EXCEPT ![w].pc = pc, ![w].dispatch = Len(dispatches)]
           /\ UNCHANGED <<lifecycleVars, runs>>
    BY DEF AdvanceFindsDispatch, RememberFindsDispatch
  <1> DEFINE k == [worker[w] EXCEPT !.pc = pc, !.dispatch = Len(dispatches)]
  <1>2. SoundWorker(w)
    BY DEF DispatchInductive
  <1>3. Len(dispatches) \in DOMAIN dispatches /\ Len(dispatches) \in 0..MaxAttempts
        /\ dispatches # <<>>
    BY <1>1, <1>2, LatestDispatch DEF SoundWorker
  <1>4. /\ k \in WorkerStates /\ k.pc = pc /\ k.dispatch = Len(dispatches)
        /\ k.run = worker[w].run /\ k.type = worker[w].type
    BY <1>3, WorkerTypes DEF WorkerStates, Steps
  <1>5. worker' = [worker EXCEPT ![w] = k]
    BY <1>1, WorkerTypes DEF DispatchInductive
  <1>6. worker'[w] = k /\ dispatches' = dispatches /\ runs' = runs
    BY <1>1, <1>5, WorkerTypes DEF lifecycleVars
  <1>7. SoundWorker(w)'
    BY <1>1, <1>2, <1>3, <1>4, <1>6 DEF SoundWorker
  <1> QED
    BY <1>1, <1>4, <1>5, <1>7, LocalStep DEF DispatchInductive

LEMMA PollFindsRunKeeps ==
    ASSUME DispatchInductive, NEW w \in Workers, PollFindsRun(w),
           UNCHANGED <<crashes, now, planningVars>>
    PROVE  DispatchInductive'
  <1> DEFINE run == dispatches[Len(dispatches)].run
             k == [Idle EXCEPT !.pc = "query", !.run = run]
  <1>1. CASE run = None
    BY <1>1, EndKeeps DEF Ends, PollFindsRun, DispatchInductive
  <1>2. CASE run # None
    <2>1. worker' = [worker EXCEPT ![w] = k] /\ UNCHANGED <<lifecycleVars, runs>>
      BY <1>2 DEF PollFindsRun
    <2>2. dispatches # <<>>
      BY DEF PollFindsRun, DispatchInductive, SoundWorker
    <2>3. run \in DOMAIN runs /\ run \in Runs \cup {None}
      <3>1. Len(dispatches) \in DOMAIN dispatches /\ dispatches \in Seq(Dispatches)
        BY <2>2, LatestDispatch DEF DispatchInductive, Records, TypeOK
      <3>2. run \in DOMAIN runs
        BY <1>2, <3>1 DEF DispatchInductive, Records, RecordedRunsExist
      <3>3. dispatches[Len(dispatches)] \in Dispatches
        BY <3>1
      <3>4. run \in Runs \cup {None}
        BY <3>3 DEF Dispatches
      <3> QED
        BY <3>2, <3>4
    <2>4. k \in WorkerStates /\ k.pc = "query" /\ k.run = run
      BY <2>3, WorkerTypes DEF WorkerStates, Steps, Idle
    <2>5. worker'[w] = k /\ dispatches' = dispatches /\ runs' = runs
      BY <2>1, WorkerTypes DEF lifecycleVars
    <2>6. SoundWorker(w)'
      BY <1>2, <2>2, <2>3, <2>4, <2>5 DEF SoundWorker, OnDispatch
    <2> QED
      BY <2>1, <2>4, <2>6, LocalStep DEF DispatchInductive
  <1> QED
    BY <1>1, <1>2

LEMMA ReadParentKeeps ==
    ASSUME DispatchInductive, NEW w \in Workers, ReadParent(w),
           UNCHANGED <<crashes, now, planningVars>>
    PROVE  DispatchInductive'
  <1>1. PICK pc \in {"ack", "report"} :
           /\ worker[w].pc = IF pc = "ack" THEN "ackParent" ELSE "reportParent"
           /\ worker' = [worker EXCEPT ![w].pc = pc, ![w].parent = snap.parent]
           /\ UNCHANGED <<lifecycleVars, runs>>
    BY WorkerTypes DEF ReadParent
  <1> DEFINE k == [worker[w] EXCEPT !.pc = pc, !.parent = snap.parent]
  <1>2. SoundWorker(w)
    BY DEF DispatchInductive
  <1>3. snap.parent \in Nat
    BY DEF DispatchInductive, Records, TypeOK, Snapshots
  <1>4. /\ k \in WorkerStates /\ k.pc = pc /\ k.dispatch = worker[w].dispatch
        /\ k.run = worker[w].run /\ k.type = worker[w].type
    BY <1>3, WorkerTypes DEF WorkerStates, Steps
  <1>5. worker' = [worker EXCEPT ![w] = k]
    BY <1>1, WorkerTypes DEF DispatchInductive
  <1>6. worker'[w] = k /\ dispatches' = dispatches /\ runs' = runs
    BY <1>1, <1>5, WorkerTypes DEF lifecycleVars
  <1>7. SoundWorker(w)'
    BY <1>1, <1>2, <1>4, <1>6 DEF SoundWorker, OnDispatch
  <1> QED
    BY <1>1, <1>4, <1>5, <1>7, LocalStep DEF DispatchInductive

LEMMA QueryRunKeeps ==
    ASSUME DispatchInductive, NEW w \in Workers, QueryRun(w),
           UNCHANGED <<crashes, now, planningVars>>
    PROVE  DispatchInductive'
  <1> DEFINE type == ReportType(runs[worker[w].run].outcome)
             k == [worker[w] EXCEPT !.pc = "reportParent", !.type = type,
                                    !.key = runs[worker[w].run].key]
  <1>1. SoundWorker(w) /\ worker[w].pc = "query"
    BY DEF DispatchInductive, QueryRun
  <1>2. runs[worker[w].run].outcome \in Outcomes /\ runs[worker[w].run].key \in Keys
    <2>1. worker[w].run \in DOMAIN runs
      BY <1>1 DEF SoundWorker
    <2>2. runs[worker[w].run] \in RunRecords
      BY <2>1 DEF DispatchInductive, Records
    <2> QED
      BY <2>2 DEF RunRecords
  <1>3. type \in ReportTypes /\ type \in ResponseTypes
    <2>1. runs[worker[w].run].outcome \in
             {"running", "completed", "question", "failed", "malformed"}
      BY <1>2, DispatchAssumption DEF Outcomes
    <2> QED
      BY <2>1 DEF ReportType, ReportTypes, RunBoundTypes, ResponseTypes
  <1>4. /\ k \in WorkerStates /\ k.pc = "reportParent" /\ k.type = type
        /\ k.run = worker[w].run /\ k.dispatch = worker[w].dispatch
    BY <1>2, <1>3, WorkerTypes DEF WorkerStates, Steps
  <1>5. worker' = [worker EXCEPT ![w] = k]
    BY WorkerTypes DEF QueryRun, DispatchInductive
  <1>6. worker'[w] = k /\ dispatches' = dispatches /\ runs' = runs
    BY <1>5, WorkerTypes DEF QueryRun, lifecycleVars
  <1>7. SoundWorker(w)'
    BY <1>1, <1>3, <1>4, <1>6 DEF SoundWorker, OnDispatch
  <1> QED
    BY <1>4, <1>5, <1>7, LocalStep DEF QueryRun, DispatchInductive
-------------------------------------------------------------------------------
\* A transaction that updates the record of a dispatch, and what its worker does next.
LEMMA UpdateStep ==
    ASSUME DispatchInductive, NEW w \in Workers, NEW k \in WorkerStates,
           worker' = [worker EXCEPT ![w] = k],
           NEW n \in DOMAIN dispatches, NEW record \in Dispatches,
           record.plan = dispatches[n].plan, record.at = dispatches[n].at,
           dispatches[n].attemptCount > 0 => record.attemptCount > 0,
           record.run # None => record.run \in DOMAIN runs,
           record.state = "ACKNOWLEDGED" =>
              \E r \in Acknowledgements : r.key = n /\ r.run = record.run,
           UpdatesDispatch(n, record), UNCHANGED <<runs, crashes, now, planningVars>>,
           \/ k = Idle
           \/ /\ k.pc \in {"mark", "ackParent"}
              /\ k.dispatch \in DOMAIN dispatches
              /\ k.run # None => k.run \in DOMAIN runs
    PROVE  DispatchInductive'
  <1>1. /\ Records' /\ Grows /\ DOMAIN dispatches' = DOMAIN dispatches
        /\ responses' = responses
    BY UpdateKeepsRecords DEF DispatchInductive
  <1>2. worker' \in [Workers -> WorkerStates] /\ worker'[w] = k
    BY DEF DispatchInductive
  <1>3. SoundWorker(w)'
    <2>1. CASE k = Idle
      BY <1>2, <2>1 DEF SoundWorker, Idle, OnDispatch
    <2>2. CASE k.pc \in {"mark", "ackParent"} /\ k # Idle
      BY <1>1, <1>2, <2>2 DEF SoundWorker, OnDispatch, Grows
    <2> QED
      BY <2>1, <2>2
  <1>4. \A v \in Workers : \/ worker'[v] = worker[v]
                           \/ SoundWorker(v)' /\ worker'[v].pc # "submit"
    BY <1>2, <1>3, WorkerTypes DEF Idle
  <1> QED
    BY <1>1, <1>2, <1>4, QuietStep DEF DispatchInductive
LEMMA DispatchFacts ==
    ASSUME DispatchInductive, NEW n \in DOMAIN dispatches
    PROVE  LET d == dispatches[n] IN
           /\ d \in Dispatches
           /\ d.run # None => d.run \in DOMAIN runs
           /\ d.state = "ACKNOWLEDGED" =>
                 \E r \in Acknowledgements : r.key = n /\ r.run = d.run
           /\ n \in 1..MaxAttempts
  BY DispatchAssumption
     DEF DispatchInductive, Records, TypeOK, RecordedRunsExist, SettledMeansAcknowledged

LEMMA MarkKeeps ==
    ASSUME DispatchInductive, NEW w \in Workers, MarkReconciliation(w),
           UNCHANGED <<crashes, now, planningVars>>
    PROVE  DispatchInductive'
  <1> DEFINE n == worker[w].dispatch
             d == dispatches[n]
             record == [d EXCEPT !.state = "RECONCILIATION_REQUIRED", !.leaseOwner = None]
  <1>1. n \in DOMAIN dispatches
    BY DEF MarkReconciliation, DispatchInductive, SoundWorker, OnDispatch
  <1>2. d \in Dispatches /\ (d.run # None => d.run \in DOMAIN runs)
    BY <1>1, DispatchFacts
  <1>3. /\ record \in Dispatches /\ record.plan = d.plan /\ record.at = d.at
        /\ record.attemptCount = d.attemptCount /\ record.run = d.run
        /\ record.state # "ACKNOWLEDGED"
    BY <1>2 DEF Dispatches, DispatchStates
  <1>4. UpdatesDispatch(n, record) /\ worker' = [worker EXCEPT ![w] = Idle] /\ runs' = runs
    BY DEF MarkReconciliation, Ends
  <1> HIDE DEF record, d, n
  <1> QED
    BY <1>1, <1>2, <1>3, <1>4, WorkerTypes, UpdateStep DEF d

LEMMA SettleKeeps ==
    ASSUME DispatchInductive, NEW w \in Workers, SettleDispatch(w),
           UNCHANGED <<crashes, now, planningVars>>
    PROVE  DispatchInductive'
  <1> DEFINE n == worker[w].dispatch
             d == dispatches[n]
             record == [d EXCEPT !.state = "ACKNOWLEDGED", !.run = worker[w].run,
                                 !.leaseOwner = None, !.receipt = "execution.acknowledged"]
  <1>1. /\ n \in DOMAIN dispatches
        /\ worker[w].run # None => worker[w].run \in DOMAIN runs
        /\ \E r \in Acknowledgements : r.key = n /\ r.run = worker[w].run
    BY DEF SettleDispatch, DispatchInductive, SoundWorker, OnDispatch
  <1>2. d \in Dispatches /\ worker[w].run \in Runs \cup {None}
    BY <1>1, DispatchFacts, WorkerTypes DEF WorkerStates
  <1>3. /\ record \in Dispatches /\ record.plan = d.plan /\ record.at = d.at
        /\ record.attemptCount = d.attemptCount /\ record.run = worker[w].run
    BY <1>2 DEF Dispatches, DispatchStates, ResponseTypes
  <1>4. UpdatesDispatch(n, record) /\ worker' = [worker EXCEPT ![w] = Idle] /\ runs' = runs
    BY DEF SettleDispatch, Ends
  <1> HIDE DEF record, d, n
  <1> QED
    BY <1>1, <1>2, <1>3, <1>4, WorkerTypes, UpdateStep DEF d

LEMMA RememberKeeps ==
    ASSUME DispatchInductive, NEW w \in Workers, RememberReceipt(w),
           UNCHANGED <<crashes, now, planningVars>>
    PROVE  DispatchInductive'
  <1> DEFINE n == worker[w].dispatch
             d == dispatches[n]
             record == [d EXCEPT !.receipt = worker[w].type]
  <1>1. n \in DOMAIN dispatches /\ worker[w].type \in ResponseTypes
    BY DEF RememberReceipt, DispatchInductive, SoundWorker, OnDispatch, ReportTypes,
           RunBoundTypes, ResponseTypes
  <1>2. /\ d \in Dispatches /\ worker[w].type \in ResponseTypes
        /\ d.run # None => d.run \in DOMAIN runs
        /\ d.state = "ACKNOWLEDGED" =>
              \E r \in Acknowledgements : r.key = n /\ r.run = d.run
    BY <1>1, DispatchFacts, WorkerTypes DEF WorkerStates
  <1>3. /\ record \in Dispatches /\ record.plan = d.plan /\ record.at = d.at
        /\ record.attemptCount = d.attemptCount /\ record.run = d.run
        /\ record.state = d.state
    BY <1>2 DEF Dispatches
  <1>4. UpdatesDispatch(n, record) /\ worker' = [worker EXCEPT ![w] = Idle] /\ runs' = runs
    BY DEF RememberReceipt, Ends
  <1> HIDE DEF record, d, n
  <1> QED
    BY <1>1, <1>2, <1>3, <1>4, WorkerTypes, UpdateStep DEF d

\* The provider's acceptance is stored, unless the dispatch was settled meanwhile.
LEMMA PersistKeeps ==
    ASSUME DispatchInductive, NEW w \in Workers, PersistAcceptance(w),
           UNCHANGED <<crashes, now, planningVars>>
    PROVE  DispatchInductive'
  <1> DEFINE n == worker[w].dispatch
             d == dispatches[n]
             stored == IF d.state = "ACKNOWLEDGED" THEN d
                       ELSE [d EXCEPT !.state = "PROVIDER_ACCEPTED", !.run = worker[w].run]
             k == [worker[w] EXCEPT !.pc = "ackParent", !.run = stored.run]
  <1>1. /\ n \in DOMAIN dispatches
        /\ worker[w].run # None => worker[w].run \in DOMAIN runs
    BY DEF PersistAcceptance, DispatchInductive, SoundWorker, OnDispatch
  <1>2. /\ d \in Dispatches /\ worker[w].run \in Runs \cup {None}
        /\ d.run # None => d.run \in DOMAIN runs
        /\ d.state = "ACKNOWLEDGED" =>
              \E r \in Acknowledgements : r.key = n /\ r.run = d.run
    BY <1>1, DispatchFacts, WorkerTypes DEF WorkerStates
  <1>3. /\ stored \in Dispatches /\ stored.plan = d.plan /\ stored.at = d.at
        /\ stored.attemptCount = d.attemptCount /\ stored.run \in {d.run, worker[w].run}
        /\ stored.run \in Runs \cup {None}
        /\ stored.state = "ACKNOWLEDGED" => d.state = "ACKNOWLEDGED" /\ stored.run = d.run
    BY <1>2 DEF Dispatches, DispatchStates
  <1>4. /\ UpdatesDispatch(n, stored) /\ runs' = runs
        /\ worker' = [worker EXCEPT ![w].pc = "ackParent", ![w].run = stored.run]
    BY DEF PersistAcceptance
  <1> HIDE DEF stored, d
  <1>5. worker' = [worker EXCEPT ![w] = k]
    BY <1>4, WorkerTypes DEF DispatchInductive
  <1>6. k \in WorkerStates /\ k.pc = "ackParent" /\ k.dispatch = n /\ k.run = stored.run
    BY <1>3, WorkerTypes DEF WorkerStates, Steps
  <1>7. /\ stored.plan = dispatches[n].plan /\ stored.at = dispatches[n].at
        /\ dispatches[n].attemptCount > 0 => stored.attemptCount > 0
        /\ stored.run # None => stored.run \in DOMAIN runs
        /\ stored.state = "ACKNOWLEDGED" =>
              \E r \in Acknowledgements : r.key = n /\ r.run = stored.run
    BY <1>1, <1>2, <1>3 DEF d
  <1>8. k.dispatch \in DOMAIN dispatches /\ (k.run # None => k.run \in DOMAIN runs)
    BY <1>1, <1>6, <1>7
  <1> HIDE DEF k, n
  <1> QED
    BY <1>1, <1>3, <1>4, <1>5, <1>6, <1>7, <1>8, UpdateStep

LEMMA LeaseExpiresKeeps ==
    ASSUME DispatchInductive, NEW n \in DOMAIN dispatches, LeaseExpires(n),
           UNCHANGED <<crashes, now, planningVars>>
    PROVE  DispatchInductive'
  <1> DEFINE d == dispatches[n]
             record == [d EXCEPT !.leaseOwner = None]
  <1>1. /\ d \in Dispatches
        /\ d.run # None => d.run \in DOMAIN runs
        /\ d.state = "ACKNOWLEDGED" =>
              \E r \in Acknowledgements : r.key = n /\ r.run = d.run
    BY DispatchFacts
  <1>2. /\ record \in Dispatches /\ record.plan = d.plan /\ record.at = d.at
        /\ record.attemptCount = d.attemptCount /\ record.run = d.run
        /\ record.state = d.state
    BY <1>1 DEF Dispatches
  <1>3. UpdatesDispatch(n, record) /\ worker' = worker /\ runs' = runs
    BY DEF LeaseExpires
  <1> HIDE DEF record, d
  <1>4. Records' /\ Grows
    BY <1>1, <1>2, <1>3, UpdateKeepsRecords DEF DispatchInductive, d
  <1> QED
    BY <1>3, <1>4, QuietStep DEF DispatchInductive

\* The claim: whoever is sent to the provider counted the first attempt.
LEMMA ClaimKeeps ==
    ASSUME DispatchInductive, NEW w \in Workers, ClaimLease(w),
           UNCHANGED <<crashes, now, planningVars>>
    PROVE  DispatchInductive'
  <1> DEFINE n == worker[w].dispatch
             d == dispatches[n]
             claimed == Claimed(d, worker[w].actor)
             k == [worker[w] EXCEPT !.pc = AfterClaim(claimed), !.run = claimed.run,
                                    !.actor = None]
  <1>1. n \in DOMAIN dispatches
    BY DEF ClaimLease, DispatchInductive, SoundWorker, OnDispatch
  <1>2. /\ d \in Dispatches /\ worker[w].actor \in Actors \cup {None}
        /\ d.run # None => d.run \in DOMAIN runs
        /\ d.attemptCount \in Nat /\ d.run \in Runs \cup {None}
    BY <1>1, DispatchFacts, WorkerTypes DEF WorkerStates, Dispatches
  <1>3. /\ claimed \in Dispatches /\ claimed.plan = d.plan /\ claimed.at = d.at
        /\ claimed.attemptCount \in Nat /\ claimed.attemptCount > 0
        /\ claimed.run = d.run
        /\ claimed.attemptCount <= 1 => d.attemptCount = 0
        /\ claimed.state # "ACKNOWLEDGED"
    <2> DEFINE count == IF d.attemptCount < AttemptCap THEN d.attemptCount + 1
                                                        ELSE d.attemptCount
               owned == [d EXCEPT !.state = "LEASED", !.leaseOwner = worker[w].actor]
    <2>1. count \in Nat /\ count > 0 /\ (count <= 1 => d.attemptCount = 0)
      BY <1>2 DEF AttemptCap
    <2>2. /\ owned \in Dispatches /\ owned.plan = d.plan /\ owned.at = d.at
          /\ owned.run = d.run /\ owned.state = "LEASED"
          /\ owned.attemptCount = d.attemptCount
      BY <1>2 DEF Dispatches, DispatchStates
    <2>3. claimed = [owned EXCEPT !.attemptCount = count]
      BY <2>2 DEF Claimed
    <2> HIDE DEF count, owned, claimed
    <2> QED
      BY <2>1, <2>2, <2>3 DEF Dispatches
  <1>4. /\ UpdatesDispatch(n, claimed) /\ runs' = runs
        /\ worker' = [worker EXCEPT ![w].pc = AfterClaim(claimed), ![w].run = claimed.run,
                                    ![w].actor = None]
    <2> HIDE DEF claimed
    <2>1. UpdatesDispatch(n, claimed) /\ runs' = runs
      BY DEF ClaimLease, claimed
    <2>2. worker' = [worker EXCEPT ![w].pc = AfterClaim(claimed), ![w].run = claimed.run,
                                   ![w].actor = None]
      BY Zenon DEF ClaimLease, claimed
    <2> QED
      BY <2>1, <2>2
  <1> HIDE DEF claimed, d
  <1>5. /\ AfterClaim(claimed) \in {"ackParent", "mark", "submit"}
        /\ AfterClaim(claimed) = "submit" => claimed.run = None /\ d.attemptCount = 0
    BY <1>2, <1>3 DEF AfterClaim
  <1>6. worker' = [worker EXCEPT ![w] = k]
    BY <1>4, WorkerTypes DEF DispatchInductive
  <1>7. /\ k \in WorkerStates /\ k.pc = AfterClaim(claimed) /\ k.dispatch = n
        /\ k.run = d.run
    BY <1>2, <1>3, <1>5, WorkerTypes DEF WorkerStates, Steps
  <1> HIDE DEF k, n
  <1>8. CASE AfterClaim(claimed) # "submit"
    <2>1. /\ claimed.plan = dispatches[n].plan /\ claimed.at = dispatches[n].at
          /\ claimed.run # None => claimed.run \in DOMAIN runs
      BY <1>2, <1>3 DEF d
    <2>2. /\ k.pc \in {"mark", "ackParent"} /\ k.dispatch \in DOMAIN dispatches
          /\ k.run # None => k.run \in DOMAIN runs
      BY <1>1, <1>2, <1>5, <1>7, <1>8
    <2> QED
      BY <1>1, <1>3, <1>4, <1>6, <1>7, <2>1, <2>2, UpdateStep
  <1>9. CASE AfterClaim(claimed) = "submit"
    <2>1. /\ Records' /\ Grows /\ responses' = responses
          /\ dispatches' = [dispatches EXCEPT ![n] = claimed]
          /\ DOMAIN dispatches' = DOMAIN dispatches
      BY <1>1, <1>2, <1>3, <1>4, UpdateKeepsRecords DEF DispatchInductive, d
    <2>2. /\ worker' \in [Workers -> WorkerStates] /\ worker'[w] = k
          /\ \A v \in Workers : v # w => worker'[v] = worker[v]
      BY <1>6, <1>7 DEF DispatchInductive
    <2>3. dispatches # <<>> /\ dispatches' # <<>>
      BY <2>1 DEF ClaimLease, DispatchInductive, SoundWorker, Grows
    <2>4. SoundWorker(w)'
      BY <1>1, <1>2, <1>4, <1>5, <1>7, <1>9, <2>1, <2>2, <2>3 DEF SoundWorker
    <2>5. \A v \in Workers : SoundWorker(v)'
      BY <2>2, <2>1, <2>4, StaysSound
    <2>6. dispatches'[n].attemptCount > 0
      BY <1>1, <1>3, <2>1
    <2>7. \A r \in DOMAIN runs : runs[r].dispatch # n
      BY <1>1, <1>5, <1>9 DEF DispatchInductive, Records, RunsAreCounted, d
    <2>8. \A v \in Workers : worker[v].pc = "submit" => worker[v].dispatch # n
      BY <1>5, <1>9 DEF DispatchInductive, SoleSubmitter, d
    <2>9. SoleSubmitter(w)'
      BY <1>4, <1>7, <2>2, <2>6, <2>7, <2>8 DEF SoleSubmitter
    <2>10. ASSUME NEW v \in Workers, v # w
           PROVE  SoleSubmitter(v)'
      <3> SUFFICES ASSUME worker[v].pc = "submit"
                   PROVE  /\ dispatches'[worker[v].dispatch].attemptCount > 0
                          /\ \A r \in DOMAIN runs : runs[r].dispatch # worker[v].dispatch
                          /\ \A u \in Workers :
                                /\ worker'[u].pc = "submit"
                                /\ worker'[u].dispatch = worker[v].dispatch
                                => u = v
        BY <1>4, <2>2, <2>10 DEF SoleSubmitter
      <3>1. SoleSubmitter(v) /\ SoundWorker(v)
        BY DEF DispatchInductive
      <3>2. dispatches'[worker[v].dispatch].attemptCount > 0
        BY <2>1, <3>1 DEF Grows, SoleSubmitter, SoundWorker, OnDispatch
      <3>3. \A u \in Workers : /\ worker'[u].pc = "submit"
                               /\ worker'[u].dispatch = worker[v].dispatch
                               => u = v
        BY <1>7, <2>2, <2>8, <3>1 DEF SoleSubmitter
      <3> QED
        BY <3>1, <3>2, <3>3 DEF SoleSubmitter
    <2>11. OneRunPerDispatch'
      BY <1>4 DEF DispatchInductive, OneRunPerDispatch
    <2> QED
      BY <2>1, <2>2, <2>5, <2>9, <2>10, <2>11 DEF DispatchInductive
  <1> QED
    BY <1>8, <1>9

LEMMA CommitsKeeps ==
    ASSUME DispatchInductive, NEW w \in Workers, RefreshCommits(w),
           UNCHANGED <<crashes, now, planningVars>>
    PROVE  DispatchInductive'
  <1> DEFINE n == Len(dispatches) + 1
             k == [worker[w] EXCEPT !.pc = "claim", !.dispatch = n]
  <1>1. Records' /\ Grows /\ DOMAIN dispatches' = 1..n
    BY IntentKeepsRecords DEF RefreshCommits, DispatchInductive, IntentEvents
  <1>2. Len(dispatches) \in Nat /\ n \in 0..MaxAttempts /\ n \in DOMAIN dispatches'
    BY <1>1, DispatchAssumption DEF RefreshCommits, DispatchInductive, Records, TypeOK
  <1>3. worker' = [worker EXCEPT ![w] = k] /\ runs' = runs
    BY WorkerTypes DEF RefreshCommits, DispatchInductive
  <1>4. k \in WorkerStates /\ k.pc = "claim" /\ k.dispatch = n /\ k.run = worker[w].run
    BY <1>2, WorkerTypes DEF WorkerStates, Steps
  <1>5. /\ worker' \in [Workers -> WorkerStates] /\ worker'[w] = k
        /\ \A v \in Workers : v # w => worker'[v] = worker[v]
    BY <1>3, <1>4 DEF DispatchInductive
  <1>6. dispatches' # <<>>
    BY <1>1, <1>2
  <1>7. worker[w].run # None => worker[w].run \in DOMAIN runs
    BY DEF DispatchInductive, SoundWorker
  <1>8. SoundWorker(w)'
    BY <1>2, <1>3, <1>4, <1>5, <1>6, <1>7 DEF SoundWorker
  <1> QED
    BY <1>1, <1>3, <1>4, <1>5, <1>8, QuietStep DEF DispatchInductive
-------------------------------------------------------------------------------
\* The provider starts a run for the one worker that may post, and never another.
LEMMA StartKeeps ==
    ASSUME DispatchInductive, NEW w \in Workers, NEW k \in WorkerStates,
           worker[w].pc = "submit", Len(runs) < MaxRuns, ProviderStarts(worker[w].dispatch),
           worker' = [worker EXCEPT ![w] = k],
           \/ k = Idle
           \/ /\ k.pc \in {"accept", "mark"}
              /\ k.dispatch = worker[w].dispatch
              /\ k.run # None => k.run \in DOMAIN runs',
           UNCHANGED <<lifecycleVars, crashes, now, planningVars>>
    PROVE  DispatchInductive'
  <1> DEFINE n == worker[w].dispatch
             new == [dispatch |-> n, outcome |-> "running", key |-> Len(runs) + 1]
  <1>1. SoundWorker(w) /\ SoleSubmitter(w)
    BY DEF DispatchInductive
  <1>2. /\ n \in DOMAIN dispatches /\ n \in 1..MaxAttempts
        /\ dispatches[n].attemptCount > 0
        /\ \A r \in DOMAIN runs : runs[r].dispatch # n
    BY <1>1, DispatchFacts DEF SoundWorker, OnDispatch, SoleSubmitter
  <1>3. new \in RunRecords
    BY <1>2, DispatchAssumption DEF RunRecords, Outcomes, DispatchInductive, Records
  <1>4. /\ runs' \in Seq(RunRecords)
        /\ DOMAIN runs' = DOMAIN runs \cup {Len(runs) + 1}
        /\ \A r \in DOMAIN runs : runs'[r].dispatch = runs[r].dispatch
        /\ runs'[Len(runs) + 1].dispatch = n
        /\ Len(runs') <= MaxRuns
    <2>1. runs' = Append(runs, new)
      BY DEF ProviderStarts
    <2>2. runs \in Seq(RunRecords)
      BY DEF DispatchInductive, Records
    <2> QED
      BY <1>3, <2>1, <2>2, DispatchAssumption
  <1>5. UNCHANGED <<status, snap, responses, decisions, dispatches>>
    BY DEF lifecycleVars
  <1>6. Inductive' /\ TypeOK'
    BY <1>5, RestPreserves DEF DispatchInductive, Records, TypeOK, lifecycleVars, planningVars
  <1>7. RunsAreCounted' /\ RecordedRunsExist' /\ SettledMeansAcknowledged'
    <2>1. RunsAreCounted /\ RecordedRunsExist /\ SettledMeansAcknowledged
      BY DEF DispatchInductive, Records
    <2>2. RunsAreCounted'
      <3> HIDE DEF new
      <3> QED
        BY <1>2, <1>4, <1>5, <2>1 DEF RunsAreCounted
    <2>3. RecordedRunsExist'
      BY <1>4, <1>5, <2>1 DEF RecordedRunsExist
    <2>4. SettledMeansAcknowledged'
      BY <1>5, <2>1 DEF SettledMeansAcknowledged, Acknowledgements
    <2> QED
      BY <2>2, <2>3, <2>4
  <1>8. Records'
    BY <1>4, <1>5, <1>6, <1>7 DEF DispatchInductive, Records
  <1>9. Grows
    BY <1>4, <1>5 DEF Grows
  <1>10. /\ worker' \in [Workers -> WorkerStates] /\ worker'[w] = k
         /\ \A v \in Workers : v # w => worker'[v] = worker[v]
         /\ k.pc # "submit"
    BY DEF DispatchInductive, Idle
  <1>11. SoundWorker(w)'
    <2>1. CASE k = Idle
      BY <1>10, <2>1 DEF SoundWorker, Idle, OnDispatch
    <2>2. CASE k # Idle
      BY <1>1, <1>2, <1>5, <1>10, <2>2 DEF SoundWorker
    <2> QED
      BY <2>1, <2>2
  <1>12. \A v \in Workers : SoundWorker(v)'
    BY <1>9, <1>10, <1>11, StaysSound
  <1>13. ASSUME NEW v \in Workers
         PROVE  SoleSubmitter(v)'
    <2> SUFFICES ASSUME worker'[v].pc = "submit"
                 PROVE  SoleSubmitter(v)'
      BY DEF SoleSubmitter
    <2>1. v # w /\ worker'[v] = worker[v] /\ SoleSubmitter(v)
      BY <1>10 DEF DispatchInductive
    <2>2. worker[v].dispatch # n
      BY <1>1, <2>1 DEF SoleSubmitter
    <2>3. \A u \in Workers : worker'[u].pc = "submit" => worker'[u] = worker[u]
      BY <1>10
    <2> QED
      BY <1>4, <1>5, <2>1, <2>2, <2>3 DEF SoleSubmitter
  <1>14. OneRunPerDispatch'
    BY <1>2, <1>4 DEF DispatchInductive, OneRunPerDispatch
  <1> QED
    BY <1>8, <1>10, <1>12, <1>13, <1>14 DEF DispatchInductive

LEMMA SubmitAcceptedKeeps ==
    ASSUME DispatchInductive, NEW w \in Workers, SubmitAccepted(w),
           UNCHANGED <<crashes, now, planningVars>>
    PROVE  DispatchInductive'
  <1> DEFINE k == [worker[w] EXCEPT !.pc = "accept", !.run = Len(runs) + 1]
  <1>1. Len(runs) + 1 \in Runs /\ Len(runs) + 1 \in DOMAIN runs'
    BY DispatchAssumption DEF SubmitAccepted, ProviderStarts, DispatchInductive, Records
  <1>2. worker' = [worker EXCEPT ![w] = k]
    BY WorkerTypes DEF SubmitAccepted, DispatchInductive
  <1>3. /\ k \in WorkerStates /\ k.pc = "accept" /\ k.run = Len(runs) + 1
        /\ k.dispatch = worker[w].dispatch
    BY <1>1, WorkerTypes DEF WorkerStates, Steps
  <1>4. /\ worker[w].pc = "submit" /\ Len(runs) < MaxRuns
        /\ ProviderStarts(worker[w].dispatch) /\ UNCHANGED lifecycleVars
    BY DEF SubmitAccepted
  <1> HIDE DEF k
  <1> QED
    BY <1>1, <1>2, <1>3, <1>4, StartKeeps

\* No answer, or an error: the run may have been started all the same.
LEMMA SubmitUnansweredKeeps ==
    ASSUME DispatchInductive, NEW w \in Workers, SubmitUnanswered(w),
           UNCHANGED <<crashes, now, planningVars>>
    PROVE  DispatchInductive'
  <1> DEFINE k == [worker[w] EXCEPT !.pc = "mark"]
  <1>1. worker[w].pc = "submit" /\ UNCHANGED lifecycleVars
    BY DEF SubmitUnanswered
  <1>2. SoundWorker(w)
    BY DEF DispatchInductive
  <1>3. /\ k \in WorkerStates /\ k.pc = "mark" /\ k.run = worker[w].run
        /\ k.dispatch = worker[w].dispatch
    BY WorkerTypes DEF WorkerStates, Steps
  <1>4. worker' = [worker EXCEPT ![w] = k] \/ worker' = [worker EXCEPT ![w] = Idle]
    BY WorkerTypes DEF SubmitUnanswered, Goes, Ends, DispatchInductive
  <1>5. CASE UNCHANGED runs
    <2>1. CASE worker' = [worker EXCEPT ![w] = k]
      <3>1. worker'[w] = k /\ dispatches' = dispatches
        BY <1>1, <2>1, WorkerTypes DEF lifecycleVars
      <3>2. SoundWorker(w)'
        BY <1>1, <1>2, <1>3, <1>5, <3>1 DEF SoundWorker, OnDispatch
      <3> QED
        BY <1>1, <1>3, <1>5, <2>1, <3>2, LocalStep DEF DispatchInductive
    <2>2. CASE worker' = [worker EXCEPT ![w] = Idle]
      BY <1>1, <1>5, <2>2, EndKeeps DEF Ends, DispatchInductive
    <2> QED
      BY <1>4, <2>1, <2>2
  <1>6. CASE Len(runs) < MaxRuns /\ ProviderStarts(worker[w].dispatch)
    <2>1. worker[w].run # None => worker[w].run \in DOMAIN runs'
      BY <1>2, <1>6 DEF SoundWorker, ProviderStarts, DispatchInductive, Records
    <2>2. Idle \in WorkerStates
      BY WorkerTypes
    <2> HIDE DEF k
    <2> QED
      BY <1>1, <1>3, <1>4, <1>6, <2>1, <2>2, StartKeeps
  <1> QED
    BY <1>5, <1>6 DEF SubmitUnanswered

\* A provider's run ends; whose it is stays.
LEMMA RunEndsKeeps ==
    ASSUME DispatchInductive, NEW r \in DOMAIN runs, RunEnds(r),
           UNCHANGED <<crashes, now, planningVars>>
    PROVE  DispatchInductive'
  <1>1. PICK outcome \in Endings, key \in AgentKeys \cup {r} :
           runs' = [runs EXCEPT ![r].outcome = outcome, ![r].key = key]
    BY DEF RunEnds
  <1>2. runs \in Seq(RunRecords) /\ runs[r] \in RunRecords
    BY DEF DispatchInductive, Records
  <1> DEFINE ended == [runs[r] EXCEPT !.outcome = outcome, !.key = key]
  <1>3. ended \in RunRecords /\ ended.dispatch = runs[r].dispatch
    <2>1. runs[r].key \in Keys
      BY <1>2 DEF RunRecords
    <2>2. key \in Keys
      BY <1>2, DispatchAssumption DEF DispatchInductive, Records
    <2> QED
      BY <1>2, <2>2 DEF RunRecords, Outcomes
  <1>4. /\ runs' \in Seq(RunRecords)
        /\ DOMAIN runs' = DOMAIN runs /\ Len(runs') = Len(runs)
        /\ \A s \in DOMAIN runs : runs'[s].dispatch = runs[s].dispatch
    <2>1. runs' = [runs EXCEPT ![r] = ended]
      BY <1>1
    <2> HIDE DEF ended
    <2> QED
      BY <1>2, <1>3, <2>1
  <1>5. UNCHANGED <<status, snap, responses, decisions, dispatches, worker>>
    BY DEF RunEnds, lifecycleVars
  <1>6. Inductive' /\ TypeOK'
    BY <1>5, RestPreserves DEF DispatchInductive, Records, TypeOK, lifecycleVars, planningVars
  <1>7. RunsAreCounted' /\ RecordedRunsExist' /\ SettledMeansAcknowledged'
    BY <1>4, <1>5 DEF DispatchInductive, Records, RunsAreCounted, RecordedRunsExist,
       SettledMeansAcknowledged, Acknowledgements
  <1>8. Records' /\ Grows
    BY <1>4, <1>5, <1>6, <1>7 DEF DispatchInductive, Records, Grows
  <1> QED
    BY <1>4, <1>5, <1>8, QuietStep DEF DispatchInductive
-------------------------------------------------------------------------------
\* The acknowledgement is stored before its worker may settle the dispatch.
LEMMA SubmitAckKeeps ==
    ASSUME DispatchInductive, NEW w \in Workers, SubmitAck(w),
           UNCHANGED <<crashes, now, planningVars>>
    PROVE  DispatchInductive'
  <1> DEFINE p == AckPacket(w)
             k == [worker[w] EXCEPT !.pc = "settle", !.parent = 0]
  <1>1. SoundWorker(w) /\ worker[w].dispatch \in DOMAIN dispatches
    BY DEF DispatchInductive, SubmitAck, SoundWorker, OnDispatch
  <1>2. /\ IsClientPacket(p) /\ p.type = "execution.acknowledged"
        /\ p.key = worker[w].dispatch /\ p.run = worker[w].run
    <2>1. snap.version \in Nat
      BY DEF DispatchInductive, Records, TypeOK, Snapshots
    <2> QED
      BY <2>1, WorkerTypes, DispatchAssumption
         DEF AckPacket, TrustedPacket, Packets, WorkerStates, ResponseTypes, IsClientPacket
  <1> HIDE DEF p
  <1>3. SubmitResponse(Recipient, p) /\ runs' = runs
    BY DEF SubmitAck, p
  <1>4. /\ Records' /\ Grows /\ dispatches' = dispatches
        /\ StoredResponse(p, Recipient) \in responses'
    BY <1>2, <1>3, DispatchAssumption, SubmitKeepsRecords DEF DispatchInductive
  <1>5. \E r \in Acknowledgements' : r.key = worker[w].dispatch /\ r.run = worker[w].run
    <2>1. /\ StoredResponse(p, Recipient).type = "execution.acknowledged"
          /\ StoredResponse(p, Recipient).key = worker[w].dispatch
          /\ StoredResponse(p, Recipient).run = worker[w].run
      BY <1>2 DEF StoredResponse
    <2> QED
      BY <1>4, <2>1 DEF Acknowledgements
  <1>6. worker' = [worker EXCEPT ![w] = k]
    BY WorkerTypes DEF SubmitAck, DispatchInductive
  <1>7. /\ k \in WorkerStates /\ k.pc = "settle" /\ k.dispatch = worker[w].dispatch
        /\ k.run = worker[w].run
    BY WorkerTypes DEF WorkerStates, Steps
  <1> HIDE DEF k
  <1>8. /\ worker' \in [Workers -> WorkerStates] /\ worker'[w] = k
        /\ \A v \in Workers : v # w => worker'[v] = worker[v]
    BY <1>6, <1>7 DEF DispatchInductive
  <1>9. SoundWorker(w)'
    BY <1>1, <1>3, <1>4, <1>5, <1>7, <1>8 DEF SoundWorker
  <1> QED
    BY <1>3, <1>4, <1>7, <1>8, <1>9, QuietStep DEF DispatchInductive

\* A report on the run; the receipt goes to the dispatch later.
LEMMA SubmitReportKeeps ==
    ASSUME DispatchInductive, NEW w \in Workers, SubmitReport(w),
           UNCHANGED <<crashes, now, planningVars>>
    PROVE  DispatchInductive'
  <1> DEFINE p == ReportPacket(w)
             k == IF worker[w].type = "execution.progress" THEN Idle
                  ELSE [Idle EXCEPT !.pc = "remember", !.type = worker[w].type]
  <1>1. /\ dispatches # <<>> /\ worker[w].type \in ReportTypes
        /\ worker[w].type \in ResponseTypes /\ worker[w].type # "plan.completed"
        /\ worker[w].run # None
    BY DEF DispatchInductive, SubmitReport, SoundWorker, ReportTypes, RunBoundTypes, ResponseTypes
  <1>2. IsClientPacket(p) /\ p.type = worker[w].type
    BY <1>1, WorkerTypes
       DEF ReportPacket, TrustedPacket, Packets, WorkerStates, IsClientPacket,
           DispatchInductive, Records, TypeOK, Snapshots
  <1> HIDE DEF p
  <1>3. SubmitResponse(Recipient, p) /\ runs' = runs /\ worker' = [worker EXCEPT ![w] = k]
    BY WorkerTypes DEF SubmitReport, p
  <1>4. Records' /\ Grows
    BY <1>1, <1>2, <1>3, DispatchAssumption, SubmitKeepsRecords DEF DispatchInductive
  <1>5. /\ k \in WorkerStates /\ k.run = None /\ k.pc \in {"idle", "remember"}
        /\ k.pc = "remember" => k.type \in ReportTypes
    BY <1>1, WorkerTypes DEF WorkerStates, Steps, Idle
  <1> HIDE DEF k
  <1>6. /\ worker' \in [Workers -> WorkerStates] /\ worker'[w] = k
        /\ \A v \in Workers : v # w => worker'[v] = worker[v]
    BY <1>3, <1>5 DEF DispatchInductive
  <1>7. SoundWorker(w)'
    BY <1>1, <1>4, <1>5, <1>6 DEF SoundWorker, OnDispatch, Grows
  <1> QED
    BY <1>3, <1>4, <1>5, <1>6, <1>7, QuietStep DEF DispatchInductive
\* The planner's moves and hand-made reports are handlers of the work order.
LEMMA HandlerStepKeeps ==
    ASSUME DispatchInductive, Records', Grows, UNCHANGED <<worker, runs, crashes>>
    PROVE  DispatchInductive'
  BY QuietStep DEF DispatchInductive

LEMMA PlannerKeeps ==
    ASSUME DispatchInductive, PlannerStep, UNCHANGED <<crashes, now, planningVars>>
    PROVE  DispatchInductive'
  <1>1. /\ Sender \in Actors /\ Len(dispatches) \in Keys /\ snap.parent \in Nat
        /\ MessageIds \subseteq 1..(snap.version + 1) /\ MessageIds \subseteq Nat
    BY LifecycleAssumption, DispatchAssumption
       DEF DispatchInductive, Records, TypeOK, Snapshots, MessageIds
  <1>2. UNCHANGED <<worker, runs, crashes>> /\ Records
    BY DEF PlannerStep, DispatchInductive
  <1>3. CASE AnswerQuestion(Sender) \/ RequestCompletionReview(Sender)
    BY <1>1, <1>2, <1>3, BrokerKeepsRecords, HandlerStepKeeps
       DEF AnswerQuestion, RequestCompletionReview
  <1>4. ASSUME NEW id \in MessageIds, NEW outcome \in {"APPROVED", "REVISE"},
               SubmitResponse(Sender, ReviewPacket(id, outcome))
        PROVE  DispatchInductive'
    <2>1. IsClientPacket(ReviewPacket(id, outcome))
      BY <1>1 DEF ReviewPacket, Packets, ResponseTypes, ReviewOutcomes, IsClientPacket
    <2> QED
      BY <1>1, <1>2, <1>4, <2>1, SubmitKeepsRecords, HandlerStepKeeps
  <1>5. ASSUME NEW type \in {"accept_completion", "request_revision", "cancel"},
               RecordDecision(HumanDecision(type))
        PROVE  DispatchInductive'
    <2>1. HumanDecision(type) \in Decisions
      BY <1>1 DEF HumanDecision, Decisions, DecisionTypes
    <2> QED
      BY <1>2, <1>5, <2>1, DecideKeepsRecords, HandlerStepKeeps
  <1>6. ASSUME NEW event \in IntentEvents, Len(dispatches) < MaxAttempts,
               CommitExecutionIntent(event, Sender, None)
        PROVE  DispatchInductive'
    BY <1>2, <1>6, IntentKeepsRecords, HandlerStepKeeps
  <1> QED
    BY <1>3, <1>4, <1>5, <1>6 DEF PlannerStep

LEMMA ManualReportKeeps ==
    ASSUME DispatchInductive, NEW actor \in Reporters, ManualReport(actor),
           UNCHANGED <<crashes, now, planningVars>>
    PROVE  DispatchInductive'
  <1>1. PICK type \in RunBoundTypes \cup {"execution.acknowledged"}, run \in Runs,
             id \in MessageIds :
           SubmitResponse(actor, [TrustedPacket(type, 0, snap.parent, run) EXCEPT !.id = id])
    BY DEF ManualReport
  <1> DEFINE p == [TrustedPacket(type, 0, snap.parent, run) EXCEPT !.id = id]
  <1>2. /\ 0 \in Keys /\ snap.parent \in Nat /\ actor \in Actors
        /\ id \in 1..(snap.version + 1) /\ id \in Nat
    BY DispatchAssumption DEF DispatchInductive, Records, TypeOK, Snapshots, MessageIds
  <1>3. IsClientPacket(p)
    BY <1>2 DEF TrustedPacket, Packets, RunBoundTypes, ResponseTypes, IsClientPacket
  <1> HIDE DEF p
  <1>4. SubmitResponse(actor, p)
    BY <1>1 DEF p
  <1> QED
    BY <1>2, <1>3, <1>4, SubmitKeepsRecords, HandlerStepKeeps
       DEF ManualReport, DispatchInductive
-------------------------------------------------------------------------------
LEMMA WorkerStepKeeps ==
    ASSUME DispatchInductive, NEW w \in Workers, WorkerStep(w),
           UNCHANGED <<crashes, now, planningVars>>
    PROVE  DispatchInductive'
  <1>1. ASSUME \/ RefreshCommitRefused(w) \/ ClaimRefused(w)
               \/ SubmitAckRefused(w) \/ SubmitReportRefused(w)
        PROVE  DispatchInductive'
    BY <1>1, EndKeeps DEF RefreshCommitRefused, ClaimRefused, SubmitAckRefused,
       SubmitReportRefused, DispatchInductive
  <1> QED
    BY <1>1, RefreshKeeps, CommitsKeeps, FindsIntentKeeps, FindsLatestKeeps, PollFindsRunKeeps,
       ClaimKeeps, SubmitAcceptedKeeps, SubmitUnansweredKeeps, MarkKeeps, PersistKeeps,
       ReadParentKeeps, SubmitAckKeeps, SettleKeeps, QueryRunKeeps, SubmitReportKeeps,
       RememberKeeps
    DEF WorkerStep

\* The invariant behind the theorems: whatever workers race, die, time out or come late,
\* only the first claim of a dispatch is followed by a call to the provider.
THEOREM DispatchInvariant == DispatchSpec => []DispatchInductive
  <1>1. DispatchInductive /\ [DispatchNext]_allVars => DispatchInductive'
    <2> SUFFICES ASSUME DispatchInductive, [DispatchNext]_allVars
                 PROVE  DispatchInductive'
      OBVIOUS
    <2>1. ASSUME NEW w \in Workers, WorkerStep(w), UNCHANGED <<crashes, now, planningVars>>
          PROVE  DispatchInductive'
      BY <2>1, WorkerStepKeeps
    <2>2. ASSUME NEW n \in DOMAIN dispatches, LeaseExpires(n),
                 UNCHANGED <<crashes, now, planningVars>>
          PROVE  DispatchInductive'
      BY <2>2, LeaseExpiresKeeps
    <2>3. ASSUME NEW r \in DOMAIN runs, RunEnds(r), UNCHANGED <<crashes, now, planningVars>>
          PROVE  DispatchInductive'
      BY <2>3, RunEndsKeeps
    <2>4. ASSUME PlannerStep, UNCHANGED <<crashes, now, planningVars>>
          PROVE  DispatchInductive'
      BY <2>4, PlannerKeeps
    <2>5. ASSUME NEW actor \in Reporters, ManualReport(actor),
                 UNCHANGED <<crashes, now, planningVars>>
          PROVE  DispatchInductive'
      BY <2>5, ManualReportKeeps
    <2>6. ASSUME NEW w \in Workers, Crash(w), UNCHANGED <<now, planningVars>>
          PROVE  DispatchInductive'
      <3>1. crashes' \in 0..MaxCrashes
        BY <2>6, DispatchAssumption DEF Crash, DispatchInductive
      <3> QED
        BY <2>6, <3>1, EndKeeps DEF Crash
    <2>7. CASE (Tick /\ UNCHANGED dispatchVars) \/ UNCHANGED allVars
      <3>1. now' \in Nat /\ UNCHANGED <<lifecycleVars, runs, planningVars, worker, crashes>>
        BY <2>7
           DEF Tick, allVars, vars, lifecycleVars, planningVars, dispatchVars,
               DispatchInductive, Records, TypeOK
      <3> QED
        BY <3>1, RestKeepsRecords, HandlerStepKeeps DEF DispatchInductive
    <2> QED
      BY <2>1, <2>2, <2>3, <2>4, <2>5, <2>6, <2>7 DEF DispatchNext, ExecutionStep
  <1> QED
    BY <1>1, InitHolds, PTL DEF DispatchSpec

\* Each variable of the composed system stays in its set.
THEOREM DispatchTypes == DispatchSpec => []DispatchTypeOK
  BY DispatchInvariant, PTL DEF DispatchInductive, Records, DispatchTypeOK

\* An attempt never starts a second run (claim_execution_lease, attempt_count and
\* recovery together).
THEOREM SingleRun == DispatchSpec => []OneRunPerDispatch
  BY DispatchInvariant, PTL DEF DispatchInductive

\* A settled dispatch was acknowledged, with the run it names (_persist_execution_ack
\* stores the packet before it settles the record).
THEOREM SettledIsAcknowledged == DispatchSpec => []SettledMeansAcknowledged
  BY DispatchInvariant, PTL DEF DispatchInductive, Records

\* With any number of workers between the planner and the provider, the work order
\* keeps its promises: every handler is called with the lock held.
THEOREM WorkOrderStaysSafe ==
    DispatchSpec => [](/\ ApprovedBeforeExecution /\ SeparationOfDuties
                       /\ LineageIsLinear /\ OneEffectPerKey)
  BY DispatchInvariant, PTL DEF DispatchInductive, Records, Inductive
===============================================================================

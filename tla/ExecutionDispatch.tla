--------------------------- MODULE ExecutionDispatch ---------------------------
(***************************************************************************)
(* Handing an approved plan to the provider (refresh_external_run).  Any   *)
(* number of workers run the same reconciler: each reads the work order    *)
(* outside the lock, claims a lease on the dispatch, calls the provider    *)
(* outside every lock, and stores what came back in several transactions.  *)
(* A worker may die between any two of them.  Meanwhile the planner        *)
(* answers, reviews, revises and cancels.                                  *)
(*                                                                         *)
(* A worker's `pc' is the step it does next.  A refused call raises and    *)
(* ends the refresh.  Refreshes of a work order that waits for an answer   *)
(* or is finished only read.  The lease's deadline is LeaseExpires: thirty *)
(* seconds may pass between any two steps, so an expired lease is one      *)
(* without an owner.  A packet built by a worker is never a replay of the  *)
(* stored one: its created_at is new, so a known key is a conflict.        *)
(***************************************************************************)
EXTENDS WorkOrder

CONSTANTS
    Workers,       \* processes that may run refresh_external_run at the same time
    Callers,       \* participants in whose name workers refresh
    Reporters,     \* participants who also submit execution packets by hand
    Endings,       \* what a provider run may end in
    AgentKeys,     \* idempotency keys an agent may put into its last packet
    MaxAttempts,   \* bound on the dispatches of the work order
    MaxRuns,       \* bound on the runs the provider starts
    MaxCrashes     \* bound on the workers that die

ASSUME DispatchAssumption ==
    /\ Recipient \in Actors /\ Callers \subseteq Actors /\ Reporters \subseteq Actors
    /\ AgentKeys \subseteq Keys
    /\ Endings \subseteq {"completed", "failed", "malformed", "question"}
    /\ {MaxAttempts, MaxRuns, MaxCrashes} \subseteq Nat
    /\ Runs = 1..MaxRuns
    /\ Keys = 0..MaxRuns
    /\ MaxAttempts <= MaxRuns

VARIABLES
    worker,    \* what each worker does next, and what it read on the way there
    runs,      \* the provider's runs: the dispatch each belongs to, its outcome, and the
               \* key the outcome is reported under
    crashes    \* workers that died so far

dispatchVars == <<worker, runs, crashes>>
allVars == <<vars, dispatchVars>>

Outcomes == {"running"} \cup Endings

RunRecords == [dispatch : 1..MaxAttempts, outcome : Outcomes, key : Keys]

Steps ==
    {"idle", "commit", "advance", "claim", "submit", "accept", "mark", "ackParent", "ack",
     "settle", "poll", "query", "reportParent", "report", "remember", "rememberOn"}

\* Attempts are only ever compared with 1.
AttemptCap == 2

WorkerStates ==
    [pc : Steps, actor : Actors \cup {None}, dispatch : 0..MaxAttempts,
     run : Runs \cup {None}, parent : Nat, type : ResponseTypes \cup {None}, key : Keys]

Idle ==
    [pc |-> "idle", actor |-> None, dispatch |-> 0, run |-> None, parent |-> 0,
     type |-> None, key |-> 0]

DispatchTypeOK ==
    /\ TypeOK
    /\ worker \in [Workers -> WorkerStates]
    /\ runs \in Seq(RunRecords)
    /\ crashes \in 0..MaxCrashes

\* The plan arrived by plan.completed and the sender approved it, for ever or until
\* some instant still to come.
PlanCompleted(plan) ==
    [id |-> 2, type |-> "plan.completed", key |-> 0, parent |-> 1, run |-> None, plan |-> plan,
     outcome |-> None, actor |-> Recipient, at |-> 2]

PlanApproved(plan, expires) ==
    [type |-> "approve_plan", actor |-> Sender, kind |-> "plan", plan |-> plan, key |-> 0,
     expires |-> expires, at |-> 4]

DispatchInit ==
    /\ status = "READY_FOR_EXECUTION"
    /\ \E plan \in Plans, expires \in (Times \ {0}) \cup {None} :
          /\ snap = [DeriveSnapshot EXCEPT !.parent = 3, !.version = 4, !.plan = plan]
          /\ responses = {PlanCompleted(plan)}
          /\ decisions = {PlanApproved(plan, expires)}
    /\ dispatches = <<>>
    /\ now = 0 /\ planningRun = "finished" /\ planLedger = "none"
    /\ worker = [w \in Workers |-> Idle]
    /\ runs = <<>>
    /\ crashes = 0
-------------------------------------------------------------------------------
Ends(w) == worker' = [worker EXCEPT ![w] = Idle]
Goes(w, pc) == worker' = [worker EXCEPT ![w].pc = pc]

\* A packet the service builds itself (_trusted_response).  It has no message_id: its
\* digest, over created_at too, takes the place of one.
TrustedPacket(type, key, parent, run) ==
    [id |-> snap.version + 1, type |-> type, key |-> key, parent |-> parent, run |-> run,
     plan |-> None, outcome |-> None]

IsRefused(actor, packet) ==
    \/ ~ResponseKeyIsFree(actor, packet)
    \/ ~PacketIdIsFree(packet)
    \/ ~AcceptsResponse(snap, packet, actor, decisions, now)
    \/ \A to \in Statuses : ~ResponseTransition(status, packet, to)

\* A session that only updates the record of dispatch n.
UpdatesDispatch(n, record) ==
    /\ dispatches' = [dispatches EXCEPT ![n] = record]
    /\ UNCHANGED <<status, snap, responses, decisions>>

\* refresh_external_run reads the status and picks a branch.
Refresh(w, actor) ==
    /\ worker[w].pc = "idle"
    /\ actor \in Participants
    /\ \E branch \in {<<"READY_FOR_EXECUTION", "commit">>, <<"EXECUTION_DISPATCHED", "advance">>,
                      <<"EXECUTING", "poll">>} :
          /\ status = branch[1]
          /\ worker' = [worker EXCEPT ![w] = [Idle EXCEPT !.pc = branch[2], !.actor = actor]]
    /\ UNCHANGED <<lifecycleVars, runs>>

\* The READY_FOR_EXECUTION branch commits the intent first.  The dispatch it goes on
\* with is the one its receipt names; a receipt of a later packet names none.
RefreshCommits(w) ==
    /\ worker[w].pc = "commit"
    /\ Len(dispatches) < MaxAttempts
    /\ CommitExecutionIntent("plan.execute", worker[w].actor, None)
    /\ worker' = [worker EXCEPT ![w].pc = "claim", ![w].dispatch = Len(dispatches) + 1]
    /\ UNCHANGED runs

Pending == {n \in DOMAIN dispatches : dispatches[n].state \notin {"ACKNOWLEDGED", "FAILED"}}

RefreshFindsIntent(w) ==
    /\ worker[w].pc = "commit"
    /\ HasPendingDispatch
    /\ \E n \in Pending :
          /\ \A m \in Pending : m <= n
          /\ worker' = [worker EXCEPT ![w] =
                IF dispatches[n].receipt \in IntentEvents
                THEN [@ EXCEPT !.pc = "claim", !.dispatch = n] ELSE Idle]
    /\ UNCHANGED <<lifecycleVars, runs>>

RefreshCommitRefused(w) ==
    /\ worker[w].pc = "commit"
    /\ ~HasPendingDispatch
    /\ status = "READY_FOR_EXECUTION" => ~\E d \in decisions : Approves(d, snap.plan, now)
    /\ Ends(w)
    /\ UNCHANGED <<lifecycleVars, runs>>

\* The other branches go on with the dispatch that is latest when they look.
AdvanceFindsDispatch(w) ==
    /\ worker[w].pc = "advance"
    /\ worker' = [worker EXCEPT ![w].pc = "claim", ![w].dispatch = Len(dispatches)]
    /\ UNCHANGED <<lifecycleVars, runs>>

PollFindsRun(w) ==
    LET run == dispatches[Len(dispatches)].run
    IN  /\ worker[w].pc = "poll"
        /\ worker' = [worker EXCEPT ![w] =
              IF run = None THEN Idle ELSE [Idle EXCEPT !.pc = "query", !.run = run]]
        /\ UNCHANGED <<lifecycleVars, runs>>
-------------------------------------------------------------------------------
\* Mutant of CanClaim: whose lease it is matters, whether it has expired does not.
CanClaimNeverExpired(d, actor) ==
    /\ d.state \notin {"ACKNOWLEDGED", "FAILED"}
    /\ ~(d.state = "LEASED" /\ d.leaseOwner # actor)

\* claim_execution_lease.
CanClaim(d, actor) ==
    /\ d.state \notin {"ACKNOWLEDGED", "FAILED"}
    /\ ~(d.state = "LEASED" /\ d.leaseOwner \notin {None, actor})

Claimed(d, actor) ==
    [d EXCEPT !.state = "LEASED", !.leaseOwner = actor,
              !.attemptCount = IF @ < AttemptCap THEN @ + 1 ELSE @]

\* Mutant of AfterClaim: the number of attempts is not looked at.
AfterClaimPostingAgain(d) == IF d.run # None THEN "ackParent" ELSE "submit"

\* Where _advance_execution_dispatch goes with the record it claimed: a run that is
\* known only has to be acknowledged; a second attempt on the planning agent must not
\* be posted again, and recovery cannot name its run, so it is marked.
AfterClaim(d) ==
    IF d.run # None THEN "ackParent"
    ELSE IF d.attemptCount > 1 THEN "mark"
    ELSE "submit"

ClaimLease(w) ==
    LET d == dispatches[worker[w].dispatch]
        claimed == Claimed(d, worker[w].actor)
    IN  /\ worker[w].pc = "claim"
        /\ CanClaim(d, worker[w].actor)
        /\ UpdatesDispatch(worker[w].dispatch, claimed)
        /\ worker' = [worker EXCEPT ![w].pc = AfterClaim(claimed), ![w].run = claimed.run,
                                    ![w].actor = None]
        /\ UNCHANGED runs

\* An acknowledged dispatch answers with its receipt; a lease of another is respected.
ClaimRefused(w) ==
    /\ worker[w].pc = "claim"
    /\ ~CanClaim(dispatches[worker[w].dispatch], worker[w].actor)
    /\ Ends(w)
    /\ UNCHANGED <<lifecycleVars, runs>>

\* A lease only keeps other callers out: expiry matters when there is another.
LeaseExpires(n) ==
    /\ \E other \in Callers : dispatches[n].leaseOwner \notin {None, other}
    /\ UpdatesDispatch(n, [dispatches[n] EXCEPT !.leaseOwner = None])
    /\ UNCHANGED <<worker, runs>>

\* submit_for_execution: the provider starts a run and says so; or the call times out
\* or finds the agent busy, and acceptance is ambiguous; or it fails and raises.  In
\* the last two a run may have been started all the same.
ProviderStarts(n) ==
    runs' = Append(runs, [dispatch |-> n, outcome |-> "running", key |-> Len(runs) + 1])

SubmitAccepted(w) ==
    /\ worker[w].pc = "submit"
    /\ Len(runs) < MaxRuns
    /\ ProviderStarts(worker[w].dispatch)
    /\ worker' = [worker EXCEPT ![w].pc = "accept", ![w].run = Len(runs) + 1]
    /\ UNCHANGED lifecycleVars

SubmitUnanswered(w) ==
    /\ worker[w].pc = "submit"
    /\ \/ UNCHANGED runs
       \/ Len(runs) < MaxRuns /\ ProviderStarts(worker[w].dispatch)
    /\ \/ Goes(w, "mark")
       \/ Ends(w)
    /\ UNCHANGED lifecycleVars

\* _mark_reconciliation
MarkReconciliation(w) ==
    /\ worker[w].pc = "mark"
    /\ UpdatesDispatch(worker[w].dispatch,
          [dispatches[worker[w].dispatch] EXCEPT
              !.state = "RECONCILIATION_REQUIRED", !.leaseOwner = None])
    /\ Ends(w)
    /\ UNCHANGED runs

\* _persist_provider_acceptance
PersistAcceptance(w) ==
    LET d == dispatches[worker[w].dispatch]
        stored == IF d.state = "ACKNOWLEDGED" THEN d
                  ELSE [d EXCEPT !.state = "PROVIDER_ACCEPTED", !.run = worker[w].run]
    IN  /\ worker[w].pc = "accept"
        /\ UpdatesDispatch(worker[w].dispatch, stored)
        /\ worker' = [worker EXCEPT ![w].pc = "ackParent", ![w].run = stored.run]
        /\ UNCHANGED runs

\* _persist_execution_ack: read the current parent, submit the acknowledgement in the
\* recipient's name, then settle the dispatch.
ReadParent(w) ==
    /\ worker[w].pc \in {"ackParent", "reportParent"}
    /\ worker' = [worker EXCEPT ![w].pc = IF @ = "ackParent" THEN "ack" ELSE "report",
                                ![w].parent = snap.parent]
    /\ UNCHANGED <<lifecycleVars, runs>>

\* Mutant of AckPacket: the key names the dispatch that is latest by now.
AckPacketOfLatest(w) ==
    TrustedPacket("execution.acknowledged", Len(dispatches), worker[w].parent, worker[w].run)

AckPacket(w) ==
    TrustedPacket("execution.acknowledged", worker[w].dispatch, worker[w].parent, worker[w].run)

SubmitAck(w) ==
    /\ worker[w].pc = "ack"
    /\ SubmitResponse(Recipient, AckPacket(w))
    /\ worker' = [worker EXCEPT ![w].pc = "settle", ![w].parent = 0]
    /\ UNCHANGED runs

\* Mutant of SubmitAckRefused: the dispatch is settled whatever came of the packet.
SubmitAckRefusedSettling(w) ==
    /\ worker[w].pc = "ack"
    /\ IsRefused(Recipient, AckPacket(w))
    /\ Goes(w, "settle")
    /\ UNCHANGED <<lifecycleVars, runs>>

SubmitAckRefused(w) ==
    /\ worker[w].pc = "ack"
    /\ IsRefused(Recipient, AckPacket(w))
    /\ Ends(w)
    /\ UNCHANGED <<lifecycleVars, runs>>

SettleDispatch(w) ==
    /\ worker[w].pc = "settle"
    /\ UpdatesDispatch(worker[w].dispatch,
          [dispatches[worker[w].dispatch] EXCEPT
              !.state = "ACKNOWLEDGED", !.run = worker[w].run, !.leaseOwner = None,
              !.receipt = "execution.acknowledged"])
    /\ Ends(w)
    /\ UNCHANGED runs
-------------------------------------------------------------------------------
\* Mutant of ReportType: prose at the end of a finished run is a success.
ReportTypeTrustingProse(outcome) ==
    CASE outcome = "running"                  -> "execution.progress"
      [] outcome \in {"completed", "malformed"} -> "execution.completed"
      [] outcome = "question"                 -> "question.blocked"
      [] outcome = "failed"                   -> "execution.failed"

\* _reconcile_execution_run: what each outcome of the provider's run is reported as.
\* Output that is no packet is a failure, never a success.
ReportType(outcome) ==
    CASE outcome = "running"               -> "execution.progress"
      [] outcome = "completed"             -> "execution.completed"
      [] outcome = "question"              -> "question.blocked"
      [] outcome \in {"failed", "malformed"} -> "execution.failed"

QueryRun(w) ==
    /\ worker[w].pc = "query"
    /\ worker' = [worker EXCEPT ![w].pc = "reportParent",
                                ![w].type = ReportType(runs[worker[w].run].outcome),
                                ![w].key = runs[worker[w].run].key]
    /\ UNCHANGED <<lifecycleVars, runs>>

ReportPacket(w) ==
    TrustedPacket(worker[w].type, worker[w].key, worker[w].parent, worker[w].run)

\* Mutant of SubmitReport: the receipt is lost on the way to the dispatch.
SubmitReportLosingReceipt(w) ==
    /\ worker[w].pc = "report"
    /\ SubmitResponse(Recipient, ReportPacket(w))
    /\ worker' = [worker EXCEPT ![w] =
          IF @.type = "execution.progress" THEN Idle ELSE [Idle EXCEPT !.pc = "remember"]]
    /\ UNCHANGED runs

SubmitReport(w) ==
    /\ worker[w].pc = "report"
    /\ SubmitResponse(Recipient, ReportPacket(w))
    /\ worker' = [worker EXCEPT ![w] =
          IF @.type = "execution.progress" THEN Idle
          ELSE [Idle EXCEPT !.pc = "remember", !.type = worker[w].type]]
    /\ UNCHANGED runs

SubmitReportRefused(w) ==
    /\ worker[w].pc = "report"
    /\ IsRefused(Recipient, ReportPacket(w))
    /\ Ends(w)
    /\ UNCHANGED <<lifecycleVars, runs>>

\* _remember_dispatch_receipt looks for the latest dispatch outside the lock.
RememberFindsDispatch(w) ==
    /\ worker[w].pc = "remember"
    /\ worker' = [worker EXCEPT ![w].pc = "rememberOn", ![w].dispatch = Len(dispatches)]
    /\ UNCHANGED <<lifecycleVars, runs>>

RememberReceipt(w) ==
    /\ worker[w].pc = "rememberOn"
    /\ UpdatesDispatch(worker[w].dispatch,
          [dispatches[worker[w].dispatch] EXCEPT !.receipt = worker[w].type])
    /\ Ends(w)
    /\ UNCHANGED runs

\* A process dies, or its call to the provider's status page fails.
Crash(w) ==
    /\ worker[w].pc # "idle"
    /\ crashes < MaxCrashes
    /\ crashes' = crashes + 1
    /\ Ends(w)
    /\ UNCHANGED <<lifecycleVars, runs>>

\* The provider ends a run; one that asked a question may still ask another or finish.
\* The key is the one in the packet the agent wrote, or one made for the run.
RunEnds(r) ==
    /\ runs[r].outcome \in {"running", "question"}
    /\ \E outcome \in Endings, key \in AgentKeys \cup {r} :
          /\ outcome = "malformed" => key = r
          /\ <<outcome, key>> # <<runs[r].outcome, runs[r].key>>
          /\ runs' = [runs EXCEPT ![r].outcome = outcome, ![r].key = key]
    /\ UNCHANGED <<lifecycleVars, worker>>
-------------------------------------------------------------------------------
\* The planner's side.  A client uses a new key for each attempt.  A review that says
\* REJECTED moves the work order exactly as one that says APPROVED.
ReviewPacket(id, outcome) ==
    [id |-> id, type |-> "review.completed", key |-> Len(dispatches), parent |-> snap.parent,
     run |-> None, plan |-> None, outcome |-> outcome]

HumanDecision(type) ==
    [type |-> type, actor |-> Sender, kind |-> "work_order", plan |-> None,
     key |-> Len(dispatches), expires |-> None, at |-> 0]

PlannerStep ==
    /\ \/ AnswerQuestion(Sender)
       \/ RequestCompletionReview(Sender)
       \/ \E id \in MessageIds, outcome \in {"APPROVED", "REVISE"} :
             SubmitResponse(Sender, ReviewPacket(id, outcome))
       \/ \E type \in {"accept_completion", "request_revision", "cancel"} :
             RecordDecision(HumanDecision(type))
       \/ /\ Len(dispatches) < MaxAttempts
          /\ \E event \in IntentEvents : CommitExecutionIntent(event, Sender, None)
    /\ UNCHANGED <<worker, runs>>

\* A participant reports by hand, in answer to the current parent.
ManualReport(actor) ==
    /\ \E type \in RunBoundTypes \cup {"execution.acknowledged"}, run \in Runs,
          id \in MessageIds :
          SubmitResponse(actor, [TrustedPacket(type, 0, snap.parent, run) EXCEPT !.id = id])
    /\ UNCHANGED <<worker, runs>>

WorkerStep(w) ==
    \/ \E actor \in Callers : Refresh(w, actor)
    \/ RefreshCommits(w) \/ RefreshFindsIntent(w) \/ RefreshCommitRefused(w)
    \/ AdvanceFindsDispatch(w) \/ PollFindsRun(w)
    \/ ClaimLease(w) \/ ClaimRefused(w)
    \/ SubmitAccepted(w) \/ SubmitUnanswered(w) \/ MarkReconciliation(w)
    \/ PersistAcceptance(w) \/ ReadParent(w)
    \/ SubmitAck(w) \/ SubmitAckRefused(w) \/ SettleDispatch(w)
    \/ QueryRun(w) \/ SubmitReport(w) \/ SubmitReportRefused(w)
    \/ RememberFindsDispatch(w) \/ RememberReceipt(w)

ExecutionStep ==
    \/ /\ \/ \E w \in Workers : WorkerStep(w)
          \/ \E n \in DOMAIN dispatches : LeaseExpires(n)
          \/ \E r \in DOMAIN runs : RunEnds(r)
          \/ PlannerStep
          \/ \E actor \in Reporters : ManualReport(actor)
       /\ UNCHANGED crashes
    \/ \E w \in Workers : Crash(w)

DispatchNext ==
    \/ ExecutionStep /\ UNCHANGED <<now, planningVars>>
    \/ Tick /\ UNCHANGED dispatchVars

DispatchSpec == DispatchInit /\ [][DispatchNext]_allVars

\* A refresh goes on unless its worker dies; somebody refreshes a work order again and
\* again, for the broker has no scheduler of its own; and time passes.
DispatchFairness ==
    /\ \A w \in Workers : WF_allVars(WorkerStep(w) /\ UNCHANGED <<crashes, now, planningVars>>)
    /\ \A n \in 1..MaxAttempts :
          WF_allVars(/\ n \in DOMAIN dispatches
                     /\ LeaseExpires(n)
                     /\ UNCHANGED <<crashes, now, planningVars>>)

FairDispatchSpec == DispatchSpec /\ DispatchFairness
-------------------------------------------------------------------------------
\* An attempt never starts a second run at the provider, whatever workers race, die,
\* time out or retry (lease, attempt_count and recovery together: docs/AWR-EX-01.md,
\* "instead of posting a second run").
OneRunPerDispatch ==
    \A r, s \in DOMAIN runs : runs[r].dispatch = runs[s].dispatch => r = s

\* A dispatch that is settled was acknowledged: its run is in a stored acknowledgement
\* (submit_response commits before the dispatch is marked).
SettledMeansAcknowledged ==
    \A n \in DOMAIN dispatches :
        dispatches[n].state = "ACKNOWLEDGED" =>
            \E r \in Acknowledgements : r.key = n /\ r.run = dispatches[n].run

\* Work under way can be polled: the bound run is the one the latest dispatch
\* recorded, so a late worker of an earlier attempt never binds its run to this one.
BoundRunIsPollable ==
    status = "EXECUTING" =>
        /\ snap.run \in DOMAIN runs
        /\ runs[snap.run].dispatch = Len(dispatches)
        /\ dispatches[Len(dispatches)].run = snap.run

\* A completion is reported only of a run that completed, never of one that failed,
\* went silent or wrote prose (_ingest_terminal), and only once.
CompletionIsReal ==
    \A r \in responses : r.type = "execution.completed" =>
        /\ runs[r.run].outcome = "completed"
        /\ \A s \in responses : s.run = r.run /\ s.type \in {r.type, "execution.failed"} => s = r

\* A dispatched work order gets under way, is cancelled or is held for reconciliation,
\* unless the approval of its plan expires first: it is never left waiting on a lease or
\* on a worker that died.  Once the approval has expired no acknowledgement is accepted
\* (matching_plan_approval), and the work order waits until it is cancelled.
DispatchIsResolved ==
    status = "EXECUTION_DISPATCHED" ~>
        \/ status # "EXECUTION_DISPATCHED"
        \/ dispatches[Len(dispatches)].state = "RECONCILIATION_REQUIRED"
        \/ ~\E d \in decisions : Approves(d, snap.plan, now)

\* Execution is a hand-off: each attempt is a job, bound by its dispatch record and told by
\* the acknowledgements that name the dispatch.
Attempts == INSTANCE HandOff WITH
    Jobs <- 1..MaxAttempts, Unbound <- None,
    bound <- [n \in 1..MaxAttempts |->
                 IF n \in DOMAIN dispatches THEN dispatches[n].run ELSE None],
    told <- [n \in 1..MaxAttempts |-> {r.run : r \in {q \in Acknowledgements : q.key = n}}]

\* Every behaviour of the reconciler is one of the abstract hand-off: an attempt is bound to
\* one provider run for ever, however many workers store what the provider answered, and the
\* acknowledgements that enter the work order name that run.
ExecutionIsAHandOff == Attempts!Spec
-------------------------------------------------------------------------------
\* What docs/AWR-EX-01.md says and the code does not do.

\* "A question.blocked receipt is stored on the dispatch" (docs/AWR-EX-01.md:52): once
\* every refresh is over, a work order whose run asked a question has it there.
QuestionReceiptIsStored ==
    /\ status = "WAITING_FOR_INPUT"
    /\ \A w \in Workers : worker[w].pc = "idle"
    => dispatches[Len(dispatches)].receipt = "question.blocked"
===============================================================================

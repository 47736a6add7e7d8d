--------------------------- MODULE ExecutionRunProofs ---------------------------
(***************************************************************************)
(* Theorems about ExecutionDispatch that follow a run from the provider to *)
(* the work order: an attempt is bound to one run for ever, so execution   *)
(* implements the abstract hand-off; every session is a handler of the     *)
(* work order or unseen by it, so the composed system implements the       *)
(* atomic work order and keeps its lifecycle invariant; what a worker      *)
(* reports is what the provider said; and, when nobody reports by hand,    *)
(* the bound run is the one of the newest attempt.                         *)
(***************************************************************************)
EXTENDS ExecutionDispatchProofs, LifecycleProofs

\* The run the record of attempt n names, and the runs its acknowledgements name.
BoundRun(n) == IF n \in DOMAIN dispatches THEN dispatches[n].run ELSE None
Told(n) == {r.run : r \in {q \in Acknowledgements : q.key = n}}

IsSettled(n) == n \in DOMAIN dispatches /\ dispatches[n].state = "ACKNOWLEDGED"

\* Attempt n was posted as run r.
IsRunOf(r, n) == r \in DOMAIN runs /\ runs[r].dispatch = n

\* A worker that carries the provider's answer carries the run of its own attempt, and
\* goes on to the acknowledgement only once the record names it.
OwnWorker(w) ==
    /\ worker[w].pc \in {"accept", "ackParent", "ack", "settle"} =>
          worker[w].run # None /\ IsRunOf(worker[w].run, worker[w].dispatch)
    /\ worker[w].pc \in {"ackParent", "ack", "settle"} =>
          BoundRun(worker[w].dispatch) = worker[w].run

OwnRuns ==
    /\ \A n \in 1..MaxAttempts : BoundRun(n) # None => IsRunOf(BoundRun(n), n)
    /\ \A n \in 1..MaxAttempts : IsSettled(n) => BoundRun(n) # None
    /\ \A w \in Workers : OwnWorker(w)

\* What a step does to the runs and records: it takes nothing back.
RunsStay == \A r \in DOMAIN runs : r \in DOMAIN runs' /\ runs'[r].dispatch = runs[r].dispatch
RecordsStay ==
    \A n \in 1..MaxAttempts :
        BoundRun(n)' = BoundRun(n) /\ (IsSettled(n)' => IsSettled(n) \/ BoundRun(n) # None)
ToldStays == \A n \in 1..MaxAttempts : Told(n)' = Told(n)

\* The three kinds of steps, as the hand-off sees them.
NothingHandedOff == RecordsStay /\ ToldStays
Binds(n, r) ==
    /\ BoundRun(n) = None /\ r # None /\ IsRunOf(r, n)
    /\ BoundRun(n)' = r
    /\ \A m \in 1..MaxAttempts : m # n => BoundRun(m)' = BoundRun(m)
    /\ \A m \in 1..MaxAttempts : IsSettled(m)' => IsSettled(m)
    /\ ToldStays
Tells(n) ==
    /\ RecordsStay
    /\ BoundRun(n) # None
    /\ Told(n)' = Told(n) \cup {BoundRun(n)}
    /\ \A m \in 1..MaxAttempts : m # n => Told(m)' = Told(m)

HandsOff ==
    \/ NothingHandedOff
    \/ \E n \in 1..MaxAttempts, r \in Runs : Binds(n, r)
    \/ \E n \in 1..MaxAttempts : Tells(n)

\* What every step is shown to do: w is the worker that moves.
Moves(w) ==
    /\ RunsStay /\ HandsOff /\ OwnWorker(w)'
    /\ \A v \in Workers : v # w => worker'[v] = worker[v]

\* The assumptions under which a step is looked at.
Ready == DispatchInductive /\ OwnRuns
-------------------------------------------------------------------------------
LEMMA MovesKeep ==
    ASSUME Ready, RunsStay, HandsOff,
           \A v \in Workers : worker'[v] = worker[v] \/ OwnWorker(v)'
    PROVE  OwnRuns'
  <1>1. \A n \in 1..MaxAttempts :
           /\ \/ BoundRun(n)' = BoundRun(n)
              \/ BoundRun(n) = None /\ IsRunOf(BoundRun(n)', n)
           /\ BoundRun(n) # None => BoundRun(n)' = BoundRun(n)
           /\ IsSettled(n)' => IsSettled(n) \/ BoundRun(n) # None
    BY DEF HandsOff, NothingHandedOff, Binds, Tells, RecordsStay
  <1>2. \A r, n : IsRunOf(r, n) => IsRunOf(r, n)'
    BY DEF IsRunOf, RunsStay
  <1>3. \A n \in 1..MaxAttempts : BoundRun(n)' # None => IsRunOf(BoundRun(n), n)'
    BY <1>1, <1>2 DEF Ready, OwnRuns, IsRunOf
  <1>4. \A n \in 1..MaxAttempts : IsSettled(n)' => BoundRun(n)' # None
    BY <1>1 DEF Ready, OwnRuns
  <1>5. ASSUME NEW v \in Workers PROVE OwnWorker(v)'
    <2> SUFFICES ASSUME worker'[v] = worker[v] PROVE OwnWorker(v)'
      OBVIOUS
    <2>1. OwnWorker(v) /\ SoundWorker(v)
      BY DEF Ready, OwnRuns, DispatchInductive
    <2>2. worker[v].pc \in {"ackParent", "ack", "settle"} => worker[v].dispatch \in 1..MaxAttempts
      BY <2>1, DispatchFacts DEF SoundWorker, OnDispatch, Ready
    <2> QED
      BY <1>1, <1>2, <2>1, <2>2 DEF OwnWorker
  <1> QED
    BY <1>3, <1>4, <1>5 DEF OwnRuns

\* A step that leaves the dispatch records and the packets alone.
LEMMA StoresNothing ==
    ASSUME UNCHANGED <<dispatches, responses>>
    PROVE  NothingHandedOff
  BY DEF NothingHandedOff, RecordsStay, ToldStays, BoundRun, IsSettled, Told, Acknowledgements

LEMMA RunsUntouched ==
    ASSUME UNCHANGED runs
    PROVE  RunsStay
  BY DEF RunsStay

\* Steps that only look around: none but the reading of the parent goes on with a run
\* the provider answered with.
LEMMA LooksMove ==
    ASSUME Ready, NEW w \in Workers,
           \/ \E actor \in Callers : Refresh(w, actor)
           \/ RefreshFindsIntent(w) \/ RefreshCommitRefused(w)
           \/ AdvanceFindsDispatch(w) \/ PollFindsRun(w) \/ ClaimRefused(w) \/ ReadParent(w)
           \/ SubmitAckRefused(w) \/ QueryRun(w) \/ SubmitReportRefused(w)
           \/ RememberFindsDispatch(w) \/ Crash(w)
    PROVE  Moves(w)
  <1>1. UNCHANGED <<lifecycleVars, runs>>
    BY DEF Refresh, RefreshFindsIntent, RefreshCommitRefused, AdvanceFindsDispatch, PollFindsRun,
       ClaimRefused, ReadParent, SubmitAckRefused, QueryRun, SubmitReportRefused,
       RememberFindsDispatch, Crash
  <1>2. RunsStay /\ HandsOff
    BY <1>1, StoresNothing, RunsUntouched DEF HandsOff, lifecycleVars
  <1>3. worker[w] \in WorkerStates /\ worker \in [Workers -> WorkerStates] /\ OwnWorker(w)
    BY DEF Ready, DispatchInductive, OwnRuns
  <1>4. \A v \in Workers : v # w => worker'[v] = worker[v]
    BY <1>3 DEF Refresh, RefreshFindsIntent, RefreshCommitRefused, AdvanceFindsDispatch, PollFindsRun,
       ClaimRefused, ReadParent, SubmitAckRefused, QueryRun, SubmitReportRefused,
       RememberFindsDispatch, Crash, Ends
  <1>5. OwnWorker(w)'
    <2>1. CASE ReadParent(w)
      <3>1. /\ worker'[w].run = worker[w].run /\ worker'[w].dispatch = worker[w].dispatch
            /\ worker'[w].pc = "ack" => worker[w].pc = "ackParent"
            /\ worker'[w].pc \in {"ack", "report"}
        BY <1>3, <2>1 DEF ReadParent, WorkerStates
      <3>2. UNCHANGED <<dispatches, runs>>
        BY <1>1 DEF lifecycleVars
      <3> QED
        BY <1>3, <3>1, <3>2 DEF OwnWorker, IsRunOf, BoundRun
    <2>2. CASE ~ReadParent(w)
      <3>1. worker'[w].pc \notin {"accept", "ackParent", "ack", "settle"}
        <4>1. CASE \E actor \in Callers : Refresh(w, actor)
          <5>1. PICK actor \in Callers,
                     branch \in {<<"READY_FOR_EXECUTION", "commit">>,
                                <<"EXECUTION_DISPATCHED", "advance">>, <<"EXECUTING", "poll">>} :
                   worker' = [worker EXCEPT ![w] = [Idle EXCEPT !.pc = branch[2], !.actor = actor]]
            BY <4>1 DEF Refresh
          <5>2. worker'[w].pc = branch[2]
            BY <1>3, <5>1 DEF Idle
          <5> QED
            BY <5>1, <5>2
        <4>4. CASE RefreshFindsIntent(w)
          <5>1. PICK n \in Pending :
                   worker' = [worker EXCEPT ![w] =
                      IF dispatches[n].receipt \in IntentEvents
                      THEN [worker[w] EXCEPT !.pc = "claim", !.dispatch = n] ELSE Idle]
            BY <1>3, <4>4 DEF RefreshFindsIntent
          <5>2. worker'[w].pc \in {"claim", "idle"}
            BY <1>3, <5>1 DEF Idle, WorkerStates
          <5> QED
            BY <5>2
        <4>5. CASE PollFindsRun(w)
          <5>1. PICK run : worker' = [worker EXCEPT ![w] =
                   IF run = None THEN Idle ELSE [Idle EXCEPT !.pc = "query", !.run = run]]
            BY <4>5 DEF PollFindsRun
          <5>2. worker'[w].pc \in {"query", "idle"}
            BY <1>3, <5>1 DEF Idle
          <5> QED
            BY <5>2
        <4>2. CASE \/ AdvanceFindsDispatch(w) \/ QueryRun(w) \/ RememberFindsDispatch(w)
          BY <1>3, <4>2 DEF AdvanceFindsDispatch, QueryRun, RememberFindsDispatch, WorkerStates
        <4>3. CASE Ends(w)
          BY <1>3, <4>3 DEF Ends, Idle
        <4> QED
          BY <2>2, <4>1, <4>2, <4>3, <4>4, <4>5 DEF RefreshCommitRefused, ClaimRefused, SubmitAckRefused,
             SubmitReportRefused, Crash
      <3> QED
        BY <3>1 DEF OwnWorker
    <2> QED
      BY <2>1, <2>2
  <1> QED
    BY <1>2, <1>4, <1>5 DEF Moves
-------------------------------------------------------------------------------
\* An update of the record of attempt n: the others stay as they are.
LEMMA UpdatesOne ==
    ASSUME Ready, NEW n \in DOMAIN dispatches, NEW record, UpdatesDispatch(n, record)
    PROVE  /\ n \in 1..MaxAttempts
           /\ BoundRun(n) = dispatches[n].run /\ BoundRun(n)' = record.run
           /\ IsSettled(n) <=> dispatches[n].state = "ACKNOWLEDGED"
           /\ IsSettled(n)' <=> record.state = "ACKNOWLEDGED"
           /\ \A m \in 1..MaxAttempts :
                 m # n => BoundRun(m)' = BoundRun(m) /\ (IsSettled(m)' <=> IsSettled(m))
           /\ ToldStays
  <1>1. dispatches \in Seq(Dispatches)
    BY DEF Ready, DispatchInductive, Records, TypeOK
  <1>2. n \in 1..MaxAttempts
    BY DispatchFacts DEF Ready
  <1>3. /\ dispatches' = [dispatches EXCEPT ![n] = record] /\ responses' = responses
        /\ DOMAIN dispatches' = DOMAIN dispatches
    BY <1>1 DEF UpdatesDispatch
  <1> QED
    BY <1>1, <1>2, <1>3 DEF BoundRun, IsSettled, ToldStays, Told, Acknowledgements

\* An update that keeps the run.
LEMMA KeepsRun ==
    ASSUME Ready, NEW n \in DOMAIN dispatches, NEW record, UpdatesDispatch(n, record),
           record.run = dispatches[n].run,
           record.state = "ACKNOWLEDGED" =>
              dispatches[n].state = "ACKNOWLEDGED" \/ record.run # None
    PROVE  HandsOff
  BY UpdatesOne DEF HandsOff, NothingHandedOff, RecordsStay

LEMMA ClaimMoves ==
    ASSUME Ready, NEW w \in Workers, ClaimLease(w)
    PROVE  Moves(w)
  <1>a. worker[w] \in WorkerStates /\ worker \in [Workers -> WorkerStates]
    BY DEF Ready, DispatchInductive
  <1>1. PICK n \in DOMAIN dispatches : n = worker[w].dispatch
    BY DEF Ready, DispatchInductive, SoundWorker, OnDispatch, ClaimLease
  <1>b. PICK d : d = dispatches[n]
    OBVIOUS
  <1>c. PICK claimed : claimed = Claimed(d, worker[w].actor)
    OBVIOUS
  <1>2. d \in Dispatches /\ n \in 1..MaxAttempts
    BY <1>b, DispatchFacts DEF Ready
  <1>3. claimed.run = d.run /\ claimed.state = "LEASED"
    BY <1>2, <1>c DEF Claimed, Dispatches
  <1>4. UpdatesDispatch(n, claimed) /\ runs' = runs
    BY <1>1, <1>b, <1>c DEF ClaimLease
  <1>5. RunsStay /\ HandsOff
    BY <1>b, <1>3, <1>4, KeepsRun, RunsUntouched
  <1>6. /\ worker'[w].run = d.run /\ worker'[w].dispatch = n
        /\ worker'[w].pc = AfterClaim(claimed)
        /\ \A v \in Workers : v # w => worker'[v] = worker[v]
    BY <1>a, <1>1, <1>b, <1>c, <1>3 DEF ClaimLease, WorkerStates
  <1>7. /\ worker'[w].pc \in {"ackParent", "mark", "submit"}
        /\ worker'[w].pc = "ackParent" => d.run # None
    BY <1>3, <1>6 DEF AfterClaim
  <1>8. BoundRun(n)' = d.run /\ (d.run # None => IsRunOf(d.run, n))
    <2>1. BoundRun(n) = d.run /\ BoundRun(n)' = claimed.run
      BY <1>b, <1>4, UpdatesOne
    <2> QED
      BY <1>2, <1>3, <2>1 DEF Ready, OwnRuns
  <1>9. OwnWorker(w)'
    BY <1>4, <1>6, <1>7, <1>8 DEF OwnWorker, IsRunOf, BoundRun
  <1> QED
    BY <1>5, <1>6, <1>9 DEF Moves

\* A record is held for reconciliation, or gets its receipt.
LEMMA NotesMove ==
    ASSUME Ready, NEW w \in Workers, MarkReconciliation(w) \/ RememberReceipt(w)
    PROVE  Moves(w)
  <1> DEFINE n == worker[w].dispatch
             d == dispatches[n]
             marked == [d EXCEPT !.state = "RECONCILIATION_REQUIRED", !.leaseOwner = None]
             noted == [d EXCEPT !.receipt = worker[w].type]
  <1>1. n \in DOMAIN dispatches /\ worker \in [Workers -> WorkerStates]
    BY DEF Ready, DispatchInductive, SoundWorker, OnDispatch, MarkReconciliation, RememberReceipt
  <1>2. d \in Dispatches
    BY <1>1, DispatchFacts DEF Ready
  <1>3. /\ marked.run = d.run /\ marked.state # "ACKNOWLEDGED"
        /\ noted.run = d.run /\ noted.state = d.state
    BY <1>2 DEF Dispatches
  <1>4. UpdatesDispatch(n, marked) \/ UpdatesDispatch(n, noted)
    BY DEF MarkReconciliation, RememberReceipt
  <1>5. RunsStay
    BY RunsUntouched DEF MarkReconciliation, RememberReceipt
  <1>6. worker'[w] = Idle /\ \A v \in Workers : v # w => worker'[v] = worker[v]
    BY <1>1 DEF MarkReconciliation, RememberReceipt, Ends
  <1> HIDE DEF marked, noted
  <1>7. HandsOff
    BY <1>1, <1>3, <1>4, KeepsRun
  <1> QED
    BY <1>5, <1>6, <1>7 DEF Moves, OwnWorker, Idle

\* The provider's answer is stored: the run is the only one of the attempt, so a record
\* that has one has this one.
LEMMA PersistMoves ==
    ASSUME Ready, NEW w \in Workers, PersistAcceptance(w)
    PROVE  Moves(w)
  <1>a. worker[w] \in WorkerStates /\ worker \in [Workers -> WorkerStates]
    BY DEF Ready, DispatchInductive
  <1>1. PICK n \in DOMAIN dispatches : n = worker[w].dispatch
    BY DEF Ready, DispatchInductive, SoundWorker, OnDispatch, PersistAcceptance
  <1>b. PICK r : r = worker[w].run
    OBVIOUS
  <1>c. PICK d : d = dispatches[n]
    OBVIOUS
  <1>d. PICK stored :
           stored = IF d.state = "ACKNOWLEDGED" THEN d
                    ELSE [d EXCEPT !.state = "PROVIDER_ACCEPTED", !.run = r]
    OBVIOUS
  <1>2. d \in Dispatches /\ n \in 1..MaxAttempts
    BY <1>c, DispatchFacts DEF Ready
  <1>3. r # None /\ IsRunOf(r, n) /\ r \in Runs
    BY <1>a, <1>b, <1>1 DEF Ready, OwnRuns, OwnWorker, PersistAcceptance, WorkerStates
  <1>4. UpdatesDispatch(n, stored) /\ runs' = runs
    BY <1>1, <1>b, <1>c, <1>d DEF PersistAcceptance
  <1>5. /\ stored.run = IF d.state = "ACKNOWLEDGED" THEN d.run ELSE r
        /\ stored.state = "ACKNOWLEDGED" => d.state = "ACKNOWLEDGED"
    BY <1>2, <1>d DEF Dispatches
  <1>6. /\ BoundRun(n) = d.run /\ BoundRun(n)' = stored.run
        /\ d.state = "ACKNOWLEDGED" => d.run # None
        /\ d.run # None => IsRunOf(d.run, n)
    <2>1. BoundRun(n) = d.run /\ BoundRun(n)' = stored.run
      BY <1>c, <1>4, UpdatesOne
    <2> QED
      BY <1>c, <1>2, <2>1 DEF Ready, OwnRuns, IsSettled
  <1>7. d.run # None => d.run = r
    BY <1>3, <1>6 DEF IsRunOf, Ready, DispatchInductive, OneRunPerDispatch
  <1>8. stored.run = r
    BY <1>5, <1>6, <1>7
  <1>9. HandsOff
    <2>1. CASE d.run = None
      <3>1. Binds(n, r)
        BY <1>c, <1>3, <1>4, <1>5, <1>6, <1>8, <2>1, UpdatesOne DEF Binds, IsSettled
      <3> QED
        BY <1>2, <1>3, <3>1 DEF HandsOff
    <2>2. CASE d.run # None
      BY <1>c, <1>4, <1>5, <1>7, <1>8, <2>2, KeepsRun
    <2> QED
      BY <2>1, <2>2
  <1>10. /\ worker'[w].run = stored.run /\ worker'[w].dispatch = n /\ worker'[w].pc = "ackParent"
         /\ \A v \in Workers : v # w => worker'[v] = worker[v]
    BY <1>a, <1>b, <1>c, <1>d, <1>1 DEF PersistAcceptance, WorkerStates
  <1>11. OwnWorker(w)'
    BY <1>3, <1>4, <1>6, <1>8, <1>10 DEF OwnWorker, IsRunOf, BoundRun
  <1> QED
    BY <1>4, <1>9, <1>10, <1>11, RunsUntouched DEF Moves

\* Settling writes the run the record already has.
LEMMA SettleMoves ==
    ASSUME Ready, NEW w \in Workers, SettleDispatch(w)
    PROVE  Moves(w)
  <1> DEFINE n == worker[w].dispatch
             d == dispatches[n]
             record == [d EXCEPT !.state = "ACKNOWLEDGED", !.run = worker[w].run,
                                 !.leaseOwner = None, !.receipt = "execution.acknowledged"]
  <1>1. n \in DOMAIN dispatches /\ worker \in [Workers -> WorkerStates]
    BY DEF Ready, DispatchInductive, SoundWorker, OnDispatch, SettleDispatch
  <1>2. d \in Dispatches
    BY <1>1, DispatchFacts DEF Ready
  <1>3. worker[w].run # None /\ BoundRun(n) = worker[w].run
    BY DEF Ready, OwnRuns, OwnWorker, SettleDispatch
  <1>4. record.run = worker[w].run /\ record.run = d.run
    BY <1>1, <1>2, <1>3 DEF Dispatches, BoundRun
  <1>5. UpdatesDispatch(n, record) /\ runs' = runs
    BY DEF SettleDispatch
  <1> HIDE DEF record
  <1>6. RunsStay /\ HandsOff
    BY <1>1, <1>3, <1>4, <1>5, KeepsRun, RunsUntouched
  <1>7. worker'[w] = Idle /\ \A v \in Workers : v # w => worker'[v] = worker[v]
    BY <1>1 DEF SettleDispatch, Ends
  <1> QED
    BY <1>6, <1>7 DEF Moves, OwnWorker, Idle

LEMMA LeaseMoves ==
    ASSUME Ready, NEW n \in DOMAIN dispatches, LeaseExpires(n)
    PROVE  RunsStay /\ HandsOff /\ worker' = worker
  <1> DEFINE record == [dispatches[n] EXCEPT !.leaseOwner = None]
  <1>1. dispatches[n] \in Dispatches
    BY DispatchFacts DEF Ready
  <1>2. record.run = dispatches[n].run /\ record.state = dispatches[n].state
    BY <1>1 DEF Dispatches
  <1>3. UpdatesDispatch(n, record) /\ runs' = runs /\ worker' = worker
    BY DEF LeaseExpires
  <1> HIDE DEF record
  <1> QED
    BY <1>2, <1>3, KeepsRun, RunsUntouched
-------------------------------------------------------------------------------
\* An intent adds a record no run is known for.
LEMMA IntentHandsNothing ==
    ASSUME Ready, Len(dispatches) < MaxAttempts, NEW event \in IntentEvents, NEW actor,
           CommitExecutionIntent(event, actor, None)
    PROVE  NothingHandedOff
  <1>1. PICK plan, d : dispatches' = Append(dispatches, NewDispatch(event, plan, d))
    BY DEF CommitExecutionIntent
  <1>2. PICK new : new = NewDispatch(event, plan, d)
    OBVIOUS
  <1>3. new.run = None /\ new.state = "PENDING"
    BY <1>2 DEF NewDispatch
  <1>4. dispatches \in Seq(Dispatches)
    BY DEF Ready, DispatchInductive, Records, TypeOK
  <1>5. /\ DOMAIN dispatches' = DOMAIN dispatches \cup {Len(dispatches) + 1}
        /\ \A n \in DOMAIN dispatches : dispatches'[n] = dispatches[n]
        /\ dispatches'[Len(dispatches) + 1] = new
        /\ Len(dispatches) + 1 \notin DOMAIN dispatches
    BY <1>1, <1>2, <1>4
  <1>6. responses' = responses
    BY DEF CommitExecutionIntent
  <1> QED
    BY <1>3, <1>5, <1>6 DEF NothingHandedOff, RecordsStay, BoundRun, IsSettled, ToldStays, Told,
       Acknowledgements

LEMMA CommitsMove ==
    ASSUME Ready, NEW w \in Workers, RefreshCommits(w)
    PROVE  Moves(w)
  <1>1. worker[w] \in WorkerStates /\ worker \in [Workers -> WorkerStates]
    BY DEF Ready, DispatchInductive
  <1>2. /\ worker'[w].pc = "claim"
        /\ \A v \in Workers : v # w => worker'[v] = worker[v]
    BY <1>1 DEF RefreshCommits, WorkerStates
  <1>3. RunsStay /\ HandsOff
    BY IntentHandsNothing, RunsUntouched DEF RefreshCommits, IntentEvents, HandsOff
  <1> QED
    BY <1>2, <1>3 DEF Moves, OwnWorker
-------------------------------------------------------------------------------
\* A packet that does not acknowledge an attempt tells no run.
LEMMA SubmitTellsNothing ==
    ASSUME Ready, NEW actor, NEW p, SubmitResponse(actor, p),
           p.type # "execution.acknowledged" \/ p.key \notin 1..MaxAttempts
    PROVE  NothingHandedOff
  <1>1. PICK new : new = StoredResponse(p, actor)
    OBVIOUS
  <1>2. new.type = p.type /\ new.key = p.key
    BY <1>1 DEF StoredResponse
  <1>3. responses' = responses \cup {new} /\ dispatches' = dispatches
    BY <1>1 DEF SubmitResponse
  <1>4. ASSUME NEW n \in 1..MaxAttempts PROVE Told(n)' = Told(n)
    <2>1. {q \in Acknowledgements : q.key = n}' = {q \in Acknowledgements : q.key = n}
      BY <1>2, <1>3 DEF Acknowledgements
    <2> QED
      BY <2>1 DEF Told
  <1> QED
    BY <1>3, <1>4 DEF NothingHandedOff, RecordsStay, BoundRun, IsSettled, ToldStays

\* The acknowledgement of a worker tells the run its record names.
LEMMA AckMoves ==
    ASSUME Ready, NEW w \in Workers, SubmitAck(w)
    PROVE  Moves(w)
  <1>1. worker[w] \in WorkerStates /\ worker \in [Workers -> WorkerStates]
    BY DEF Ready, DispatchInductive
  <1>2. PICK n \in DOMAIN dispatches : n = worker[w].dispatch
    BY DEF Ready, DispatchInductive, SoundWorker, OnDispatch, SubmitAck
  <1>3. PICK r : r = worker[w].run
    OBVIOUS
  <1>4. n \in 1..MaxAttempts /\ r # None /\ IsRunOf(r, n) /\ BoundRun(n) = r
    BY <1>1, <1>2, <1>3, DispatchFacts DEF Ready, OwnRuns, OwnWorker, SubmitAck
  <1>5. PICK new : new = StoredResponse(AckPacket(w), Recipient)
    OBVIOUS
  <1>6. new.type = "execution.acknowledged" /\ new.key = n /\ new.run = r
    BY <1>2, <1>3, <1>5 DEF StoredResponse, AckPacket, TrustedPacket
  <1>7. /\ responses' = responses \cup {new} /\ dispatches' = dispatches /\ runs' = runs
        /\ Acknowledgements' = Acknowledgements \cup {new}
    BY <1>5, <1>6 DEF SubmitAck, SubmitResponse, Acknowledgements
  <1>8. Told(n)' = Told(n) \cup {r}
    BY <1>6, <1>7 DEF Told
  <1>9. ASSUME NEW m \in 1..MaxAttempts, m # n PROVE Told(m)' = Told(m)
    <2>1. {q \in Acknowledgements : q.key = m}' = {q \in Acknowledgements : q.key = m}
      BY <1>6, <1>7, <1>9
    <2> QED
      BY <2>1 DEF Told
  <1>10. RecordsStay
    BY <1>7 DEF RecordsStay, BoundRun, IsSettled
  <1>11. RunsStay /\ HandsOff
    BY <1>4, <1>7, <1>8, <1>9, <1>10, RunsUntouched DEF HandsOff, Tells
  <1>12. /\ worker'[w].pc = "settle" /\ worker'[w].run = r /\ worker'[w].dispatch = n
         /\ \A v \in Workers : v # w => worker'[v] = worker[v]
    BY <1>1, <1>2, <1>3 DEF SubmitAck, WorkerStates
  <1>13. OwnWorker(w)'
    BY <1>4, <1>7, <1>12 DEF OwnWorker, IsRunOf, BoundRun
  <1> QED
    BY <1>11, <1>12, <1>13 DEF Moves

LEMMA ReportMoves ==
    ASSUME Ready, NEW w \in Workers, SubmitReport(w)
    PROVE  Moves(w)
  <1>1. worker[w] \in WorkerStates /\ worker \in [Workers -> WorkerStates]
    BY DEF Ready, DispatchInductive
  <1>2. worker[w].type \in ReportTypes
    BY DEF Ready, DispatchInductive, SoundWorker, SubmitReport
  <1>3. ReportPacket(w).type # "execution.acknowledged"
    BY <1>2 DEF ReportPacket, TrustedPacket, ReportTypes, RunBoundTypes
  <1>4. RunsStay /\ HandsOff
    BY <1>3, SubmitTellsNothing, RunsUntouched DEF SubmitReport, HandsOff
  <1>5. /\ worker'[w].pc \in {"idle", "remember"}
        /\ \A v \in Workers : v # w => worker'[v] = worker[v]
    BY <1>1 DEF SubmitReport, Idle
  <1> QED
    BY <1>4, <1>5 DEF Moves, OwnWorker

\* The planner and the reporters hand nothing over.
LEMMA OthersMove ==
    ASSUME Ready, PlannerStep \/ \E actor \in Reporters : ManualReport(actor)
    PROVE  RunsStay /\ HandsOff /\ worker' = worker
  <1>1. UNCHANGED <<worker, runs>>
    BY DEF PlannerStep, ManualReport
  <1>2. NothingHandedOff
    <2>1. CASE AnswerQuestion(Sender) \/ RequestCompletionReview(Sender)
      BY <2>1, StoresNothing DEF AnswerQuestion, RequestCompletionReview, ApplyBroker
    <2>2. ASSUME NEW id, NEW outcome, SubmitResponse(Sender, ReviewPacket(id, outcome))
          PROVE  NothingHandedOff
      BY <2>2, SubmitTellsNothing DEF ReviewPacket
    <2>3. ASSUME NEW type, RecordDecision(HumanDecision(type))
          PROVE  NothingHandedOff
      BY <2>3, StoresNothing DEF RecordDecision
    <2>4. ASSUME Len(dispatches) < MaxAttempts, NEW event \in IntentEvents,
                 CommitExecutionIntent(event, Sender, None)
          PROVE  NothingHandedOff
      BY <2>4, IntentHandsNothing
    <2>5. ASSUME NEW actor, ManualReport(actor)
          PROVE  NothingHandedOff
      <3>1. PICK type, run, id :
               SubmitResponse(actor, [TrustedPacket(type, 0, snap.parent, run) EXCEPT !.id = id])
        BY <2>5 DEF ManualReport
      <3>2. [TrustedPacket(type, 0, snap.parent, run) EXCEPT !.id = id].key \notin 1..MaxAttempts
        BY DispatchAssumption DEF TrustedPacket
      <3> QED
        BY <3>1, <3>2, SubmitTellsNothing
    <2> QED
      BY <2>1, <2>2, <2>3, <2>4, <2>5 DEF PlannerStep
  <1> QED
    BY <1>1, <1>2, RunsUntouched DEF HandsOff

\* The provider starts a run for the worker that posts, or ends one.
LEMMA SubmitMoves ==
    ASSUME Ready, NEW w \in Workers, SubmitAccepted(w) \/ SubmitUnanswered(w)
    PROVE  Moves(w)
  <1>1. worker[w] \in WorkerStates /\ worker \in [Workers -> WorkerStates]
    BY DEF Ready, DispatchInductive
  <1>2. runs \in Seq(RunRecords) /\ Len(runs) <= MaxRuns
    BY DEF Ready, DispatchInductive, Records
  <1>3. worker[w].dispatch \in DOMAIN dispatches
    BY DEF Ready, DispatchInductive, SoundWorker, OnDispatch, SubmitAccepted, SubmitUnanswered
  <1>4. worker[w].dispatch \in 1..MaxAttempts
    BY <1>3, DispatchFacts DEF Ready
  <1>5. PICK new : new = [dispatch |-> worker[w].dispatch, outcome |-> "running",
                          key |-> Len(runs) + 1]
    OBVIOUS
  <1>6. /\ new.dispatch = worker[w].dispatch
        /\ Len(runs) < MaxRuns => new \in RunRecords
    BY <1>2, <1>4, <1>5, DispatchAssumption DEF RunRecords, Outcomes
  <1>7. Len(runs) < MaxRuns /\ ProviderStarts(worker[w].dispatch) =>
           RunsStay /\ Len(runs) + 1 \in DOMAIN runs' /\ runs'[Len(runs) + 1] = new
    BY <1>2, <1>5, <1>6 DEF ProviderStarts, RunsStay
  <1>8. RunsStay
    BY <1>7, RunsUntouched DEF SubmitAccepted, SubmitUnanswered
  <1>9. HandsOff
    BY StoresNothing DEF SubmitAccepted, SubmitUnanswered, lifecycleVars, HandsOff
  <1>10. \A v \in Workers : v # w => worker'[v] = worker[v]
    BY <1>1 DEF SubmitAccepted, SubmitUnanswered, Goes, Ends
  <1>11. CASE SubmitAccepted(w)
    <2>1. /\ worker'[w].pc = "accept" /\ worker'[w].dispatch = worker[w].dispatch
          /\ worker'[w].run = Len(runs) + 1
      BY <1>1, <1>11 DEF SubmitAccepted, WorkerStates
    <2>2. Len(runs) + 1 # None
      BY <1>2, <1>11, LifecycleAssumption, DispatchAssumption DEF SubmitAccepted
    <2>3. OwnWorker(w)'
      BY <1>6, <1>7, <1>11, <2>1, <2>2 DEF OwnWorker, IsRunOf, SubmitAccepted
    <2> QED
      BY <1>8, <1>9, <1>10, <2>3 DEF Moves
  <1>12. CASE SubmitUnanswered(w)
    <2>1. worker'[w].pc \in {"mark", "idle"}
      BY <1>1, <1>12 DEF SubmitUnanswered, Goes, Ends, Idle, WorkerStates
    <2> QED
      BY <1>8, <1>9, <1>10, <2>1 DEF Moves, OwnWorker
  <1> QED
    BY <1>11, <1>12

LEMMA EndsMove ==
    ASSUME Ready, NEW r \in DOMAIN runs, RunEnds(r)
    PROVE  RunsStay /\ HandsOff /\ worker' = worker
  <1>1. runs \in Seq(RunRecords)
    BY DEF Ready, DispatchInductive, Records
  <1>2. PICK outcome, key : runs' = [runs EXCEPT ![r].outcome = outcome, ![r].key = key]
    BY DEF RunEnds
  <1>3. runs[r] \in RunRecords
    BY <1>1
  <1>4. PICK ended : ended = [runs[r] EXCEPT !.outcome = outcome, !.key = key]
    OBVIOUS
  <1>5. ended.dispatch = runs[r].dispatch
    BY <1>3, <1>4 DEF RunRecords
  <1>6. runs' = [runs EXCEPT ![r] = ended]
    BY <1>2, <1>4
  <1>7. RunsStay
    BY <1>1, <1>5, <1>6 DEF RunsStay
  <1>8. HandsOff /\ worker' = worker
    BY StoresNothing DEF RunEnds, lifecycleVars, HandsOff
  <1> QED
    BY <1>7, <1>8
-------------------------------------------------------------------------------
\* One step of the reconciler, of the provider or of the planner.
LEMMA StepHandsOff ==
    ASSUME Ready, [DispatchNext]_allVars
    PROVE  OwnRuns' /\ HandsOff
  <1>1. ASSUME NEW w \in Workers, WorkerStep(w) \/ Crash(w) PROVE Moves(w)
    BY <1>1, LooksMove, ClaimMoves, NotesMove, PersistMoves, SettleMoves, CommitsMove, AckMoves,
       ReportMoves, SubmitMoves DEF WorkerStep
  <1>2. ASSUME NEW w \in Workers, Moves(w) PROVE OwnRuns' /\ HandsOff
    BY <1>2, MovesKeep DEF Moves
  <1>3. ASSUME RunsStay, HandsOff, worker' = worker PROVE OwnRuns' /\ HandsOff
    BY <1>3, MovesKeep
  <1>4. CASE (Tick /\ UNCHANGED dispatchVars) \/ UNCHANGED allVars
    <2>1. UNCHANGED <<dispatches, responses, runs, worker>>
      BY <1>4 DEF Tick, allVars, vars, lifecycleVars, dispatchVars
    <2> QED
      BY <2>1, <1>3, StoresNothing, RunsUntouched DEF HandsOff
  <1>5. CASE \/ \E n \in DOMAIN dispatches : LeaseExpires(n)
             \/ \E r \in DOMAIN runs : RunEnds(r)
             \/ PlannerStep
             \/ \E actor \in Reporters : ManualReport(actor)
    BY <1>3, <1>5, LeaseMoves, EndsMove, OthersMove
  <1> QED
    BY <1>1, <1>2, <1>4, <1>5 DEF DispatchNext, ExecutionStep

LEMMA InitOwnsRuns == DispatchInit => OwnRuns
  BY DEF DispatchInit, OwnRuns, OwnWorker, BoundRun, IsSettled, Idle

\* The invariant behind the refinement: the runs that records, workers and
\* acknowledgements name for an attempt are the one run the attempt was posted as.
THEOREM RunsAreOwn == DispatchSpec => []OwnRuns
  <1>1. DispatchInductive /\ OwnRuns /\ [DispatchNext]_allVars => OwnRuns'
    BY StepHandsOff DEF Ready
  <1> QED
    BY <1>1, InitOwnsRuns, DispatchInvariant, PTL DEF DispatchSpec

\* Execution implements the hand-off: storing the provider's answer binds the attempt,
\* the acknowledgement tells its run, and every other step is a stutter.
THEOREM ExecutionIsHandedOff == DispatchSpec => ExecutionIsAHandOff
  <1> DEFINE bound == [n \in 1..MaxAttempts |->
                         IF n \in DOMAIN dispatches THEN dispatches[n].run ELSE None]
             told == [n \in 1..MaxAttempts |-> {r.run : r \in {q \in Acknowledgements : q.key = n}}]
  <1>1. DispatchInit => Attempts!Init
    BY DEF DispatchInit, Attempts!Init, Acknowledgements, PlanCompleted
  <1>2. ASSUME DispatchInductive, OwnRuns, [DispatchNext]_allVars
        PROVE  [Attempts!Next]_(Attempts!handOffVars)
    <2>1. /\ bound = [n \in 1..MaxAttempts |-> BoundRun(n)]
          /\ bound' = [n \in 1..MaxAttempts |-> BoundRun(n)']
          /\ told = [n \in 1..MaxAttempts |-> Told(n)]
          /\ told' = [n \in 1..MaxAttempts |-> Told(n)']
      BY DEF BoundRun, Told
    <2>2. HandsOff
      BY <1>2, StepHandsOff DEF Ready
    <2>3. ToldStays => told' = told
      BY <2>1 DEF ToldStays
    <2>4. RecordsStay => bound' = bound
      BY <2>1 DEF RecordsStay
    <2>5. CASE NothingHandedOff
      BY <2>3, <2>4, <2>5 DEF NothingHandedOff, Attempts!handOffVars
    <2>6. ASSUME NEW n \in 1..MaxAttempts, NEW r \in Runs, Binds(n, r)
          PROVE  Attempts!Next
      <3>1. bound[n] = None /\ bound' = [bound EXCEPT ![n] = r]
        <4>1. BoundRun(n) = None
          BY <2>6 DEF Binds
        <4>2. \A m \in 1..MaxAttempts : BoundRun(m)' = IF m = n THEN r ELSE BoundRun(m)
          BY <2>6 DEF Binds
        <4> HIDE DEF bound, told
        <4> QED
          BY <2>1, <4>1, <4>2
      <3>2. told' = told
        BY <2>3, <2>6 DEF Binds
      <3>3. Attempts!Bind(n, r)
        BY <3>1 DEF Attempts!Bind
      <3> QED
        BY <3>2, <3>3 DEF Attempts!Next
    <2>7. ASSUME NEW n \in 1..MaxAttempts, Tells(n)
          PROVE  Attempts!Next
      <3>1. bound' = bound /\ bound'[n] = BoundRun(n) /\ BoundRun(n) \in Runs
        <4>1. bound' = bound /\ bound[n] = BoundRun(n) /\ BoundRun(n) # None
          BY <2>1, <2>4, <2>7 DEF Tells
        <4>2. n \in DOMAIN dispatches /\ dispatches[n] \in Dispatches
          BY <1>2, <4>1, DispatchFacts DEF BoundRun
        <4> QED
          BY <4>1, <4>2 DEF BoundRun, Dispatches
      <3>2. told' = [told EXCEPT ![n] = @ \cup {bound'[n]}]
        <4>1. PICK r : r = BoundRun(n)
          OBVIOUS
        <4>2. \A m \in 1..MaxAttempts : Told(m)' = IF m = n THEN Told(m) \cup {r} ELSE Told(m)
          BY <2>7, <4>1 DEF Tells
        <4>3. bound'[n] = r
          BY <3>1, <4>1
        <4> HIDE DEF bound, told
        <4> QED
          BY <2>1, <4>2, <4>3
      <3>3. Attempts!Tell(n)
        BY <3>1, <3>2 DEF Attempts!Tell
      <3> QED
        BY <3>1, <3>3 DEF Attempts!Next
    <2> QED
      BY <2>2, <2>5, <2>6, <2>7 DEF HandsOff
  <1> QED
    BY <1>1, <1>2, RunsAreOwn, DispatchInvariant, PTL
       DEF DispatchSpec, ExecutionIsAHandOff, Attempts!Spec
-------------------------------------------------------------------------------
(***************************************************************************)
(* The composed system as the work order sees it: each of its steps is a   *)
(* handler of the work order, called with an input a client can send, or   *)
(* an update of what became of one attempt, or none of its business.       *)
(***************************************************************************)

\* A dispatch record as the intent stored it, whatever became of the attempt since.
Committed(d) ==
    [event |-> d.event, plan |-> d.plan, approval |-> d.approval, at |-> d.at,
     state |-> "PENDING", attemptCount |-> 0, leaseOwner |-> None, run |-> None,
     receipt |-> d.event]

UpdatesAttempt ==
    \E n \in DOMAIN dispatches : \E record :
        /\ Committed(record) = Committed(dispatches[n])
        /\ UpdatesDispatch(n, record)

ActsOnWorkOrder == UNCHANGED lifecycleVars \/ UpdatesAttempt \/ HandlerStep

\* The sessions of a worker on the dispatch it works on.
LEMMA SessionsUpdateAttempts ==
    ASSUME Ready, NEW w \in Workers,
           \/ ClaimLease(w) \/ MarkReconciliation(w) \/ PersistAcceptance(w)
           \/ SettleDispatch(w) \/ RememberReceipt(w)
    PROVE  UpdatesAttempt
  <1>1. PICK n \in DOMAIN dispatches : n = worker[w].dispatch
    BY DEF Ready, DispatchInductive, SoundWorker, OnDispatch, ClaimLease, MarkReconciliation,
       PersistAcceptance, SettleDispatch, RememberReceipt
  <1>2. PICK d \in Dispatches : d = dispatches[n]
    BY DispatchFacts DEF Ready
  <1>3. ASSUME NEW record, UpdatesDispatch(n, record), Committed(record) = Committed(d)
        PROVE  UpdatesAttempt
    BY <1>2, <1>3 DEF UpdatesAttempt
  <1>4. CASE ClaimLease(w)
    <2>1. Committed(Claimed(d, worker[w].actor)) = Committed(d)
      BY DEF Committed, Claimed, Dispatches
    <2> QED
      BY <1>1, <1>2, <1>3, <1>4, <2>1 DEF ClaimLease
  <1>5. CASE MarkReconciliation(w)
    <2>1. Committed([d EXCEPT !.state = "RECONCILIATION_REQUIRED", !.leaseOwner = None])
             = Committed(d)
      BY DEF Committed, Dispatches
    <2> QED
      BY <1>1, <1>2, <1>3, <1>5, <2>1 DEF MarkReconciliation
  <1>6. CASE PersistAcceptance(w)
    <2>1. Committed([d EXCEPT !.state = "PROVIDER_ACCEPTED", !.run = worker[w].run]) = Committed(d)
      BY DEF Committed, Dispatches
    <2>2. \/ UpdatesDispatch(n, d)
          \/ UpdatesDispatch(n, [d EXCEPT !.state = "PROVIDER_ACCEPTED", !.run = worker[w].run])
      BY <1>1, <1>2, <1>6 DEF PersistAcceptance
    <2> QED
      BY <1>3, <2>1, <2>2
  <1>7. CASE SettleDispatch(w)
    <2>1. Committed([d EXCEPT !.state = "ACKNOWLEDGED", !.run = worker[w].run, !.leaseOwner = None,
                              !.receipt = "execution.acknowledged"]) = Committed(d)
      BY DEF Committed, Dispatches
    <2> QED
      BY <1>1, <1>2, <1>3, <1>7, <2>1 DEF SettleDispatch
  <1>8. CASE RememberReceipt(w)
    <2>1. Committed([d EXCEPT !.receipt = worker[w].type]) = Committed(d)
      BY DEF Committed, Dispatches
    <2> QED
      BY <1>1, <1>2, <1>3, <1>8, <2>1 DEF RememberReceipt
  <1> QED
    BY <1>4, <1>5, <1>6, <1>7, <1>8

LEMMA LeaseUpdatesAttempt ==
    ASSUME Ready, NEW n \in DOMAIN dispatches, LeaseExpires(n)
    PROVE  UpdatesAttempt
  <1>1. PICK d \in Dispatches : d = dispatches[n]
    BY DispatchFacts DEF Ready
  <1>2. Committed([d EXCEPT !.leaseOwner = None]) = Committed(d)
    BY DEF Committed, Dispatches
  <1> QED
    BY <1>1, <1>2 DEF LeaseExpires, UpdatesAttempt

\* A packet about a run is one that a client could have sent.
LEMMA RunPacketIsHandled ==
    ASSUME Ready, NEW actor \in Actors, NEW key \in Keys, NEW run \in Runs, NEW parent,
           NEW type \in ReportTypes \cup {"execution.acknowledged"}, NEW id \in MessageIds,
           SubmitResponse(actor, [TrustedPacket(type, key, parent, run) EXCEPT !.id = id])
    PROVE  HandlerStep
  <1> DEFINE p == [TrustedPacket(type, key, parent, run) EXCEPT !.id = 0]
  <1>1. parent = snap.parent
    BY DEF SubmitResponse, AcceptsResponse, TrustedPacket
  <1>2. /\ type \in ResponseTypes \ {"plan.completed", "review.completed"}
        /\ run # None
    BY LifecycleAssumption DEF ReportTypes, RunBoundTypes, ResponseTypes
  <1>3. p \in PacketInputs
    BY <1>1, <1>2 DEF TrustedPacket, PacketInputs, InputsOf, ReportTypes
  <1>4. [TrustedPacket(type, key, parent, run) EXCEPT !.id = id] = [p EXCEPT !.id = id]
    BY DEF TrustedPacket
  <1> QED
    BY <1>3, <1>4 DEF HandlerStep

\* A packet the service builds has a fresh id.
LEMMA TrustedPacketIsFresh ==
    ASSUME NEW type, NEW key, NEW parent, NEW run
    PROVE  \E id \in MessageIds : TrustedPacket(type, key, parent, run)
                                     = [TrustedPacket(type, key, parent, run) EXCEPT !.id = id]
  <1>1. PICK id \in MessageIds : id = snap.version + 1
    BY DEF MessageIds
  <1> QED
    BY <1>1 DEF TrustedPacket

LEMMA WorkerActs ==
    ASSUME Ready, NEW w \in Workers, WorkerStep(w) \/ Crash(w)
    PROVE  ActsOnWorkOrder
  <1>1. /\ worker[w] \in WorkerStates /\ SoundWorker(w) /\ OwnWorker(w)
        /\ Recipient \in Actors
    BY DispatchAssumption DEF Ready, DispatchInductive, OwnRuns
  <1>2. CASE UNCHANGED lifecycleVars
    BY <1>2 DEF ActsOnWorkOrder
  <1>3. CASE RefreshCommits(w)
    <2>1. worker[w].actor \in Actors
      <3>1. worker[w].actor \in Participants /\ worker[w].actor \in Actors \cup {None}
        BY <1>1, <1>3 DEF RefreshCommits, CommitExecutionIntent, AcceptsBrokerEvent, WorkerStates
      <3> QED
        BY <1>1, <3>1, LifecycleAssumption DEF Participants
    <2> QED
      BY <1>3, <2>1 DEF RefreshCommits, ActsOnWorkOrder, HandlerStep, IntentEvents
  <1>4. CASE SubmitAck(w)
    <2>1. worker[w].run \in Runs /\ worker[w].dispatch \in Keys
      BY <1>1, <1>4, DispatchAssumption DEF SubmitAck, OwnWorker, WorkerStates
    <2> QED
      BY <1>1, <1>4, <2>1, RunPacketIsHandled, TrustedPacketIsFresh
         DEF SubmitAck, AckPacket, ActsOnWorkOrder
  <1>5. CASE SubmitReport(w)
    <2>1. worker[w].run \in Runs /\ worker[w].key \in Keys /\ worker[w].type \in ReportTypes
      BY <1>1, <1>5 DEF SubmitReport, SoundWorker, WorkerStates
    <2> QED
      BY <1>1, <1>5, <2>1, RunPacketIsHandled, TrustedPacketIsFresh
         DEF SubmitReport, ReportPacket, ActsOnWorkOrder
  <1>6. CASE \/ \E actor \in Callers : Refresh(w, actor)
             \/ RefreshFindsIntent(w) \/ RefreshCommitRefused(w) \/ AdvanceFindsDispatch(w)
             \/ PollFindsRun(w) \/ ClaimRefused(w) \/ ReadParent(w) \/ Crash(w)
    <2>1. UNCHANGED lifecycleVars
      BY <1>6, Zenon DEF Refresh, RefreshFindsIntent, RefreshCommitRefused, AdvanceFindsDispatch,
         PollFindsRun, ClaimRefused, ReadParent, Crash
    <2> QED
      BY <1>2, <2>1
  <1>7. CASE \/ SubmitAccepted(w) \/ SubmitUnanswered(w) \/ SubmitAckRefused(w)
             \/ QueryRun(w) \/ SubmitReportRefused(w) \/ RememberFindsDispatch(w)
    <2>1. UNCHANGED lifecycleVars
      BY <1>7 DEF SubmitAccepted, SubmitUnanswered, SubmitAckRefused, QueryRun,
         SubmitReportRefused, RememberFindsDispatch
    <2> QED
      BY <1>2, <2>1
  <1>8. CASE \/ ClaimLease(w) \/ MarkReconciliation(w) \/ PersistAcceptance(w)
             \/ SettleDispatch(w) \/ RememberReceipt(w)
    BY <1>8, SessionsUpdateAttempts DEF ActsOnWorkOrder
  <1> QED
    BY <1>3, <1>4, <1>5, <1>6, <1>7, <1>8 DEF WorkerStep

LEMMA PlannerActs ==
    ASSUME Ready, PlannerStep
    PROVE  HandlerStep
  <1>1. /\ Sender \in Actors /\ Len(dispatches) \in Keys /\ snap.parent \in Nat
        /\ None \notin ReviewOutcomes
    BY LifecycleAssumption, DispatchAssumption
       DEF Ready, DispatchInductive, Records, TypeOK, Snapshots
  <1>2. CASE AnswerQuestion(Sender) \/ RequestCompletionReview(Sender)
    BY <1>1, <1>2 DEF HandlerStep
  <1>3. ASSUME NEW id \in MessageIds, NEW outcome \in {"APPROVED", "REVISE"},
               SubmitResponse(Sender, ReviewPacket(id, outcome))
        PROVE  HandlerStep
    <2>1. ReviewPacket(0, outcome) \in PacketInputs
      BY <1>1 DEF ReviewPacket, PacketInputs, InputsOf, ReviewOutcomes
    <2>2. ReviewPacket(id, outcome) = [ReviewPacket(0, outcome) EXCEPT !.id = id]
      BY DEF ReviewPacket
    <2> QED
      BY <1>1, <1>3, <2>1, <2>2 DEF HandlerStep
  <1>4. ASSUME NEW type \in {"accept_completion", "request_revision", "cancel"},
               RecordDecision(HumanDecision(type))
        PROVE  HandlerStep
    <2>1. HumanDecision(type) \in DecisionInputs
      BY <1>1 DEF HumanDecision, DecisionInputs, DecisionsOf, DecisionTypes
    <2> QED
      BY <1>4, <2>1 DEF HandlerStep
  <1>5. ASSUME NEW event \in IntentEvents, CommitExecutionIntent(event, Sender, None)
        PROVE  HandlerStep
    BY <1>1, <1>5 DEF HandlerStep
  <1> QED
    BY <1>2, <1>3, <1>4, <1>5 DEF PlannerStep

LEMMA ManualReportActs ==
    ASSUME Ready, NEW actor \in Reporters, ManualReport(actor)
    PROVE  HandlerStep
  <1>1. PICK type \in RunBoundTypes \cup {"execution.acknowledged"}, run \in Runs,
             id \in MessageIds :
           SubmitResponse(actor, [TrustedPacket(type, 0, snap.parent, run) EXCEPT !.id = id])
    BY DEF ManualReport
  <1>2. 0 \in Keys /\ actor \in Actors /\ type \in ReportTypes \cup {"execution.acknowledged"}
    BY DispatchAssumption DEF ReportTypes
  <1> QED
    BY <1>1, <1>2, RunPacketIsHandled

\* The steps of the composed system, on the work order.
LEMMA StepActs ==
    ASSUME Ready, [DispatchNext]_allVars
    PROVE  ActsOnWorkOrder /\ (Tick \/ UNCHANGED <<now, planningVars>>)
  <1>1. ASSUME NEW r, RunEnds(r) PROVE UNCHANGED lifecycleVars
    BY <1>1 DEF RunEnds
  <1>2. CASE UNCHANGED allVars
    BY <1>2 DEF allVars, vars, lifecycleVars, planningVars, ActsOnWorkOrder
  <1> QED
    BY <1>1, <1>2, WorkerActs, PlannerActs, ManualReportActs, LeaseUpdatesAttempt
       DEF DispatchNext, ExecutionStep, Tick, ActsOnWorkOrder
-------------------------------------------------------------------------------
\* The lifecycle invariant reads of the dispatch records only how many there are.
LEMMA UpdateKeepsLifecycle ==
    ASSUME TypeOK, LifecycleInductive,
           UNCHANGED lifecycleVars \/ UpdatesAttempt
    PROVE  LifecycleInductive'
  <1>1. UNCHANGED <<status, snap, responses>>
    BY DEF lifecycleVars, UpdatesAttempt, UpdatesDispatch
  <1>2. /\ Len(dispatches') = Len(dispatches)
        /\ dispatches = <<>> => dispatches' = <<>>
    BY DEF lifecycleVars, UpdatesAttempt, UpdatesDispatch, TypeOK
  <1>3. /\ Acknowledgements' = Acknowledgements
        /\ IsBeforeDispatch' = IsBeforeDispatch /\ IsUnderWay' = IsUnderWay
    BY <1>1 DEF Acknowledgements, IsBeforeDispatch, IsUnderWay
  <1>4. AttemptsAreCounted' /\ RunIsBound'
    BY <1>1, <1>2, <1>3 DEF LifecycleInductive, AttemptsAreCounted, RunIsBound
  <1>5. CompletionIsStored' /\ BlockedOriginIsCoherent'
    BY <1>1 DEF LifecycleInductive, CompletionIsStored, BlockedOriginIsCoherent
  <1>6. ReportsAreOfBoundRun' /\ ReviewIsOfLatestCompletion'
    BY <1>1, <1>3
       DEF LifecycleInductive, ReportsAreOfBoundRun, IsOfBoundRun, ReviewIsOfLatestCompletion
  <1> QED
    BY <1>4, <1>5, <1>6 DEF LifecycleInductive

LEMMA InitLifecycleOfDispatch == DispatchInit => LifecycleInductive
  <1> SUFFICES ASSUME DispatchInit PROVE LifecycleInductive
    OBVIOUS
  <1>1. PICK plan : /\ snap = [DeriveSnapshot EXCEPT !.parent = 3, !.version = 4, !.plan = plan]
                    /\ responses = {PlanCompleted(plan)}
    BY DEF DispatchInit
  <1>2. (\A r \in responses : r.type = "plan.completed") /\ IsFiniteSet(responses)
    <2>1. IsFiniteSet(responses)
      BY <1>1, FS_Singleton
    <2>2. \A r \in responses : r.type = "plan.completed"
      BY <1>1 DEF PlanCompleted
    <2> QED
      BY <2>1, <2>2
  <1>3. Acknowledgements = {}
    BY <1>2 DEF Acknowledgements
  <1>4. Cardinality(Acknowledgements) = 0 /\ Len(dispatches) = 0
    BY <1>3, FS_EmptySet DEF DispatchInit
  <1>5. snap.blockedFrom = None /\ snap.acknowledged = FALSE
    BY <1>1 DEF DeriveSnapshot
  <1> QED
    BY <1>2, <1>3, <1>4, <1>5
       DEF DispatchInit, LifecycleInductive, AttemptsAreCounted, RunIsBound, CompletionIsStored,
           BlockedOriginIsCoherent, ReportsAreOfBoundRun, ReviewIsOfLatestCompletion, RunBoundTypes,
           IsBeforeDispatch, IsUnderWay, UnderWay, ExecutionStatuses

\* What holds of the response lifecycle alone holds with workers in between: they reach
\* the work order through its handlers only.
THEOREM LifecycleHolds == DispatchSpec => []LifecycleInductive
  <1>1. ASSUME DispatchInductive, OwnRuns, LifecycleInductive, [DispatchNext]_allVars
        PROVE  LifecycleInductive'
    <2>1. ActsOnWorkOrder /\ (Tick \/ UNCHANGED <<now, planningVars>>)
      BY <1>1, StepActs DEF Ready
    <2>2. TypeOK /\ Inductive
      BY <1>1 DEF DispatchInductive, Records
    <2>3. CASE HandlerStep
      BY <1>1, <2>1, <2>2, <2>3, LifecycleStep DEF LifecycleNext
    <2>4. CASE UNCHANGED lifecycleVars \/ UpdatesAttempt
      BY <1>1, <2>1, <2>2, <2>4, UpdateKeepsLifecycle
    <2> QED
      BY <2>1, <2>3, <2>4 DEF ActsOnWorkOrder
  <1> QED
    BY <1>1, InitLifecycleOfDispatch, RunsAreOwn, DispatchInvariant, PTL DEF DispatchSpec

\* However many workers race, die and retry, and whoever reports by hand: every attempt
\* is acknowledged once before the next begins, a question comes back to where it was
\* asked, a report names the run of the newest acknowledgement before it, and a human
\* is asked only about a review made after the latest completion.
THEOREM WorkOrderStaysCoherent ==
    DispatchSpec => [](/\ OneAcknowledgementPerDispatch /\ BlockedOriginIsCoherent
                       /\ ReportsAreOfBoundRun /\ ReviewIsOfLatestCompletion)
  <1>1. LifecycleInductive => OneAcknowledgementPerDispatch
    BY DEF LifecycleInductive, AttemptsAreCounted, OneAcknowledgementPerDispatch, IsUnderWay, UnderWay
  <1>2. LifecycleInductive => /\ BlockedOriginIsCoherent
                              /\ ReportsAreOfBoundRun /\ ReviewIsOfLatestCompletion
    BY DEF LifecycleInductive
  <1> QED
    BY <1>1, <1>2, LifecycleHolds, PTL

\* The plan that was approved stays the stored one while it is executed (every attempt,
\* acknowledgement and report leaves the id and the fingerprint alone).
THEOREM ApprovedPlanIsKept == DispatchSpec => PlanFingerprintIsFrozen
  <1>1. DispatchInductive /\ OwnRuns /\ [DispatchNext]_allVars =>
           [snap.plan # None => snap'.plan = snap.plan]_vars
    <2> SUFFICES ASSUME DispatchInductive, OwnRuns, [DispatchNext]_allVars, snap.plan # None
                 PROVE  snap'.plan = snap.plan
      OBVIOUS
    <2>1. ActsOnWorkOrder
      BY StepActs DEF Ready
    <2>2. TypeOK /\ Inductive
      BY DEF DispatchInductive, Records
    <2>3. CASE HandlerStep
      BY <2>2, <2>3, HandlerKeepsPlan
    <2>4. CASE UNCHANGED lifecycleVars \/ UpdatesAttempt
      BY <2>4 DEF lifecycleVars, UpdatesAttempt, UpdatesDispatch
    <2> QED
      BY <2>1, <2>3, <2>4 DEF ActsOnWorkOrder
  <1> QED
    BY <1>1, RunsAreOwn, DispatchInvariant, PTL DEF DispatchSpec, PlanFingerprintIsFrozen
-------------------------------------------------------------------------------
(***************************************************************************)
(* The abstract work order hands a plan over in one step, and what became  *)
(* of an attempt is none of its business: WorkOrder without its planning   *)
(* poll, the dispatch records as the intents stored them.                  *)
(***************************************************************************)

Handed == [n \in DOMAIN dispatches |-> Committed(dispatches[n])]

Atomic == INSTANCE WorkOrder WITH dispatches <- Handed

\* Leases, provider calls, runs and workers are invisible to the work order: a step of
\* the composed system is one of its atomic handlers or changes nothing of it.
WorkOrderIsAtomic == [][Atomic!LifecycleNext]_(Atomic!vars)

\* Whatever does not read the dispatch records means the same on both levels.
LEMMA SameWords ==
    /\ Atomic!Statuses = Statuses /\ Atomic!Terminal = Terminal
    /\ Atomic!Plans = Plans /\ Atomic!IntentEvents = IntentEvents
    /\ Atomic!PacketInputs = PacketInputs /\ Atomic!DecisionInputs = DecisionInputs
    /\ Atomic!MessageIds = MessageIds
  <1>1. Atomic!Statuses = Statuses /\ Atomic!Terminal = Terminal
    BY DEF Atomic!Statuses, Statuses, Atomic!Terminal, Terminal
  <1>2. Atomic!Plans = Plans /\ Atomic!IntentEvents = IntentEvents
    BY DEF Atomic!Plans, Plans, Atomic!IntentEvents, IntentEvents
  <1>3. /\ Atomic!ResponseTypes = ResponseTypes /\ Atomic!ReviewOutcomes = ReviewOutcomes
        /\ Atomic!RunBoundTypes = RunBoundTypes /\ Atomic!DeriveSnapshot = DeriveSnapshot
        /\ Atomic!DecisionTypes = DecisionTypes
    BY DEF Atomic!ResponseTypes, ResponseTypes, Atomic!ReviewOutcomes, ReviewOutcomes,
       Atomic!RunBoundTypes, RunBoundTypes, Atomic!DeriveSnapshot, DeriveSnapshot,
       Atomic!DecisionTypes, DecisionTypes
  <1>4. Atomic!PacketInputs = PacketInputs
    BY <1>2, <1>3 DEF Atomic!PacketInputs, PacketInputs, Atomic!InputsOf, InputsOf
  <1>5. Atomic!DecisionInputs = DecisionInputs
    BY <1>2, <1>3 DEF Atomic!DecisionInputs, DecisionInputs, Atomic!DecisionsOf, DecisionsOf
  <1>6. Atomic!MessageIds = MessageIds
    <2>1. Atomic!ReusedIds = ReusedIds
      BY DEF Atomic!ReusedIds, ReusedIds
    <2>2. Atomic!Cardinality(ReusedIds) = Cardinality(ReusedIds)
      BY Zenon DEF Atomic!Cardinality, Cardinality
    <2> QED
      BY <2>1, <2>2 DEF Atomic!MessageIds, MessageIds
  <1> QED
    BY <1>1, <1>2, <1>4, <1>5, <1>6

LEMMA SameTransitions ==
    ASSUME NEW from, NEW event, NEW to
    PROVE  Atomic!Transition(from, event, to) <=> Transition(from, event, to)
  BY DEF Atomic!Transition, Transition, Atomic!TransitionTable, TransitionTable,
     Atomic!PlanningEdges, PlanningEdges, Atomic!ExecutionEdges, ExecutionEdges,
     Atomic!ReviewEdges, ReviewEdges, Atomic!Cancellable, Cancellable, Atomic!Statuses, Statuses,
     Atomic!Terminal, Terminal

LEMMA SameApprovals ==
    ASSUME NEW d, NEW plan
    PROVE  Atomic!IsMatchingPlanApproval(d, decisions, plan, now)
              <=> IsMatchingPlanApproval(d, decisions, plan, now)
  BY DEF Atomic!IsMatchingPlanApproval, IsMatchingPlanApproval, Atomic!Approves, Approves,
     Atomic!DecisionIsExpired, DecisionIsExpired

\* The handlers that leave the dispatch records alone.
LEMMA PacketIsAtomic ==
    ASSUME NEW actor, NEW p, SubmitResponse(actor, p)
    PROVE  Atomic!SubmitResponse(actor, p)
  <1>1. Atomic!ResponseKeyIsFree(actor, p) /\ Atomic!PacketIdIsFree(p)
    BY DEF SubmitResponse, Atomic!ResponseKeyIsFree, ResponseKeyIsFree,
       Atomic!PacketIdIsFree, PacketIdIsFree
  <1>2. Atomic!AcceptsResponse(snap, p, actor, decisions, now)
    BY SameApprovals DEF SubmitResponse, Atomic!AcceptsResponse, AcceptsResponse,
       Atomic!Participants, Participants, Atomic!RunBoundTypes, RunBoundTypes
  <1>3. \E to \in Atomic!Statuses :
           Atomic!ResponseTransition(status, p, to) /\ status' = to
    BY SameWords, SameTransitions
       DEF SubmitResponse, Atomic!ResponseTransition, ResponseTransition
  <1>4. /\ Atomic!AfterResponse(status, snap, p, actor) = AfterResponse(status, snap, p, actor)
        /\ Atomic!StoredResponse(p, actor) = StoredResponse(p, actor)
    BY DEF Atomic!AfterResponse, AfterResponse, Atomic!StoredResponse, StoredResponse
  <1>5. Handed' = Handed
    BY DEF SubmitResponse, Handed
  <1> QED
    BY <1>1, <1>2, <1>3, <1>4, <1>5 DEF SubmitResponse, Atomic!SubmitResponse

LEMMA DecisionIsAtomic ==
    ASSUME NEW d, RecordDecision(d)
    PROVE  Atomic!RecordDecision(d)
  <1>1. Atomic!DecisionKeyIsFree(d)
    BY DEF RecordDecision, Atomic!DecisionKeyIsFree, DecisionKeyIsFree
  <1>2. Atomic!AcceptsDecision(snap, d, now)
    BY DEF RecordDecision, Atomic!AcceptsDecision, AcceptsDecision, Atomic!Participants,
       Participants, Atomic!DecisionIsExpired, DecisionIsExpired
  <1>3. \E to \in Atomic!Statuses : Atomic!Transition(status, d.type, to) /\ status' = to
    BY SameWords, SameTransitions DEF RecordDecision
  <1>4. Atomic!AfterDecision(snap) = AfterDecision(snap)
    BY DEF Atomic!AfterDecision, AfterDecision
  <1>5. Handed' = Handed
    BY DEF RecordDecision, Handed
  <1> QED
    BY <1>1, <1>2, <1>3, <1>4, <1>5 DEF RecordDecision, Atomic!RecordDecision

LEMMA SameEvents ==
    ASSUME NEW event, NEW actor, NEW plan
    PROVE  /\ Atomic!AcceptsBrokerEvent(snap, event, actor, plan, decisions, now)
                 <=> AcceptsBrokerEvent(snap, event, actor, plan, decisions, now)
           /\ \A to : Atomic!BrokerTransition(status, snap, event, to)
                         <=> BrokerTransition(status, snap, event, to)
           /\ Atomic!AfterBrokerEvent(snap, event) = AfterBrokerEvent(snap, event)
  <1>1. Atomic!AcceptsBrokerEvent(snap, event, actor, plan, decisions, now)
           <=> AcceptsBrokerEvent(snap, event, actor, plan, decisions, now)
    BY SameApprovals DEF Atomic!AcceptsBrokerEvent, AcceptsBrokerEvent, Atomic!Participants,
       Participants
  <1>2. \A to : Atomic!BrokerTransition(status, snap, event, to)
                   <=> BrokerTransition(status, snap, event, to)
    BY SameTransitions DEF Atomic!BrokerTransition, BrokerTransition
  <1>3. Atomic!AfterBrokerEvent(snap, event) = AfterBrokerEvent(snap, event)
    BY DEF Atomic!AfterBrokerEvent, AfterBrokerEvent
  <1> QED
    BY <1>1, <1>2, <1>3

LEMMA EventIsAtomic ==
    ASSUME NEW event, NEW actor, ApplyBroker(event, actor)
    PROVE  Atomic!ApplyBroker(event, actor)
  <1>1. \E to \in Atomic!Statuses :
           Atomic!BrokerTransition(status, snap, event, to) /\ status' = to
    BY SameWords, SameEvents DEF ApplyBroker
  <1>2. Handed' = Handed
    BY DEF ApplyBroker, Handed
  <1> QED
    BY <1>1, <1>2, SameEvents DEF ApplyBroker, Atomic!ApplyBroker

LEMMA CommittedType ==
    ASSUME NEW d \in Dispatches
    PROVE  Committed(d) \in Dispatches
  <1>1. /\ d.event \in IntentEvents /\ d.plan \in Plans /\ d.approval \in Nat /\ d.at \in Nat
        /\ "PENDING" \in DispatchStates
    BY DEF Dispatches, DispatchStates
  <1> QED
    BY <1>1 DEF Committed, Dispatches

\* An intent: nothing is pending, for the status is one that admits the intent; and the
\* record it adds is the one the abstract work order adds.
LEMMA IntentIsAtomic ==
    ASSUME TypeOK, NEW event \in IntentEvents, NEW actor, NEW requested \in Plans \cup {None},
           CommitExecutionIntent(event, actor, requested)
    PROVE  Atomic!CommitExecutionIntent(event, actor, requested)
  <1> DEFINE plan == IF requested # None THEN requested ELSE snap.plan
  <1>1. /\ plan # None /\ snap.version < MaxVersion
        /\ AcceptsBrokerEvent(snap, event, actor, plan, decisions, now)
        /\ snap' = AfterBrokerEvent(snap, event)
        /\ UNCHANGED <<responses, decisions>>
    BY DEF CommitExecutionIntent
  <1>2. PICK to \in Statuses : BrokerTransition(status, snap, event, to) /\ status' = to
    BY DEF CommitExecutionIntent
  <1>3. PICK d \in decisions :
           /\ IsMatchingPlanApproval(d, decisions, plan, now)
           /\ dispatches' = Append(dispatches, NewDispatch(event, plan, d))
    BY DEF CommitExecutionIntent
  <1>4. status # "EXECUTION_DISPATCHED"
    BY <1>2, EdgeFacts DEF BrokerTransition, IntentEvents
  <1>5. /\ plan \in Plans /\ d \in Decisions
        /\ NewDispatch(event, plan, d) \in Dispatches
    BY <1>1, <1>3, DispatchType DEF TypeOK, Snapshots
  <1>6. /\ Committed(NewDispatch(event, plan, d)) = NewDispatch(event, plan, d)
        /\ Atomic!NewDispatch(event, plan, d) = NewDispatch(event, plan, d)
    BY DEF Committed, NewDispatch, Atomic!NewDispatch
  <1>7. Handed' = Append(Handed, NewDispatch(event, plan, d))
    <2> DEFINE new == NewDispatch(event, plan, d)
    <2>1. dispatches \in Seq(Dispatches) /\ new \in Dispatches
      BY <1>5 DEF TypeOK
    <2>2. /\ Len(dispatches) \in Nat /\ DOMAIN dispatches = 1..Len(dispatches)
          /\ DOMAIN dispatches' = 1..(Len(dispatches) + 1)
          /\ \A n \in 1..Len(dispatches) : dispatches'[n] = dispatches[n]
          /\ dispatches'[Len(dispatches) + 1] = new
      BY <1>3, <2>1
    <2>3. Handed \in Seq(Dispatches) /\ Len(Handed) = Len(dispatches)
      <3>1. \A n \in DOMAIN dispatches : Committed(dispatches[n]) \in Dispatches
        BY <2>1, <2>2, CommittedType
      <3>2. Handed \in [1..Len(dispatches) -> Dispatches]
        BY <2>2, <3>1 DEF Handed
      <3> QED
        BY <2>2, <3>2
    <2>4. Handed' = [n \in 1..(Len(dispatches) + 1) |-> Committed(dispatches'[n])]
      BY <2>2 DEF Handed
    <2>5. \A n \in 1..(Len(dispatches) + 1) :
             Committed(dispatches'[n]) = Append(Handed, new)[n]
      BY <1>6, <2>1, <2>2, <2>3 DEF Handed
    <2>6. /\ Append(Handed, new) \in Seq(Dispatches)
          /\ DOMAIN Append(Handed, new) = 1..(Len(dispatches) + 1)
      BY <2>1, <2>2, <2>3
    <2>7. Append(Handed, new) = [n \in 1..(Len(dispatches) + 1) |-> Append(Handed, new)[n]]
      BY <2>6
    <2> QED
      BY <2>4, <2>5, <2>7
  <1>8. ~Atomic!HasPendingDispatch
    BY <1>4 DEF Atomic!HasPendingDispatch
  <1>9. \E s \in Atomic!Statuses :
           Atomic!BrokerTransition(status, snap, event, s) /\ status' = s
    BY <1>2, SameWords, SameEvents
  <1>10. \E e \in decisions :
            /\ Atomic!IsMatchingPlanApproval(e, decisions, plan, now)
            /\ Handed' = Append(Handed, Atomic!NewDispatch(event, plan, e))
    BY <1>3, <1>6, <1>7, SameApprovals
  <1> QED
    BY <1>1, <1>8, <1>9, <1>10, SameEvents DEF Atomic!CommitExecutionIntent

LEMMA HandlerIsAtomic ==
    ASSUME TypeOK, HandlerStep
    PROVE  Atomic!HandlerStep
  <1>1. CASE \E actor \in Actors, p \in PacketInputs, id \in MessageIds :
                SubmitResponse(actor, [p EXCEPT !.id = id])
    BY <1>1, PacketIsAtomic, SameWords DEF Atomic!HandlerStep
  <1>2. CASE \E d \in DecisionInputs : RecordDecision(d)
    BY <1>2, DecisionIsAtomic, SameWords DEF Atomic!HandlerStep
  <1>3. CASE \E actor \in Actors : RequestPlanApproval(actor)
    BY <1>3, EventIsAtomic
       DEF RequestPlanApproval, Atomic!RequestPlanApproval, Atomic!HandlerStep
  <1>4. CASE \E actor \in Actors : RequestCompletionReview(actor)
    BY <1>4, EventIsAtomic
       DEF RequestCompletionReview, Atomic!RequestCompletionReview, Atomic!HandlerStep
  <1>5. CASE \E actor \in Actors : AnswerQuestion(actor)
    BY <1>5, EventIsAtomic DEF AnswerQuestion, Atomic!AnswerQuestion, Atomic!HandlerStep
  <1>6. CASE \E event \in IntentEvents, actor \in Actors, requested \in Plans \cup {None} :
                CommitExecutionIntent(event, actor, requested)
    BY <1>6, IntentIsAtomic, SameWords DEF Atomic!HandlerStep
  <1> QED
    BY <1>1, <1>2, <1>3, <1>4, <1>5, <1>6 DEF HandlerStep

\* What becomes of an attempt is not seen.
LEMMA UpdateIsUnseen ==
    ASSUME TypeOK, UNCHANGED lifecycleVars \/ UpdatesAttempt
    PROVE  UNCHANGED <<status, snap, responses, decisions, Handed>>
  <1>1. CASE UNCHANGED lifecycleVars
    BY <1>1 DEF lifecycleVars, Handed
  <1>2. CASE UpdatesAttempt
    <2> PICK n \in DOMAIN dispatches : \E record :
           Committed(record) = Committed(dispatches[n]) /\ UpdatesDispatch(n, record)
      BY <1>2 DEF UpdatesAttempt
    <2>1. PICK record : Committed(record) = Committed(dispatches[n]) /\ UpdatesDispatch(n, record)
      OBVIOUS
    <2>2. /\ DOMAIN dispatches' = DOMAIN dispatches
          /\ \A m \in DOMAIN dispatches :
                dispatches'[m] = IF m = n THEN record ELSE dispatches[m]
      BY <2>1 DEF UpdatesDispatch, TypeOK
    <2>3. \A m \in DOMAIN dispatches : Committed(dispatches'[m]) = Committed(dispatches[m])
      BY <2>1, <2>2
    <2>4. Handed' = Handed
      BY <2>2, <2>3 DEF Handed
    <2> QED
      BY <2>1, <2>4 DEF UpdatesDispatch
  <1> QED
    BY <1>1, <1>2

\* The composed system implements the atomic work order: each session of a worker or of
\* the planner is one handler of it or is unseen (`with store.lock_work_order').
THEOREM SessionsAreAtomic == DispatchSpec => WorkOrderIsAtomic
  <1>1. DispatchInductive /\ OwnRuns /\ [DispatchNext]_allVars =>
           [Atomic!LifecycleNext]_(Atomic!vars)
    <2> SUFFICES ASSUME DispatchInductive, OwnRuns, [DispatchNext]_allVars
                 PROVE  [Atomic!LifecycleNext]_(Atomic!vars)
      OBVIOUS
    <2>1. ActsOnWorkOrder /\ (Tick \/ UNCHANGED <<now, planningVars>>)
      BY StepActs DEF Ready
    <2>2. TypeOK
      BY DEF DispatchInductive, Records
    <2>3. CASE Tick
      <3>1. UNCHANGED <<status, snap, responses, decisions, Handed>>
        BY <2>2, <2>3, UpdateIsUnseen DEF Tick
      <3> QED
        BY <2>3, <3>1
           DEF Tick, Atomic!Tick, Atomic!LifecycleNext, Atomic!lifecycleVars, planningVars,
               Atomic!planningVars
    <2>4. CASE HandlerStep /\ UNCHANGED <<now, planningVars>>
      BY <2>2, <2>4, HandlerIsAtomic
         DEF Atomic!LifecycleNext, planningVars, Atomic!planningVars
    <2>5. CASE /\ UNCHANGED lifecycleVars \/ UpdatesAttempt
               /\ UNCHANGED <<now, planningVars>>
      BY <2>2, <2>5, UpdateIsUnseen DEF planningVars, Atomic!vars
    <2> QED
      BY <2>1, <2>3, <2>4, <2>5 DEF ActsOnWorkOrder
  <1> QED
    BY <1>1, RunsAreOwn, DispatchInvariant, PTL DEF DispatchSpec, WorkOrderIsAtomic

\* A finished work order stays as it is, though workers still lease, report and retry:
\* all they can change is what the record says became of an attempt.
THEOREM FinishedStaysFinished == DispatchSpec => Atomic!TerminalIsFinal
  <1>1. DispatchInductive /\ OwnRuns /\ [DispatchNext]_allVars =>
           [(status \in Atomic!Terminal) => UNCHANGED Atomic!lifecycleVars]_(Atomic!vars)
    <2> SUFFICES ASSUME DispatchInductive, OwnRuns, [DispatchNext]_allVars,
                        status \in Terminal
                 PROVE  UNCHANGED Atomic!lifecycleVars
      BY SameWords
    <2>1. ActsOnWorkOrder
      BY StepActs DEF Ready
    <2>2. TypeOK
      BY DEF DispatchInductive, Records
    <2>3. ~HandlerStep
      BY <2>2, TerminalRefuses
    <2> QED
      BY <2>1, <2>2, <2>3, UpdateIsUnseen DEF ActsOnWorkOrder, Atomic!lifecycleVars
  <1> QED
    BY <1>1, RunsAreOwn, DispatchInvariant, PTL DEF DispatchSpec, Atomic!TerminalIsFinal
-------------------------------------------------------------------------------
(***************************************************************************)
(* What follows relates the work order to the provider's runs.  A packet   *)
(* made by hand names any run and says anything of it: where the bound run *)
(* or every report matters, nobody reports by hand.                        *)
(***************************************************************************)

\* Where a work order can be once its plan was approved, and where an attempt of it was
\* acknowledged.
WorkedOnStatuses == (ExecutionStatuses \ {"EXECUTION_DISPATCHED"}) \cup {"WAITING_FOR_INPUT"}
MetStatuses ==
    {"READY_FOR_EXECUTION", "EXECUTION_DISPATCHED", "FAILED", "CANCELLED"} \cup WorkedOnStatuses

IsAcknowledged(n) == \E a \in Acknowledgements : a.key = n

\* Attempts are acknowledged in order, and the newest one's run is the snapshot's.
AttemptsInOrder ==
    /\ status \in MetStatuses
    /\ status = "WAITING_FOR_INPUT" => snap.blockedFrom = "EXECUTING"
    /\ \A a \in Acknowledgements : a.actor = Recipient /\ a.key \in DOMAIN dispatches
    /\ status = "READY_FOR_EXECUTION" => dispatches = <<>>
    /\ status = "EXECUTION_DISPATCHED" =>
          \A n \in DOMAIN dispatches : n # Len(dispatches) => IsAcknowledged(n)
    /\ status \in WorkedOnStatuses =>
          /\ \A n \in DOMAIN dispatches : IsAcknowledged(n)
          /\ dispatches # <<>>
          /\ snap.run # None /\ snap.run = dispatches[Len(dispatches)].run

\* What a packet says of the end of a run is what the provider said, under the key that
\* came with it.
IsTrue(type, key, run) ==
    /\ type \in {"execution.completed", "execution.failed"} =>
          run \in DOMAIN runs /\ runs[run].key = key
    /\ type = "execution.completed" => runs[run].outcome = "completed"
    /\ type = "execution.failed" => runs[run].outcome \in {"failed", "malformed"}

\* A report of one who never reports by hand was made by a worker.
ReportsAreTrue ==
    /\ \A r \in responses :
          r.type \in {"execution.completed", "execution.failed"} /\ r.actor \notin Reporters =>
             r.actor = Recipient /\ IsTrue(r.type, r.key, r.run)
    /\ \A w \in Workers : worker[w].pc \in {"reportParent", "report"} =>
          IsTrue(worker[w].type, worker[w].key, worker[w].run)

\* The edges between these statuses, acknowledgements and intents aside.
LEMMA AttemptEdges ==
    ASSUME NEW from \in MetStatuses, NEW event, NEW to, Transition(from, event, to)
    PROVE  /\ event \notin IntentEvents \cup {"execution.acknowledged"} =>
                 /\ to \in MetStatuses \ {"READY_FOR_EXECUTION", "EXECUTION_DISPATCHED"}
                 /\ to = "WAITING_FOR_INPUT" => event = "question.blocked" /\ from = "EXECUTING"
                 /\ to \in WorkedOnStatuses => from \in WorkedOnStatuses
           /\ event = "execution.acknowledged" =>
                 from = "EXECUTION_DISPATCHED" /\ to = "EXECUTING"
           /\ event \in IntentEvents =>
                 /\ from \in {"READY_FOR_EXECUTION", "REVISION_REQUIRED"}
                 /\ to = "EXECUTION_DISPATCHED"
  BY DEF Transition, TransitionTable, PlanningEdges, ExecutionEdges, ReviewEdges, Cancellable,
         Statuses, Terminal, MetStatuses, WorkedOnStatuses, ExecutionStatuses, IntentEvents

\* A step that acknowledges nothing and begins no attempt.
LEMMA StaysInOrder ==
    ASSUME AttemptsInOrder,
           Acknowledgements' = Acknowledgements,
           DOMAIN dispatches' = DOMAIN dispatches, Len(dispatches') = Len(dispatches),
           dispatches # <<>> => dispatches' # <<>>,
           dispatches = <<>> => dispatches' = <<>>,
           dispatches # <<>> /\ dispatches[Len(dispatches)].run # None =>
              dispatches'[Len(dispatches)].run = dispatches[Len(dispatches)].run,
           snap'.run = snap.run,
           status' \in MetStatuses,
           status' = "WAITING_FOR_INPUT" => snap'.blockedFrom = "EXECUTING",
           status' \in {"READY_FOR_EXECUTION", "EXECUTION_DISPATCHED"} => status' = status,
           status' \in WorkedOnStatuses => status \in WorkedOnStatuses
    PROVE  AttemptsInOrder'
  <1>1. \A n : IsAcknowledged(n)' <=> IsAcknowledged(n)
    BY DEF IsAcknowledged
  <1> QED
    BY <1>1 DEF AttemptsInOrder

\* The lifecycle is left alone, but for the record of a dispatch.
LEMMA UpdateStaysInOrder ==
    ASSUME Ready, AttemptsInOrder, HandsOff,
           \/ UNCHANGED lifecycleVars
           \/ \E n \in DOMAIN dispatches : \E record : UpdatesDispatch(n, record)
    PROVE  AttemptsInOrder'
  <1>1. dispatches \in Seq(Dispatches)
    BY DEF Ready, DispatchInductive, Records, TypeOK
  <1>2. UNCHANGED <<status, snap, responses, Acknowledgements>>
    BY DEF lifecycleVars, UpdatesDispatch, Acknowledgements
  <1>3. DOMAIN dispatches' = DOMAIN dispatches /\ Len(dispatches') = Len(dispatches)
    BY <1>1 DEF lifecycleVars, UpdatesDispatch
  <1>4. (dispatches # <<>> => dispatches' # <<>>) /\ (dispatches = <<>> => dispatches' = <<>>)
    BY <1>1 DEF lifecycleVars, UpdatesDispatch
  <1>5. dispatches # <<>> /\ dispatches[Len(dispatches)].run # None =>
           dispatches'[Len(dispatches)].run = dispatches[Len(dispatches)].run
    <2> SUFFICES ASSUME dispatches # <<>>, dispatches[Len(dispatches)].run # None
                 PROVE  dispatches'[Len(dispatches)].run = dispatches[Len(dispatches)].run
      OBVIOUS
    <2>1. PICK n \in DOMAIN dispatches : n = Len(dispatches)
      BY <1>1
    <2>2. n \in 1..MaxAttempts /\ BoundRun(n) # None
      BY <2>1, DispatchFacts DEF Ready, BoundRun
    <2>3. BoundRun(n)' = BoundRun(n)
      BY <2>2 DEF HandsOff, NothingHandedOff, Binds, Tells, RecordsStay
    <2> QED
      BY <1>3, <2>1, <2>3 DEF BoundRun
  <1> QED
    BY <1>2, <1>3, <1>4, <1>5, StaysInOrder DEF AttemptsInOrder, MetStatuses, WorkedOnStatuses

\* A handler other than an intent or an acknowledgement.
LEMMA HandlerStaysInOrder ==
    ASSUME AttemptsInOrder, Acknowledgements' = Acknowledgements, dispatches' = dispatches,
           snap'.run = snap.run,
           status' \in MetStatuses \ {"READY_FOR_EXECUTION", "EXECUTION_DISPATCHED"},
           status' = "WAITING_FOR_INPUT" => snap'.blockedFrom = "EXECUTING",
           status' \in WorkedOnStatuses => status \in WorkedOnStatuses
    PROVE  AttemptsInOrder'
  BY StaysInOrder

LEMMA SubmitStaysInOrder ==
    ASSUME Ready, AttemptsInOrder, NEW actor, NEW p, SubmitResponse(actor, p),
           p.type \in ResponseTypes \ {"execution.acknowledged"}
    PROVE  AttemptsInOrder'
  <1>1. PICK to : ResponseTransition(status, p, to) /\ status' = to
    BY DEF SubmitResponse
  <1>2. PICK new : new = StoredResponse(p, actor)
    OBVIOUS
  <1>3. new.type = p.type /\ responses' = responses \cup {new}
    BY <1>2 DEF StoredResponse, SubmitResponse
  <1>4. /\ Acknowledgements' = Acknowledgements /\ dispatches' = dispatches
        /\ snap'.run = snap.run
        /\ snap'.blockedFrom = IF p.type = "question.blocked" THEN status ELSE snap.blockedFrom
    BY <1>3 DEF SubmitResponse, Acknowledgements, AfterResponse
  <1>5. /\ to \in MetStatuses \ {"READY_FOR_EXECUTION", "EXECUTION_DISPATCHED"}
        /\ to = "WAITING_FOR_INPUT" => p.type = "question.blocked" /\ status = "EXECUTING"
        /\ to \in WorkedOnStatuses => status \in WorkedOnStatuses
    <2>1. CASE p.type = "review.completed"
      BY <1>1, <2>1 DEF ResponseTransition, MetStatuses, WorkedOnStatuses, ExecutionStatuses
    <2>2. CASE p.type # "review.completed"
      <3>1. Transition(status, p.type, to) /\ status \in MetStatuses
        BY <1>1, <2>2 DEF ResponseTransition, AttemptsInOrder
      <3>2. p.type \notin IntentEvents
        BY DEF ResponseTypes, IntentEvents
      <3> QED
        BY <3>1, <3>2, AttemptEdges
    <2> QED
      BY <2>1, <2>2
  <1> QED
    BY <1>1, <1>4, <1>5, HandlerStaysInOrder

\* The acknowledgement is of the newest attempt: those before it are acknowledged
\* already, under keys that are spent.
LEMMA AckStaysInOrder ==
    ASSUME Ready, AttemptsInOrder, NEW w \in Workers, SubmitAck(w)
    PROVE  AttemptsInOrder'
  <1>1. PICK n \in DOMAIN dispatches : n = worker[w].dispatch
    BY DEF Ready, DispatchInductive, SoundWorker, OnDispatch, SubmitAck
  <1>2. PICK r : r = worker[w].run
    OBVIOUS
  <1>3. PICK p : p = AckPacket(w)
    OBVIOUS
  <1>4. p.type = "execution.acknowledged" /\ p.key = n /\ p.run = r
    BY <1>1, <1>2, <1>3 DEF AckPacket, TrustedPacket
  <1>5. SubmitResponse(Recipient, p)
    BY <1>3 DEF SubmitAck
  <1>6. status = "EXECUTION_DISPATCHED" /\ status' = "EXECUTING"
    <2>1. PICK to : Transition(status, "execution.acknowledged", to) /\ status' = to
      BY <1>4, <1>5 DEF SubmitResponse, ResponseTransition
    <2> QED
      BY <2>1, AttemptEdges DEF AttemptsInOrder
  <1>7. n = Len(dispatches)
    <2>1. ~IsAcknowledged(n)
      BY <1>4, <1>5 DEF SubmitResponse, ResponseKeyIsFree, IsAcknowledged, AttemptsInOrder,
         Acknowledgements
    <2> QED
      BY <1>6, <2>1 DEF AttemptsInOrder
  <1>8. r # None /\ dispatches[n].run = r
    BY <1>1, <1>2 DEF Ready, OwnRuns, OwnWorker, SubmitAck, BoundRun
  <1>9. PICK new : new = StoredResponse(p, Recipient)
    OBVIOUS
  <1>10. new.type = "execution.acknowledged" /\ new.key = n /\ new.actor = Recipient
    BY <1>4, <1>9 DEF StoredResponse
  <1>11. /\ Acknowledgements' = Acknowledgements \cup {new} /\ dispatches' = dispatches
         /\ snap'.run = r
    BY <1>4, <1>5, <1>9, <1>10 DEF SubmitResponse, Acknowledgements, AfterResponse
  <1>12. \A m \in DOMAIN dispatches : IsAcknowledged(m)'
    BY <1>6, <1>7, <1>10, <1>11 DEF IsAcknowledged, AttemptsInOrder
  <1>13. dispatches # <<>>
    BY <1>1
  <1> QED
    BY <1>1, <1>6, <1>7, <1>8, <1>10, <1>11, <1>12, <1>13
       DEF AttemptsInOrder, MetStatuses, WorkedOnStatuses, ExecutionStatuses

LEMMA IntentStaysInOrder ==
    ASSUME Ready, AttemptsInOrder, NEW event \in IntentEvents, NEW actor,
           CommitExecutionIntent(event, actor, None)
    PROVE  AttemptsInOrder'
  <1>1. PICK to : Transition(status, event, to) /\ status' = to
    BY DEF CommitExecutionIntent, BrokerTransition, IntentEvents
  <1>2. /\ status \in {"READY_FOR_EXECUTION", "REVISION_REQUIRED"}
        /\ status' = "EXECUTION_DISPATCHED"
    BY <1>1, AttemptEdges DEF AttemptsInOrder
  <1>3. dispatches \in Seq(Dispatches)
    BY DEF Ready, DispatchInductive, Records, TypeOK
  <1>4. PICK new : dispatches' = Append(dispatches, new)
    BY DEF CommitExecutionIntent
  <1>5. /\ DOMAIN dispatches' = DOMAIN dispatches \cup {Len(dispatches) + 1}
        /\ Len(dispatches') = Len(dispatches) + 1
    BY <1>3, <1>4
  <1>6. Acknowledgements' = Acknowledgements
    BY DEF CommitExecutionIntent, Acknowledgements
  <1>7. \A n \in DOMAIN dispatches : IsAcknowledged(n)
    <2>1. CASE status = "READY_FOR_EXECUTION"
      BY <2>1 DEF AttemptsInOrder
    <2>2. CASE status = "REVISION_REQUIRED"
      BY <2>2 DEF AttemptsInOrder, WorkedOnStatuses, ExecutionStatuses
    <2> QED
      BY <1>2, <2>1, <2>2
  <1>8. \A n : IsAcknowledged(n)' <=> IsAcknowledged(n)
    BY <1>6 DEF IsAcknowledged
  <1> QED
    BY <1>2, <1>5, <1>6, <1>7, <1>8
       DEF AttemptsInOrder, MetStatuses, WorkedOnStatuses, ExecutionStatuses

LEMMA PlannerStaysInOrder ==
    ASSUME Ready, AttemptsInOrder, PlannerStep
    PROVE  AttemptsInOrder'
  <1>1. ASSUME NEW event \in {"question.answer", "completion.review"}, ApplyBroker(event, Sender)
        PROVE  AttemptsInOrder'
    <2>1. PICK to : BrokerTransition(status, snap, event, to) /\ status' = to
      BY <1>1 DEF ApplyBroker
    <2>2. /\ snap'.run = snap.run /\ dispatches' = dispatches
          /\ Acknowledgements' = Acknowledgements
      BY <1>1 DEF ApplyBroker, AfterBrokerEvent, Acknowledgements, Ready, DispatchInductive, Records,
         TypeOK, Snapshots
    <2>3. CASE event = "question.answer"
      <3>1. status = "WAITING_FOR_INPUT" /\ to = "EXECUTING"
        BY <2>1, <2>3 DEF BrokerTransition, AttemptsInOrder
      <3> QED
        BY <2>1, <2>2, <3>1, HandlerStaysInOrder
           DEF MetStatuses, WorkedOnStatuses, ExecutionStatuses
    <2>4. CASE event = "completion.review"
      <3>1. Transition(status, event, to) /\ status \in MetStatuses
        BY <2>1, <2>4 DEF BrokerTransition, AttemptsInOrder
      <3>2. /\ to \in MetStatuses \ {"READY_FOR_EXECUTION", "EXECUTION_DISPATCHED"}
            /\ to # "WAITING_FOR_INPUT"
            /\ to \in WorkedOnStatuses => status \in WorkedOnStatuses
        BY <2>4, <3>1, AttemptEdges DEF IntentEvents
      <3> QED
        BY <2>1, <2>2, <3>2, HandlerStaysInOrder
    <2> QED
      BY <1>1, <2>3, <2>4
  <1>2. ASSUME NEW id, NEW outcome, SubmitResponse(Sender, ReviewPacket(id, outcome))
        PROVE  AttemptsInOrder'
    BY <1>2, SubmitStaysInOrder DEF ReviewPacket, ResponseTypes
  <1>3. ASSUME NEW type \in {"accept_completion", "request_revision", "cancel"},
               RecordDecision(HumanDecision(type))
        PROVE  AttemptsInOrder'
    <2>1. PICK to : Transition(status, type, to) /\ status' = to
      BY <1>3 DEF RecordDecision, HumanDecision
    <2>2. /\ snap'.run = snap.run /\ dispatches' = dispatches
          /\ Acknowledgements' = Acknowledgements
      BY <1>3 DEF RecordDecision, AfterDecision, Acknowledgements, Ready, DispatchInductive, Records,
         TypeOK, Snapshots
    <2>3. /\ to \in MetStatuses \ {"READY_FOR_EXECUTION", "EXECUTION_DISPATCHED"}
          /\ to # "WAITING_FOR_INPUT"
          /\ to \in WorkedOnStatuses => status \in WorkedOnStatuses
      BY <1>3, <2>1, AttemptEdges DEF IntentEvents, AttemptsInOrder
    <2> QED
      BY <2>1, <2>2, <2>3, HandlerStaysInOrder
  <1>4. ASSUME NEW event \in IntentEvents, CommitExecutionIntent(event, Sender, None)
        PROVE  AttemptsInOrder'
    BY <1>4, IntentStaysInOrder
  <1> QED
    BY <1>1, <1>2, <1>3, <1>4 DEF PlannerStep, AnswerQuestion, RequestCompletionReview

LEMMA StepStaysInOrder ==
    ASSUME Reporters = {}, Ready, AttemptsInOrder, [DispatchNext]_allVars
    PROVE  AttemptsInOrder'
  <1>1. HandsOff
    BY StepHandsOff
  <1>2. CASE UNCHANGED lifecycleVars
    BY <1>1, <1>2, UpdateStaysInOrder
  <1>3. ASSUME NEW w \in Workers,
               ClaimLease(w) \/ MarkReconciliation(w) \/ PersistAcceptance(w)
               \/ SettleDispatch(w) \/ RememberReceipt(w)
        PROVE  AttemptsInOrder'
    <2>1. worker[w].dispatch \in DOMAIN dispatches
      BY <1>3 DEF Ready, DispatchInductive, SoundWorker, OnDispatch, ClaimLease,
         MarkReconciliation, PersistAcceptance, SettleDispatch, RememberReceipt
    <2>2. \E record : UpdatesDispatch(worker[w].dispatch, record)
      BY <1>3 DEF ClaimLease, MarkReconciliation, PersistAcceptance, SettleDispatch, RememberReceipt
    <2> QED
      BY <1>1, <2>1, <2>2, UpdateStaysInOrder
  <1>4. ASSUME NEW n \in DOMAIN dispatches, LeaseExpires(n)
        PROVE  AttemptsInOrder'
    BY <1>1, <1>4, UpdateStaysInOrder DEF LeaseExpires
  <1>5. ASSUME NEW w \in Workers, RefreshCommits(w)
        PROVE  AttemptsInOrder'
    BY <1>5, IntentStaysInOrder DEF RefreshCommits, IntentEvents
  <1>6. ASSUME NEW w \in Workers, SubmitReport(w)
        PROVE  AttemptsInOrder'
    <2>1. worker[w].type \in ReportTypes
      BY <1>6 DEF Ready, DispatchInductive, SoundWorker, SubmitReport
    <2>2. ReportPacket(w).type \in ResponseTypes \ {"execution.acknowledged"}
      BY <2>1 DEF ReportPacket, TrustedPacket, ReportTypes, RunBoundTypes, ResponseTypes
    <2> QED
      BY <1>6, <2>2, SubmitStaysInOrder DEF SubmitReport
  <1>7. ASSUME NEW w \in Workers, WorkerStep(w) \/ Crash(w)
        PROVE  AttemptsInOrder'
    BY <1>2, <1>3, <1>5, <1>6, <1>7, AckStaysInOrder
       DEF WorkerStep, Crash, Refresh, RefreshFindsIntent, RefreshCommitRefused,
           AdvanceFindsDispatch, PollFindsRun, ClaimRefused, ReadParent, SubmitAccepted,
           SubmitUnanswered, SubmitAckRefused, QueryRun, SubmitReportRefused, RememberFindsDispatch
  <1> QED
    BY <1>2, <1>4, <1>7, PlannerStaysInOrder
       DEF DispatchNext, ExecutionStep, Tick, RunEnds, allVars, vars, lifecycleVars

LEMMA InitInOrder == DispatchInit => AttemptsInOrder
  <1> SUFFICES ASSUME DispatchInit PROVE AttemptsInOrder
    OBVIOUS
  <1>1. Acknowledgements = {}
    BY DEF DispatchInit, Acknowledgements, PlanCompleted
  <1> QED
    BY <1>1 DEF DispatchInit, AttemptsInOrder, MetStatuses, WorkedOnStatuses, ExecutionStatuses
-------------------------------------------------------------------------------
\* What was true of a run stays true: a run that completed, failed or wrote prose has
\* come to its end.
OutcomesStay ==
    \A r \in DOMAIN runs :
        /\ r \in DOMAIN runs'
        /\ runs[r].outcome \in {"completed", "failed", "malformed"} => runs'[r] = runs[r]

LEMMA TruthStays ==
    ASSUME ReportsAreTrue, OutcomesStay,
           \A r \in responses' \ responses :
              r.type \in {"execution.completed", "execution.failed"} /\ r.actor \notin Reporters =>
                 r.actor = Recipient /\ IsTrue(r.type, r.key, r.run),
           \A v \in Workers :
              \/ worker'[v] = worker[v]
              \/ worker'[v].pc \notin {"reportParent", "report"}
              \/ IsTrue(worker'[v].type, worker'[v].key, worker'[v].run)
    PROVE  ReportsAreTrue'
  <1>1. \A type, key, run : IsTrue(type, key, run) => IsTrue(type, key, run)'
    BY DEF IsTrue, OutcomesStay
  <1>2. \A v \in Workers : worker'[v].pc \in {"reportParent", "report"} =>
           IsTrue(worker'[v].type, worker'[v].key, worker'[v].run)
    BY DEF ReportsAreTrue
  <1>3. \A r \in responses' :
           r.type \in {"execution.completed", "execution.failed"} /\ r.actor \notin Reporters =>
              r.actor = Recipient /\ IsTrue(r.type, r.key, r.run)
    BY DEF ReportsAreTrue
  <1>4. ASSUME NEW v \in Workers, worker'[v].pc \in {"reportParent", "report"}
        PROVE  IsTrue(worker[v].type, worker[v].key, worker[v].run)'
    <2>1. PICK type, key, run :
             type = worker'[v].type /\ key = worker'[v].key /\ run = worker'[v].run
      OBVIOUS
    <2>2. IsTrue(type, key, run)'
      BY <1>1, <1>2, <1>4, <2>1
    <2> QED
      BY <2>1, <2>2 DEF IsTrue
  <1>5. \A r \in responses' :
           r.type \in {"execution.completed", "execution.failed"} /\ r.actor \notin Reporters =>
              r.actor = Recipient /\ IsTrue(r.type, r.key, r.run)'
    BY <1>1, <1>3
  <1> QED
    BY <1>4, <1>5 DEF ReportsAreTrue

\* The provider starts runs and ends those that may still end.
LEMMA OutcomesNeverChange ==
    ASSUME Ready, [DispatchNext]_allVars
    PROVE  OutcomesStay
  <1>1. runs \in Seq(RunRecords)
    BY DEF Ready, DispatchInductive, Records
  <1>2. CASE UNCHANGED runs
    BY <1>2 DEF OutcomesStay
  <1>3. ASSUME NEW n, ProviderStarts(n) PROVE OutcomesStay
    <2>1. PICK new : runs' = Append(runs, new)
      BY <1>3 DEF ProviderStarts
    <2> QED
      BY <1>1, <2>1 DEF OutcomesStay
  <1>4. ASSUME NEW r \in DOMAIN runs, RunEnds(r) PROVE OutcomesStay
    <2>1. PICK ended : runs' = [runs EXCEPT ![r] = ended]
      BY <1>4 DEF RunEnds
    <2>2. runs[r].outcome \in {"running", "question"}
      BY <1>4 DEF RunEnds
    <2> QED
      BY <1>1, <2>1, <2>2 DEF OutcomesStay
  <1>5. ASSUME NEW w \in Workers, WorkerStep(w) \/ Crash(w) PROVE OutcomesStay
    BY <1>2, <1>3, <1>5
       DEF WorkerStep, Crash, Refresh, RefreshCommits, RefreshFindsIntent, RefreshCommitRefused,
           AdvanceFindsDispatch, PollFindsRun, ClaimLease, ClaimRefused, SubmitAccepted,
           SubmitUnanswered, MarkReconciliation, PersistAcceptance, ReadParent, SubmitAck,
           SubmitAckRefused, SettleDispatch, QueryRun, SubmitReport, SubmitReportRefused,
           RememberFindsDispatch, RememberReceipt
  <1> QED
    BY <1>2, <1>4, <1>5
       DEF DispatchNext, ExecutionStep, LeaseExpires, PlannerStep, ManualReport, allVars,
           dispatchVars

\* A packet that reports neither a completion nor a failure.
LEMMA OtherPacket ==
    ASSUME NEW actor, NEW p, SubmitResponse(actor, p),
           p.type \notin {"execution.completed", "execution.failed"}
    PROVE  \A r \in responses' \ responses : r.type \notin {"execution.completed", "execution.failed"}
  BY DEF SubmitResponse, StoredResponse

\* The worker reports what it was told.
LEMMA ReportIsTrue ==
    ASSUME Ready, ReportsAreTrue, NEW w \in Workers, SubmitReport(w)
    PROVE  \A r \in responses' \ responses :
              r.type \in {"execution.completed", "execution.failed"} =>
                 r.actor = Recipient /\ IsTrue(r.type, r.key, r.run)
  <1>1. PICK new : new = StoredResponse(ReportPacket(w), Recipient)
    OBVIOUS
  <1>2. /\ new.type = worker[w].type /\ new.run = worker[w].run /\ new.key = worker[w].key
        /\ new.actor = Recipient
    BY <1>1 DEF StoredResponse, ReportPacket, TrustedPacket
  <1>3. responses' = responses \cup {new}
    BY <1>1 DEF SubmitReport, SubmitResponse
  <1>4. IsTrue(worker[w].type, worker[w].key, worker[w].run)
    BY DEF ReportsAreTrue, SubmitReport
  <1> QED
    BY <1>2, <1>3, <1>4

\* What a worker is told of a run is what it reports it as.
LEMMA QueryIsTrue ==
    ASSUME Ready, NEW w \in Workers, QueryRun(w)
    PROVE  IsTrue(worker'[w].type, worker'[w].key, worker'[w].run)
  <1>1. worker[w] \in WorkerStates /\ worker \in [Workers -> WorkerStates]
    BY DEF Ready, DispatchInductive
  <1>2. PICK run : run = worker[w].run
    OBVIOUS
  <1>3. run \in DOMAIN runs
    BY <1>2 DEF QueryRun, Ready, DispatchInductive, SoundWorker
  <1>4. /\ worker'[w].run = run /\ worker'[w].type = ReportType(runs[run].outcome)
        /\ worker'[w].key = runs[run].key
    BY <1>1, <1>2 DEF QueryRun, WorkerStates
  <1>5. runs[run].outcome \in {"running", "completed", "question", "failed", "malformed"}
    <2>1. runs[run] \in RunRecords
      BY <1>3 DEF Ready, DispatchInductive, Records
    <2> QED
      BY <2>1, DispatchAssumption DEF RunRecords, Outcomes
  <1> QED
    BY <1>3, <1>4, <1>5 DEF IsTrue, ReportType

LEMMA StepIsTrue ==
    ASSUME Ready, ReportsAreTrue, [DispatchNext]_allVars
    PROVE  ReportsAreTrue'
  <1>1. OutcomesStay
    BY OutcomesNeverChange
  <1>2. worker \in [Workers -> WorkerStates]
    BY DEF Ready, DispatchInductive
  <1>3. ASSUME NEW w \in Workers, WorkerStep(w) \/ Crash(w)
        PROVE  ReportsAreTrue'
    <2>1. \A v \in Workers : v # w => worker'[v] = worker[v]
      BY <1>2, <1>3, LooksMove, ClaimMoves, NotesMove, PersistMoves, SettleMoves, CommitsMove,
         AckMoves, ReportMoves, SubmitMoves DEF WorkerStep, Moves
    <2>2. CASE QueryRun(w)
      <3>1. responses' = responses
        BY <2>2 DEF QueryRun, lifecycleVars
      <3> QED
        BY <1>1, <2>1, <2>2, <3>1, QueryIsTrue, TruthStays
    <2>3. CASE ReadParent(w)
      <3>1. responses' = responses
        BY <2>3 DEF ReadParent, lifecycleVars
      <3>2. /\ worker'[w].type = worker[w].type /\ worker'[w].run = worker[w].run
            /\ worker'[w].key = worker[w].key
            /\ worker'[w].pc = "report" => worker[w].pc = "reportParent"
            /\ worker'[w].pc \in {"ack", "report"}
        BY <1>2, <2>3 DEF ReadParent, WorkerStates
      <3>3. worker'[w].pc = "report" => IsTrue(worker'[w].type, worker'[w].key, worker'[w].run)
        BY <3>2 DEF ReportsAreTrue
      <3> QED
        BY <1>1, <2>1, <3>1, <3>2, <3>3, TruthStays
    <2>4. CASE SubmitReport(w)
      <3>1. worker'[w].pc \in {"idle", "remember"}
        BY <1>2, <2>4 DEF SubmitReport, Idle
      <3> QED
        BY <1>1, <2>1, <2>4, <3>1, ReportIsTrue, TruthStays
    <2>5. CASE SubmitAck(w)
      <3>1. worker'[w].pc = "settle"
        BY <1>2, <2>5 DEF SubmitAck, WorkerStates
      <3>2. AckPacket(w).type = "execution.acknowledged"
        BY DEF AckPacket, TrustedPacket
      <3>3. \A r \in responses' \ responses :
               r.type \notin {"execution.completed", "execution.failed"}
        BY <2>5, <3>2, OtherPacket DEF SubmitAck
      <3> QED
        BY <1>1, <2>1, <3>1, <3>3, TruthStays
    <2>6. CASE ~(QueryRun(w) \/ ReadParent(w) \/ SubmitReport(w) \/ SubmitAck(w))
      <3>1. worker'[w].pc \notin {"reportParent", "report"}
        <4>1. CASE \E actor \in Callers : Refresh(w, actor)
          <5>1. PICK actor \in Callers,
                     branch \in {<<"READY_FOR_EXECUTION", "commit">>,
                                <<"EXECUTION_DISPATCHED", "advance">>, <<"EXECUTING", "poll">>} :
                   worker' = [worker EXCEPT ![w] = [Idle EXCEPT !.pc = branch[2], !.actor = actor]]
            BY <4>1 DEF Refresh
          <5>2. worker'[w].pc = branch[2]
            BY <1>2, <5>1 DEF Idle
          <5> QED
            BY <5>1, <5>2
        <4>2. CASE RefreshFindsIntent(w)
          <5>1. PICK n \in Pending :
                   worker' = [worker EXCEPT ![w] =
                      IF dispatches[n].receipt \in IntentEvents
                      THEN [worker[w] EXCEPT !.pc = "claim", !.dispatch = n] ELSE Idle]
            BY <1>2, <4>2 DEF RefreshFindsIntent
          <5> QED
            BY <1>2, <5>1 DEF Idle, WorkerStates
        <4>3. CASE PollFindsRun(w)
          <5>1. PICK run : worker' = [worker EXCEPT ![w] =
                   IF run = None THEN Idle ELSE [Idle EXCEPT !.pc = "query", !.run = run]]
            BY <4>3 DEF PollFindsRun
          <5> QED
            BY <1>2, <5>1 DEF Idle
        <4>4. CASE RefreshCommits(w) \/ AdvanceFindsDispatch(w) \/ RememberFindsDispatch(w)
          BY <1>2, <4>4 DEF RefreshCommits, AdvanceFindsDispatch, RememberFindsDispatch, WorkerStates
        <4>5. CASE SubmitAccepted(w) \/ SubmitUnanswered(w) \/ PersistAcceptance(w)
          BY <1>2, <4>5 DEF SubmitAccepted, SubmitUnanswered, PersistAcceptance, Goes, Ends, Idle,
             WorkerStates
        <4>6. CASE ClaimLease(w)
          <5>1. PICK record : worker' = [worker EXCEPT ![w].pc = AfterClaim(record),
                                                       ![w].run = record.run, ![w].actor = None]
            BY <4>6 DEF ClaimLease
          <5>2. AfterClaim(record) \in {"ackParent", "mark", "submit"}
            BY DEF AfterClaim
          <5> QED
            BY <1>2, <5>1, <5>2 DEF WorkerStates
        <4>7. CASE Ends(w)
          BY <1>2, <4>7 DEF Ends, Idle
        <4> QED
          BY <1>3, <2>6, <4>1, <4>2, <4>3, <4>4, <4>5, <4>6, <4>7
             DEF WorkerStep, Crash, RefreshCommitRefused, ClaimRefused, MarkReconciliation,
                 SubmitAckRefused, SettleDispatch, SubmitReportRefused, RememberReceipt
      <3>2. responses' = responses
        BY <1>3, <2>6
           DEF WorkerStep, Crash, Refresh, RefreshCommits, RefreshFindsIntent, RefreshCommitRefused,
               AdvanceFindsDispatch, PollFindsRun, ClaimLease, ClaimRefused, SubmitAccepted,
               SubmitUnanswered, MarkReconciliation, PersistAcceptance, SubmitAckRefused,
               SettleDispatch, SubmitReportRefused, RememberFindsDispatch, RememberReceipt,
               UpdatesDispatch, CommitExecutionIntent, lifecycleVars
      <3> QED
        BY <1>1, <2>1, <3>1, <3>2, TruthStays
    <2> QED
      BY <2>2, <2>3, <2>4, <2>5, <2>6
  <1>4. CASE PlannerStep
    <2>1. worker' = worker
      BY <1>4 DEF PlannerStep
    <2>2. \A r \in responses' \ responses :
             r.type \notin {"execution.completed", "execution.failed"}
      <3>1. ASSUME NEW id, NEW outcome, SubmitResponse(Sender, ReviewPacket(id, outcome))
            PROVE  \A r \in responses' \ responses :
                      r.type \notin {"execution.completed", "execution.failed"}
        BY <3>1, OtherPacket DEF ReviewPacket
      <3>2. ASSUME responses' = responses
            PROVE  \A r \in responses' \ responses :
                      r.type \notin {"execution.completed", "execution.failed"}
        BY <3>2
      <3> QED
        BY <1>4, <3>1, <3>2 DEF PlannerStep, AnswerQuestion, RequestCompletionReview, ApplyBroker,
           RecordDecision, CommitExecutionIntent
    <2> QED
      BY <1>1, <2>1, <2>2, TruthStays
  <1>5. CASE UNCHANGED <<responses, worker>>
    BY <1>1, <1>5, TruthStays
  <1>6. ASSUME NEW actor \in Reporters, ManualReport(actor)
        PROVE  ReportsAreTrue'
    <2>1. worker' = worker /\ \A r \in responses' \ responses : r.actor = actor
      BY <1>6 DEF ManualReport, SubmitResponse, StoredResponse
    <2> QED
      BY <1>1, <1>6, <2>1, TruthStays
  <1> QED
    BY <1>3, <1>4, <1>5, <1>6
       DEF DispatchNext, ExecutionStep, Tick, LeaseExpires, UpdatesDispatch, RunEnds,
           lifecycleVars, allVars, vars, dispatchVars

LEMMA InitIsTrue == DispatchInit => ReportsAreTrue
  BY DEF DispatchInit, ReportsAreTrue, PlanCompleted, Idle
-------------------------------------------------------------------------------
\* The bound run is the one the newest dispatch recorded and the provider started for it:
\* a late worker of an earlier attempt never binds its run (the key and the parent of
\* the acknowledgement in _persist_execution_ack).
THEOREM BoundRunCanBePolled ==
    ASSUME Reporters = {}
    PROVE  DispatchSpec => []BoundRunIsPollable
  <1>1. DispatchInductive /\ OwnRuns /\ AttemptsInOrder /\ [DispatchNext]_allVars => AttemptsInOrder'
    BY StepStaysInOrder DEF Ready
  <1>2. DispatchInductive /\ OwnRuns /\ AttemptsInOrder => BoundRunIsPollable
    <2> SUFFICES ASSUME DispatchInductive, OwnRuns, AttemptsInOrder, status = "EXECUTING"
                 PROVE  /\ snap.run \in DOMAIN runs
                        /\ runs[snap.run].dispatch = Len(dispatches)
                        /\ dispatches[Len(dispatches)].run = snap.run
      BY DEF BoundRunIsPollable
    <2>1. dispatches # <<>> /\ snap.run # None /\ snap.run = dispatches[Len(dispatches)].run
      BY DEF AttemptsInOrder, WorkedOnStatuses, ExecutionStatuses
    <2>2. PICK n \in DOMAIN dispatches : n = Len(dispatches)
      BY <2>1, LatestDispatch
    <2>3. n \in 1..MaxAttempts /\ BoundRun(n) = snap.run
      BY <2>1, <2>2, DispatchFacts DEF BoundRun
    <2> QED
      BY <2>1, <2>2, <2>3 DEF OwnRuns, IsRunOf
  <1> QED
    BY <1>1, <1>2, InitInOrder, RunsAreOwn, DispatchInvariant, PTL DEF DispatchSpec

\* What a worker reports of a run is what the provider said of it, whoever else reports by
\* hand: a completion completed, a failure failed or wrote what is no packet
\* (_reconcile_execution_run, _ingest_terminal).
THEOREM WorkersReportTruly ==
    DispatchSpec => [](\A r \in responses : r.actor \notin Reporters => IsTrue(r.type, r.key, r.run))
  <1>1. DispatchInductive /\ OwnRuns /\ ReportsAreTrue /\ [DispatchNext]_allVars => ReportsAreTrue'
    BY StepIsTrue DEF Ready
  <1>2. ReportsAreTrue => \A r \in responses : r.actor \notin Reporters => IsTrue(r.type, r.key, r.run)
    BY DEF ReportsAreTrue, IsTrue
  <1> QED
    BY <1>1, <1>2, InitIsTrue, RunsAreOwn, DispatchInvariant, PTL DEF DispatchSpec

\* A completion is one the provider reached, and is reported once (_ingest_terminal and
\* the key of the reports in _reconcile_execution_run).
THEOREM CompletionsAreReal ==
    ASSUME Reporters = {}
    PROVE  DispatchSpec => []CompletionIsReal
  <1>1. DispatchInductive /\ OwnRuns /\ ReportsAreTrue /\ [DispatchNext]_allVars => ReportsAreTrue'
    BY StepIsTrue DEF Ready
  <1>2. DispatchInductive /\ ReportsAreTrue => CompletionIsReal
    <2> SUFFICES ASSUME DispatchInductive, ReportsAreTrue,
                        NEW r \in responses, r.type = "execution.completed"
                 PROVE  /\ runs[r.run].outcome = "completed"
                        /\ \A s \in responses :
                              s.run = r.run /\ s.type \in {r.type, "execution.failed"} => s = r
      BY DEF CompletionIsReal
    <2>1. /\ r.actor = Recipient /\ r.key = runs[r.run].key
          /\ runs[r.run].outcome = "completed"
      BY DEF ReportsAreTrue, IsTrue
    <2>2. ASSUME NEW s \in responses, s.run = r.run, s.type \in {r.type, "execution.failed"}
          PROVE  s = r
      <3>1. s.type = r.type
        BY <2>1, <2>2 DEF ReportsAreTrue, IsTrue
      <3>2. s.actor = Recipient /\ s.key = runs[s.run].key
        BY <3>1 DEF ReportsAreTrue, IsTrue
      <3> QED
        BY <2>1, <2>2, <3>1, <3>2 DEF DispatchInductive, Records, Inductive, OneEffectPerKey
    <2> QED
      BY <2>1, <2>2
  <1> QED
    BY <1>1, <1>2, InitIsTrue, RunsAreOwn, DispatchInvariant, PTL DEF DispatchSpec
===============================================================================

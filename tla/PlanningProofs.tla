----------------------------- MODULE PlanningProofs -----------------------------
(***************************************************************************)
(* Theorems about Planning, for any number of callers, payloads, runs and  *)
(* crashes: receipts are logged once, every answer names the acknowledged  *)
(* run, which works on what the work order stores, and a plan stays.       *)
(***************************************************************************)
EXTENDS Planning, TLAPS

Ack == "executor.acknowledged"
Repeatable == {"executor.failed", "bundle.rejected", "executor.status"}

\* The ledger without its order: what was logged, and of which runs.
Said == {ledger[i].event : i \in DOMAIN ledger}
RunsOf(event) == {ledger[i].run : i \in {j \in DOMAIN ledger : ledger[j].event = event}}
Acked == RunsOf(Ack)
Planned == RunsOf("plan.received")

\* Nothing is known of a work order that is not there.
BeforeCreation ==
    /\ status = None => Said = {} /\ runs = <<>> /\ \A c \in Callers : calls[c].pc = "idle"
    /\ status # None => payload \in Payloads

\* What a call holds is still so.
SoundCall(c) ==
    /\ calls[c].pc # "idle" => calls[c].payload = payload
    /\ calls[c].pc \in {"submit", "raised", "rejected", "accepted"} => "work_order.routed" \in Said
    /\ calls[c].pc = "accepted" =>
          /\ calls[c].run \in DOMAIN runs
          /\ Ack \in Said \/ runs[calls[c].run].ours
    /\ calls[c].pc = "polled" =>
          /\ calls[c].run \in Acked
          /\ calls[c].outcome = "finished" => runs[calls[c].run].outcome = "finished"

SoundCalls == \A c \in Callers : SoundCall(c)

\* The agent's runs are this work order's until it is acknowledged.
SoundRuns ==
    /\ Len(runs) <= MaxRuns
    /\ \A r \in DOMAIN runs : runs[r].ours => runs[r].payload = payload
    /\ Ack \in Said \/ \A r \in DOMAIN runs : runs[r].ours
    /\ OneRunWithoutParent

\* The acknowledged run exists and is this work order's; the plan is that run's.
SoundLedger ==
    /\ \A r \in Acked : r \in DOMAIN runs /\ runs[r].ours
    /\ \A r \in Planned : r \in Acked /\ runs[r].outcome = "finished"
    /\ Acked # {} => Ack \in Said
    /\ Ack \in Said => "work_order.routed" \in Said
    /\ "plan.received" \in Said => Ack \in Said
    /\ "plan.received" \in Said <=> "plan.available" \in Said
    /\ status = "PLAN_READY" => "plan.available" \in Said

SoundAnswers == \A a \in answers : a.run \in Acked /\ a.payload = payload

PlanningInductive ==
    /\ PlanningTypeOK /\ LoggedOnce
    /\ BeforeCreation /\ SoundCalls /\ SoundRuns /\ SoundLedger /\ SoundAnswers
-------------------------------------------------------------------------------
\* The last entry of a type is the only one, unless failures may repeat.
LEMMA OnlyEntry ==
    ASSUME NEW l \in Seq(Entries), NEW event,
           \A i, j \in DOMAIN l : l[i].event = event /\ l[j].event = event => i = j,
           NEW k \in DOMAIN l, l[k].event = event
    PROVE  (CHOOSE i \in DOMAIN l :
               l[i].event = event /\ \A j \in DOMAIN l : l[j].event = event => j <= i) = k
  <1>1. k \in Nat
    OBVIOUS
  <1>2. l[k].event = event /\ \A j \in DOMAIN l : l[j].event = event => j <= k
    BY <1>1
  <1> QED
    BY <1>2

\* What the sets say of Logged and LatestRun.
LEMMA SaidIsLogged ==
    ASSUME ledger \in Seq(Entries), LoggedOnce
    PROVE  /\ Said \subseteq Events /\ Acked \cup Planned \subseteq RunIds \cup {None}
           /\ \A e : Logged(e) <=> e \in Said
           /\ \A e \in Said \ Repeatable : RunsOf(e) = {LatestRun(e)}
  <1>1. \A i \in DOMAIN ledger : ledger[i].event \in Events /\ ledger[i].run \in RunIds \cup {None}
    <2>1. \A i \in DOMAIN ledger : ledger[i] \in Entries
      OBVIOUS
    <2> QED
      BY <2>1 DEF Entries
  <1>2. Said \subseteq Events /\ Acked \cup Planned \subseteq RunIds \cup {None}
    BY <1>1 DEF Said, RunsOf, Acked, Planned
  <1>3. \A e : Logged(e) <=> e \in Said
    BY DEF Logged, Said
  <1>4. ASSUME NEW e \in Said \ Repeatable PROVE RunsOf(e) = {LatestRun(e)}
    <2>1. PICK k \in DOMAIN ledger : ledger[k].event = e
      BY DEF Said
    <2>2. \A i, j \in DOMAIN ledger : ledger[i].event = e /\ ledger[j].event = e => i = j
      BY <1>4 DEF LoggedOnce, Repeatable
    <2>3. LatestRun(e) = ledger[k].run
      BY <2>1, <2>2, OnlyEntry DEF LatestRun
    <2> QED
      BY <2>1, <2>2, <2>3 DEF RunsOf
  <1> QED
    BY <1>2, <1>3, <1>4

\* An entry that is new, or of a type that may repeat.
LEMMA LogsOne ==
    ASSUME ledger \in Seq(Entries), LoggedOnce,
           NEW event \in Events, NEW run \in RunIds \cup {None}, Logs(event, run),
           ~Logged(event) \/ event \in Repeatable
    PROVE  /\ ledger' \in Seq(Entries) /\ LoggedOnce'
           /\ Said' = Said \cup {event}
           /\ Acked' = IF event = Ack THEN Acked \cup {run} ELSE Acked
           /\ Planned' = IF event = "plan.received" THEN Planned \cup {run} ELSE Planned
  <1> DEFINE entry == Entry(event, run)
  <1>1. entry \in Entries /\ entry.event = event /\ entry.run = run
    BY DEF Entry, Entries
  <1> HIDE DEF entry
  <1>2. ledger' = Append(ledger, entry)
    BY DEF Logs, entry
  <1>3. /\ ledger' \in Seq(Entries)
        /\ DOMAIN ledger' = DOMAIN ledger \cup {Len(ledger) + 1}
        /\ \A i \in DOMAIN ledger : ledger'[i] = ledger[i]
        /\ ledger'[Len(ledger) + 1] = entry
        /\ Len(ledger) + 1 \notin DOMAIN ledger
    BY <1>1, <1>2
  <1>4. LoggedOnce'
    BY <1>1, <1>3 DEF LoggedOnce, Logged, Repeatable
  <1>5. Said' = Said \cup {event}
    BY <1>1, <1>3 DEF Said
  <1>6. Acked' = IF event = Ack THEN Acked \cup {run} ELSE Acked
    BY <1>1, <1>3 DEF Acked, RunsOf
  <1>7. Planned' = IF event = "plan.received" THEN Planned \cup {run} ELSE Planned
    BY <1>1, <1>3 DEF Planned, RunsOf
  <1> QED
    BY <1>3, <1>4, <1>5, <1>6, <1>7

LEMMA LogsPlan ==
    ASSUME ledger \in Seq(Entries), LoggedOnce, NEW run \in RunIds \cup {None},
           ledger' = ledger \o <<Entry("plan.received", run), Entry("plan.available", None)>>,
           ~Logged("plan.received"), ~Logged("plan.available")
    PROVE  /\ ledger' \in Seq(Entries) /\ LoggedOnce'
           /\ Said' = Said \cup {"plan.received", "plan.available"}
           /\ Acked' = Acked /\ Planned' = Planned \cup {run}
  <1> DEFINE received == Entry("plan.received", run)
             available == Entry("plan.available", None)
  <1>1. /\ received \in Entries /\ received.event = "plan.received" /\ received.run = run
        /\ available \in Entries /\ available.event = "plan.available" /\ available.run = None
    BY DEF Entry, Entries, Events
  <1>2. ledger' = ledger \o <<received, available>>
    OBVIOUS
  <1> HIDE DEF received, available
  <1>3. /\ ledger' \in Seq(Entries)
        /\ DOMAIN ledger' = DOMAIN ledger \cup {Len(ledger) + 1, Len(ledger) + 2}
        /\ \A i \in DOMAIN ledger : ledger'[i] = ledger[i]
        /\ ledger'[Len(ledger) + 1] = received /\ ledger'[Len(ledger) + 2] = available
        /\ Len(ledger) + 1 \notin DOMAIN ledger /\ Len(ledger) + 2 \notin DOMAIN ledger
    BY <1>1, <1>2
  <1>4. LoggedOnce'
    BY <1>1, <1>3 DEF LoggedOnce, Logged
  <1>5. \A x : x \in Said' <=> x \in Said \/ x = "plan.received" \/ x = "plan.available"
    <2>1. ASSUME NEW x \in Said' PROVE x \in Said \cup {"plan.received", "plan.available"}
      <3>1. PICK i \in DOMAIN ledger' : x = ledger'[i].event
        BY DEF Said
      <3> QED
        BY <1>1, <1>3, <3>1 DEF Said
    <2>2. ASSUME NEW x \in Said PROVE x \in Said'
      BY <1>3 DEF Said
    <2>3. /\ Len(ledger) + 1 \in DOMAIN ledger' /\ Len(ledger) + 2 \in DOMAIN ledger'
          /\ ledger'[Len(ledger) + 1].event = "plan.received"
          /\ ledger'[Len(ledger) + 2].event = "plan.available"
      BY <1>1, <1>3
    <2>4. "plan.received" \in Said' /\ "plan.available" \in Said'
      BY <2>3 DEF Said
    <2> QED
      BY <2>1, <2>2, <2>4
  <1>6. \A x : /\ x \in Acked' <=> x \in Acked
               /\ x \in Planned' <=> x \in Planned \/ x = run
    <2>1. ASSUME NEW i \in DOMAIN ledger'
          PROVE  /\ ledger'[i].event = Ack => i \in DOMAIN ledger
                 /\ ledger'[i].event = "plan.received" /\ i \notin DOMAIN ledger =>
                       ledger'[i].run = run
      BY <1>1, <1>3 DEF Ack
    <2>2. \A x \in Acked' : x \in Acked
      BY <1>3, <2>1 DEF Acked, RunsOf
    <2>3. \A x \in Planned' : x \in Planned \/ x = run
      BY <1>3, <2>1 DEF Planned, RunsOf
    <2>4. /\ \A x \in Acked : x \in Acked'
          /\ \A x \in Planned : x \in Planned'
      BY <1>3 DEF Acked, Planned, RunsOf
    <2>5. run \in Planned'
      BY <1>1, <1>3 DEF Planned, RunsOf
    <2> QED
      BY <2>2, <2>3, <2>4, <2>5
  <1> QED
    BY <1>3, <1>4, <1>5, <1>6

LEMMA LogsNothing ==
    ASSUME ledger \in Seq(Entries), LoggedOnce, ledger' = ledger
    PROVE  /\ ledger' \in Seq(Entries) /\ LoggedOnce'
           /\ Said' = Said /\ Acked' = Acked /\ Planned' = Planned
  BY DEF LoggedOnce, Said, Acked, Planned, RunsOf

\* A call that goes on.
LEMMA CallGoesOn ==
    ASSUME calls \in [Callers -> Calls], NEW c \in Callers, NEW pc \in Steps,
           NEW p \in Payloads \cup {None}, NEW run \in RunIds \cup {None},
           NEW outcome \in {"running", None} \cup Endings, Becomes(c, Call(pc, p, run, outcome))
    PROVE  /\ calls' \in [Callers -> Calls]
           /\ \A d \in Callers \ {c} : calls'[d] = calls[d]
           /\ calls'[c].pc = pc /\ calls'[c].payload = p
           /\ calls'[c].run = run /\ calls'[c].outcome = outcome
  <1> DEFINE call == Call(pc, p, run, outcome)
  <1>1. /\ call \in Calls
        /\ call.pc = pc /\ call.payload = p /\ call.run = run /\ call.outcome = outcome
    BY DEF Call, Calls
  <1> HIDE DEF call
  <1>2. calls' = [calls EXCEPT ![c] = call]
    BY DEF Becomes, call
  <1> QED
    BY <1>1, <1>2

LEMMA CallGoesTo ==
    ASSUME calls \in [Callers -> Calls], NEW c \in Callers, NEW pc \in Steps,
           calls[c].payload \in Payloads \cup {None}, Goes(c, pc)
    PROVE  /\ calls' \in [Callers -> Calls]
           /\ \A d \in Callers \ {c} : calls'[d] = calls[d]
           /\ calls'[c].pc = pc /\ calls'[c].payload = calls[c].payload
  BY CallGoesOn DEF Goes

LEMMA CallEnds ==
    ASSUME calls \in [Callers -> Calls], NEW c \in Callers, Ends(c)
    PROVE  /\ calls' \in [Callers -> Calls]
           /\ \A d \in Callers \ {c} : calls'[d] = calls[d]
           /\ calls'[c].pc = "idle"
  <1>1. "idle" \in Steps
    BY DEF Steps
  <1> QED
    BY <1>1, CallGoesOn DEF Ends, Idle

-------------------------------------------------------------------------------
\* What each step logs, and what becomes of its call.
LEMMA SubmitNewMoves ==
    ASSUME PlanningInductive, NEW c \in Callers, NEW p \in Payloads, SubmitNew(c, p)
    PROVE  /\ ledger' \in Seq(Entries) /\ LoggedOnce'
           /\ Said' = Said \cup {"work_order.accepted"}
           /\ Acked' = Acked /\ Planned' = Planned
           /\ calls' \in [Callers -> Calls]
           /\ \A d \in Callers \ {c} : calls'[d] = calls[d]
           /\ calls'[c].pc = AfterCreation /\ calls'[c].payload = p
  <1> USE PlanningAssumption DEF Ack
  <1>1. /\ ledger \in Seq(Entries) /\ LoggedOnce /\ calls \in [Callers -> Calls]
        /\ calls[c].run \in RunIds \cup {None} /\ calls[c].payload \in Payloads \cup {None}
    BY DEF PlanningInductive, PlanningTypeOK, Calls
  <1>2. /\ ledger' \in Seq(Entries) /\ LoggedOnce'
        /\ Said' = Said \cup {"work_order.accepted"}
        /\ Acked' = Acked /\ Planned' = Planned
    BY <1>1, SaidIsLogged, LogsOne DEF
        SubmitNew, CreateWorkOrder, Events, Repeatable, PlanningInductive, BeforeCreation
  <1>3. /\ calls' \in [Callers -> Calls]
        /\ \A d \in Callers \ {c} : calls'[d] = calls[d]
        /\ calls'[c].pc = AfterCreation /\ calls'[c].payload = p
    BY <1>1, CallGoesOn DEF SubmitNew, CreateWorkOrder, AfterCreation, Steps
  <1> QED
    BY <1>2, <1>3

LEMMA SubmitReplayMoves ==
    ASSUME PlanningInductive, NEW c \in Callers, NEW p \in Payloads, SubmitReplay(c, p)
    PROVE  /\ ledger' \in Seq(Entries) /\ LoggedOnce'
           /\ Said' = Said /\ Acked' = Acked /\ Planned' = Planned
           /\ calls' \in [Callers -> Calls]
           /\ \A d \in Callers \ {c} : calls'[d] = calls[d]
           /\ calls'[c].pc = "lookup" /\ calls'[c].payload = p
  <1> USE PlanningAssumption DEF Ack
  <1>1. /\ ledger \in Seq(Entries) /\ LoggedOnce /\ calls \in [Callers -> Calls]
        /\ calls[c].run \in RunIds \cup {None} /\ calls[c].payload \in Payloads \cup {None}
    BY DEF PlanningInductive, PlanningTypeOK, Calls
  <1>2. /\ ledger' \in Seq(Entries) /\ LoggedOnce'
        /\ Said' = Said /\ Acked' = Acked /\ Planned' = Planned
    BY <1>1, SaidIsLogged, LogsNothing DEF SubmitReplay, storeVars
  <1>3. /\ calls' \in [Callers -> Calls]
        /\ \A d \in Callers \ {c} : calls'[d] = calls[d]
        /\ calls'[c].pc = "lookup" /\ calls'[c].payload = p
    BY <1>1, CallGoesOn DEF SubmitReplay, Steps
  <1> QED
    BY <1>2, <1>3

LEMMA LookUpAcknowledgementMoves ==
    ASSUME PlanningInductive, NEW c \in Callers, LookUpAcknowledgement(c)
    PROVE  /\ ledger' \in Seq(Entries) /\ LoggedOnce'
           /\ Said' = Said /\ Acked' = Acked /\ Planned' = Planned
           /\ \/ calls'[c].pc = AfterCreation /\ calls'[c].payload = calls[c].payload /\ answers' = answers
              \/ calls'[c].pc = "idle" /\ \E r \in Acked : Answers(c, r)
           /\ calls' \in [Callers -> Calls]
           /\ \A d \in Callers \ {c} : calls'[d] = calls[d]
  <1> USE PlanningAssumption DEF Ack
  <1>1. /\ ledger \in Seq(Entries) /\ LoggedOnce /\ calls \in [Callers -> Calls]
        /\ calls[c].run \in RunIds \cup {None} /\ calls[c].payload \in Payloads \cup {None}
    BY DEF PlanningInductive, PlanningTypeOK, Calls
  <1>2. /\ ledger' \in Seq(Entries) /\ LoggedOnce'
        /\ Said' = Said /\ Acked' = Acked /\ Planned' = Planned
    BY <1>1, SaidIsLogged, LogsNothing DEF
        LookUpAcknowledgement, storeVars, Acked, Planned, Repeatable, PlanningInductive,
        SoundLedger
  <1>3. /\ \/ calls'[c].pc = AfterCreation /\ calls'[c].payload = calls[c].payload /\ answers' = answers
           \/ calls'[c].pc = "idle" /\ \E r \in Acked : Answers(c, r)
        /\ calls' \in [Callers -> Calls]
        /\ \A d \in Callers \ {c} : calls'[d] = calls[d]
    <2>1. CASE Logged(Ack)
      <3>1. Ends(c) /\ Answers(c, LatestRun(Ack))
        BY <2>1 DEF LookUpAcknowledgement, AckedRun
      <3>2. LatestRun(Ack) \in Acked
        BY <1>1, <2>1, SaidIsLogged DEF Acked, Repeatable
      <3> QED
        BY <1>1, <3>1, <3>2, CallEnds
    <2>2. CASE ~Logged(Ack)
      <3>1. Goes(c, AfterCreation) /\ answers' = answers /\ AfterCreation \in Steps
        BY <2>2 DEF LookUpAcknowledgement, AfterCreation, Steps
      <3> QED
        BY <1>1, <3>1, CallGoesTo
    <2> QED
      BY <2>1, <2>2
  <1> QED
    BY <1>2, <1>3

LEMMA RecordBundleMoves ==
    ASSUME PlanningInductive, NEW c \in Callers, RecordBundle(c)
    PROVE  /\ ledger' \in Seq(Entries) /\ LoggedOnce'
           /\ \/ Said' = Said
              \/ Said' = Said \cup {"bundle.validated"}
           /\ Acked' = Acked /\ Planned' = Planned
           /\ calls' \in [Callers -> Calls]
           /\ \A d \in Callers \ {c} : calls'[d] = calls[d]
           /\ calls'[c].pc = "verify" /\ calls'[c].payload = calls[c].payload
  <1> USE PlanningAssumption DEF Ack
  <1>1. /\ ledger \in Seq(Entries) /\ LoggedOnce /\ calls \in [Callers -> Calls]
        /\ calls[c].run \in RunIds \cup {None} /\ calls[c].payload \in Payloads \cup {None}
    BY DEF PlanningInductive, PlanningTypeOK, Calls
  <1>2. /\ ledger' \in Seq(Entries) /\ LoggedOnce'
        /\ \/ Said' = Said
           \/ Said' = Said \cup {"bundle.validated"}
        /\ Acked' = Acked /\ Planned' = Planned
    BY <1>1, SaidIsLogged, LogsOne, LogsNothing DEF RecordBundle, Events, Repeatable
  <1>3. /\ calls' \in [Callers -> Calls]
        /\ \A d \in Callers \ {c} : calls'[d] = calls[d]
        /\ calls'[c].pc = "verify" /\ calls'[c].payload = calls[c].payload
    BY <1>1, CallGoesTo DEF RecordBundle, Steps
  <1> QED
    BY <1>2, <1>3

LEMMA VerifyBundleMoves ==
    ASSUME PlanningInductive, NEW c \in Callers, VerifyBundle(c)
    PROVE  /\ ledger' \in Seq(Entries) /\ LoggedOnce'
           /\ Said' = Said /\ Acked' = Acked /\ Planned' = Planned
           /\ calls' \in [Callers -> Calls]
           /\ \A d \in Callers \ {c} : calls'[d] = calls[d]
           /\ calls'[c].pc = "route" /\ calls'[c].payload = calls[c].payload
  <1> USE PlanningAssumption DEF Ack
  <1>1. /\ ledger \in Seq(Entries) /\ LoggedOnce /\ calls \in [Callers -> Calls]
        /\ calls[c].run \in RunIds \cup {None} /\ calls[c].payload \in Payloads \cup {None}
    BY DEF PlanningInductive, PlanningTypeOK, Calls
  <1>2. /\ ledger' \in Seq(Entries) /\ LoggedOnce'
        /\ Said' = Said /\ Acked' = Acked /\ Planned' = Planned
    BY <1>1, SaidIsLogged, LogsNothing DEF VerifyBundle, storeVars
  <1>3. /\ calls' \in [Callers -> Calls]
        /\ \A d \in Callers \ {c} : calls'[d] = calls[d]
        /\ calls'[c].pc = "route" /\ calls'[c].payload = calls[c].payload
    BY <1>1, CallGoesTo DEF VerifyBundle, Steps
  <1> QED
    BY <1>2, <1>3

LEMMA RejectBundleMoves ==
    ASSUME PlanningInductive, NEW c \in Callers, RejectBundle(c)
    PROVE  /\ ledger' \in Seq(Entries) /\ LoggedOnce'
           /\ \/ "work_order.routed" \in Said /\ Said' = Said /\ status' = status
              \/ "work_order.routed" \notin Said /\ Said' = Said \cup {"bundle.rejected"} /\ status' = "FAILED"
           /\ Acked' = Acked /\ Planned' = Planned
           /\ calls' \in [Callers -> Calls]
           /\ \A d \in Callers \ {c} : calls'[d] = calls[d]
           /\ calls'[c].pc = "idle"
  <1> USE PlanningAssumption DEF Ack
  <1>1. /\ ledger \in Seq(Entries) /\ LoggedOnce /\ calls \in [Callers -> Calls]
        /\ calls[c].run \in RunIds \cup {None} /\ calls[c].payload \in Payloads \cup {None}
    BY DEF PlanningInductive, PlanningTypeOK, Calls
  <1>2. /\ ledger' \in Seq(Entries) /\ LoggedOnce'
        /\ \/ "work_order.routed" \in Said /\ Said' = Said /\ status' = status
           \/ "work_order.routed" \notin Said /\ Said' = Said \cup {"bundle.rejected"} /\ status' = "FAILED"
        /\ Acked' = Acked /\ Planned' = Planned
    BY <1>1, SaidIsLogged, LogsOne, LogsNothing DEF RejectBundle, Events, Repeatable
  <1>3. /\ calls' \in [Callers -> Calls]
        /\ \A d \in Callers \ {c} : calls'[d] = calls[d]
        /\ calls'[c].pc = "idle"
    BY <1>1, CallEnds DEF RejectBundle
  <1> QED
    BY <1>2, <1>3

LEMMA EnsureRoutedMoves ==
    ASSUME PlanningInductive, NEW c \in Callers, EnsureRouted(c)
    PROVE  /\ ledger' \in Seq(Entries) /\ LoggedOnce'
           /\ \/ "work_order.routed" \in Said /\ Said' = Said
              \/ "work_order.routed" \notin Said /\ Said' = Said \cup {"work_order.routed"}
           /\ Acked' = Acked /\ Planned' = Planned
           /\ calls' \in [Callers -> Calls]
           /\ \A d \in Callers \ {c} : calls'[d] = calls[d]
           /\ calls'[c].pc = "submit" /\ calls'[c].payload = calls[c].payload
  <1> USE PlanningAssumption DEF Ack
  <1>1. /\ ledger \in Seq(Entries) /\ LoggedOnce /\ calls \in [Callers -> Calls]
        /\ calls[c].run \in RunIds \cup {None} /\ calls[c].payload \in Payloads \cup {None}
    BY DEF PlanningInductive, PlanningTypeOK, Calls
  <1>2. /\ ledger' \in Seq(Entries) /\ LoggedOnce'
        /\ \/ "work_order.routed" \in Said /\ Said' = Said
           \/ "work_order.routed" \notin Said /\ Said' = Said \cup {"work_order.routed"}
        /\ Acked' = Acked /\ Planned' = Planned
    BY <1>1, SaidIsLogged, LogsOne, LogsNothing DEF EnsureRouted, Events, Repeatable
  <1>3. Goes(c, "submit")
    BY DEF EnsureRouted
  <1>4. /\ calls' \in [Callers -> Calls]
        /\ \A d \in Callers \ {c} : calls'[d] = calls[d]
        /\ calls'[c].pc = "submit" /\ calls'[c].payload = calls[c].payload
    BY <1>1, <1>3, CallGoesTo DEF Steps
  <1> QED
    BY <1>2, <1>4

LEMMA SubmitAcceptedMoves ==
    ASSUME PlanningInductive, NEW c \in Callers, SubmitAccepted(c)
    PROVE  /\ ledger' \in Seq(Entries) /\ LoggedOnce'
           /\ Said' = Said /\ Acked' = Acked /\ Planned' = Planned
           /\ calls' \in [Callers -> Calls]
           /\ \A d \in Callers \ {c} : calls'[d] = calls[d]
           /\ calls'[c].pc = "accepted" /\ calls'[c].payload = calls[c].payload
           /\ calls'[c].run = Len(runs')
  <1> USE PlanningAssumption DEF Ack
  <1>1. /\ ledger \in Seq(Entries) /\ LoggedOnce /\ calls \in [Callers -> Calls]
        /\ calls[c].run \in RunIds \cup {None} /\ calls[c].payload \in Payloads \cup {None}
    BY DEF PlanningInductive, PlanningTypeOK, Calls
  <1>2. /\ ledger' \in Seq(Entries) /\ LoggedOnce'
        /\ Said' = Said /\ Acked' = Acked /\ Planned' = Planned
    BY <1>1, SaidIsLogged, LogsNothing DEF SubmitAccepted, storeVars
  <1> DEFINE run == Len(runs')
  <1>a. run \in RunIds
    BY DEF SubmitAccepted, MustPost, CanPost, Posts, PlanningInductive, PlanningTypeOK, SoundRuns,
       RunIds
  <1>b. Becomes(c, Call("accepted", calls[c].payload, run, None))
    BY DEF SubmitAccepted
  <1>c. run = Len(runs')
    OBVIOUS
  <1> HIDE DEF run
  <1>3. /\ calls' \in [Callers -> Calls]
        /\ \A d \in Callers \ {c} : calls'[d] = calls[d]
        /\ calls'[c].pc = "accepted" /\ calls'[c].payload = calls[c].payload
        /\ calls'[c].run = Len(runs')
    BY <1>1, <1>a, <1>b, <1>c, CallGoesOn DEF Steps
  <1> QED
    BY <1>2, <1>3

LEMMA SubmitRaisesMoves ==
    ASSUME PlanningInductive, NEW c \in Callers, SubmitRaises(c)
    PROVE  /\ ledger' \in Seq(Entries) /\ LoggedOnce'
           /\ Said' = Said /\ Acked' = Acked /\ Planned' = Planned
           /\ calls' \in [Callers -> Calls]
           /\ \A d \in Callers \ {c} : calls'[d] = calls[d]
           /\ calls'[c].pc = "raised" /\ calls'[c].payload = calls[c].payload
  <1> USE PlanningAssumption DEF Ack
  <1>1. /\ ledger \in Seq(Entries) /\ LoggedOnce /\ calls \in [Callers -> Calls]
        /\ calls[c].run \in RunIds \cup {None} /\ calls[c].payload \in Payloads \cup {None}
    BY DEF PlanningInductive, PlanningTypeOK, Calls
  <1>2. /\ ledger' \in Seq(Entries) /\ LoggedOnce'
        /\ Said' = Said /\ Acked' = Acked /\ Planned' = Planned
    BY <1>1, SaidIsLogged, LogsNothing DEF SubmitRaises, storeVars
  <1>3. /\ calls' \in [Callers -> Calls]
        /\ \A d \in Callers \ {c} : calls'[d] = calls[d]
        /\ calls'[c].pc = "raised" /\ calls'[c].payload = calls[c].payload
    BY <1>1, CallGoesTo DEF SubmitRaises, Steps
  <1> QED
    BY <1>2, <1>3

LEMMA SubmitRejectedMoves ==
    ASSUME PlanningInductive, NEW c \in Callers, SubmitRejected(c)
    PROVE  /\ ledger' \in Seq(Entries) /\ LoggedOnce'
           /\ Said' = Said /\ Acked' = Acked /\ Planned' = Planned
           /\ calls' \in [Callers -> Calls]
           /\ \A d \in Callers \ {c} : calls'[d] = calls[d]
           /\ calls'[c].pc = "rejected" /\ calls'[c].payload = calls[c].payload
  <1> USE PlanningAssumption DEF Ack
  <1>1. /\ ledger \in Seq(Entries) /\ LoggedOnce /\ calls \in [Callers -> Calls]
        /\ calls[c].run \in RunIds \cup {None} /\ calls[c].payload \in Payloads \cup {None}
    BY DEF PlanningInductive, PlanningTypeOK, Calls
  <1>2. /\ ledger' \in Seq(Entries) /\ LoggedOnce'
        /\ Said' = Said /\ Acked' = Acked /\ Planned' = Planned
    BY <1>1, SaidIsLogged, LogsNothing DEF SubmitRejected, storeVars
  <1>3. /\ calls' \in [Callers -> Calls]
        /\ \A d \in Callers \ {c} : calls'[d] = calls[d]
        /\ calls'[c].pc = "rejected" /\ calls'[c].payload = calls[c].payload
    BY <1>1, CallGoesTo DEF SubmitRejected, Steps
  <1> QED
    BY <1>2, <1>3

LEMMA RecordFailureMoves ==
    ASSUME PlanningInductive, NEW c \in Callers, RecordFailure(c)
    PROVE  /\ ledger' \in Seq(Entries) /\ LoggedOnce'
           /\ \/ Ack \in Said /\ Said' = Said /\ status' = status
              \/ Ack \notin Said /\ Said' = Said \cup {"executor.failed"} /\ status' = "FAILED"
           /\ Acked' = Acked /\ Planned' = Planned
           /\ calls' \in [Callers -> Calls]
           /\ \A d \in Callers \ {c} : calls'[d] = calls[d]
           /\ calls'[c].pc = "idle"
  <1> USE PlanningAssumption DEF Ack
  <1>1. /\ ledger \in Seq(Entries) /\ LoggedOnce /\ calls \in [Callers -> Calls]
        /\ calls[c].run \in RunIds \cup {None} /\ calls[c].payload \in Payloads \cup {None}
    BY DEF PlanningInductive, PlanningTypeOK, Calls
  <1>2. /\ ledger' \in Seq(Entries) /\ LoggedOnce'
        /\ \/ Ack \in Said /\ Said' = Said /\ status' = status
           \/ Ack \notin Said /\ Said' = Said \cup {"executor.failed"} /\ status' = "FAILED"
        /\ Acked' = Acked /\ Planned' = Planned
    BY <1>1, SaidIsLogged, LogsOne, LogsNothing DEF RecordFailure, Events, Repeatable
  <1>3. /\ calls' \in [Callers -> Calls]
        /\ \A d \in Callers \ {c} : calls'[d] = calls[d]
        /\ calls'[c].pc = "idle"
    BY <1>1, CallEnds DEF RecordFailure
  <1> QED
    BY <1>2, <1>3

LEMMA RecordRejectionMoves ==
    ASSUME PlanningInductive, NEW c \in Callers, RecordRejection(c)
    PROVE  /\ ledger' \in Seq(Entries) /\ LoggedOnce'
           /\ \/ Said' = Said /\ status' = status
              \/ Said' = Said \cup {"executor.rejected"} /\ status' = "FAILED"
           /\ Acked' = Acked /\ Planned' = Planned
           /\ calls' \in [Callers -> Calls]
           /\ \A d \in Callers \ {c} : calls'[d] = calls[d]
           /\ calls'[c].pc = "idle"
  <1> USE PlanningAssumption DEF Ack
  <1>1. /\ ledger \in Seq(Entries) /\ LoggedOnce /\ calls \in [Callers -> Calls]
        /\ calls[c].run \in RunIds \cup {None} /\ calls[c].payload \in Payloads \cup {None}
    BY DEF PlanningInductive, PlanningTypeOK, Calls
  <1>2. /\ ledger' \in Seq(Entries) /\ LoggedOnce'
        /\ \/ Said' = Said /\ status' = status
           \/ Said' = Said \cup {"executor.rejected"} /\ status' = "FAILED"
        /\ Acked' = Acked /\ Planned' = Planned
    BY <1>1, SaidIsLogged, LogsOne, LogsNothing DEF RecordRejection, Events, Repeatable
  <1>3. /\ calls' \in [Callers -> Calls]
        /\ \A d \in Callers \ {c} : calls'[d] = calls[d]
        /\ calls'[c].pc = "idle"
    BY <1>1, CallEnds DEF RecordRejection
  <1> QED
    BY <1>2, <1>3

LEMMA RecordAcknowledgementMoves ==
    ASSUME PlanningInductive, NEW c \in Callers, RecordAcknowledgement(c)
    PROVE  /\ ledger' \in Seq(Entries) /\ LoggedOnce'
           /\ \/ /\ Ack \in Said /\ Said' = Said /\ Acked' = Acked /\ status' = status
                 /\ \E r \in Acked : Answers(c, r)
              \/ /\ Ack \notin Said /\ Said' = Said \cup {Ack} /\ Acked' = Acked \cup {calls[c].run}
                 /\ status' = "PLANNING" /\ Answers(c, calls[c].run)
           /\ Planned' = Planned
           /\ calls' \in [Callers -> Calls]
           /\ \A d \in Callers \ {c} : calls'[d] = calls[d]
           /\ calls'[c].pc = "idle"
  <1> USE PlanningAssumption DEF Ack
  <1>1. /\ ledger \in Seq(Entries) /\ LoggedOnce /\ calls \in [Callers -> Calls]
        /\ calls[c].run \in RunIds \cup {None} /\ calls[c].payload \in Payloads \cup {None}
    BY DEF PlanningInductive, PlanningTypeOK, Calls
  <1>2. /\ ledger' \in Seq(Entries) /\ LoggedOnce'
        /\ \/ /\ Ack \in Said /\ Said' = Said /\ Acked' = Acked /\ status' = status
              /\ \E r \in Acked : Answers(c, r)
           \/ /\ Ack \notin Said /\ Said' = Said \cup {Ack} /\ Acked' = Acked \cup {calls[c].run}
              /\ status' = "PLANNING" /\ Answers(c, calls[c].run)
        /\ Planned' = Planned
    BY <1>1, SaidIsLogged, LogsOne, LogsNothing DEF
        RecordAcknowledgement, IsFirstAcknowledgement, AckedRun, Events, Repeatable, Acked,
        Planned, PlanningInductive, SoundLedger
  <1>3. /\ calls' \in [Callers -> Calls]
        /\ \A d \in Callers \ {c} : calls'[d] = calls[d]
        /\ calls'[c].pc = "idle"
    BY <1>1, CallEnds DEF RecordAcknowledgement
  <1> QED
    BY <1>2, <1>3

LEMMA ReturnPlanMoves ==
    ASSUME PlanningInductive, NEW c \in Callers, ReturnPlan(c)
    PROVE  /\ ledger' \in Seq(Entries) /\ LoggedOnce'
           /\ Said' = Said /\ Acked' = Acked /\ Planned' = Planned
           /\ \E r \in Planned : answers' = answers \cup {[run |-> r, payload |-> payload]}
           /\ calls' \in [Callers -> Calls]
           /\ \A d \in Callers \ {c} : calls'[d] = calls[d]
           /\ calls' = calls
  <1> USE PlanningAssumption DEF Ack
  <1>1. /\ ledger \in Seq(Entries) /\ LoggedOnce /\ calls \in [Callers -> Calls]
        /\ calls[c].run \in RunIds \cup {None} /\ calls[c].payload \in Payloads \cup {None}
    BY DEF PlanningInductive, PlanningTypeOK, Calls
  <1>2. /\ ledger' \in Seq(Entries) /\ LoggedOnce'
        /\ Said' = Said /\ Acked' = Acked /\ Planned' = Planned
        /\ \E r \in Planned : answers' = answers \cup {[run |-> r, payload |-> payload]}
    BY <1>1, SaidIsLogged, LogsNothing DEF
        ReturnPlan, storeVars, Acked, Planned, Repeatable, PlanningInductive, SoundLedger
  <1>3. /\ calls' \in [Callers -> Calls]
        /\ \A d \in Callers \ {c} : calls'[d] = calls[d]
        /\ calls' = calls
    BY <1>1 DEF ReturnPlan
  <1> QED
    BY <1>2, <1>3

LEMMA PollRunMoves ==
    ASSUME PlanningInductive, NEW c \in Callers, PollRun(c)
    PROVE  /\ ledger' \in Seq(Entries) /\ LoggedOnce'
           /\ Said' = Said /\ Acked' = Acked /\ Planned' = Planned
           /\ calls' \in [Callers -> Calls]
           /\ \A d \in Callers \ {c} : calls'[d] = calls[d]
           /\ calls'[c].pc = "polled" /\ calls'[c].payload = payload
           /\ calls'[c].run \in Acked /\ calls'[c].outcome = runs[calls'[c].run].outcome
  <1> USE PlanningAssumption DEF Ack
  <1>1. /\ ledger \in Seq(Entries) /\ LoggedOnce /\ calls \in [Callers -> Calls]
        /\ calls[c].run \in RunIds \cup {None} /\ calls[c].payload \in Payloads \cup {None}
    BY DEF PlanningInductive, PlanningTypeOK, Calls
  <1>0. ledger' = ledger
    BY DEF PollRun, storeVars
  <1>2. /\ ledger' \in Seq(Entries) /\ LoggedOnce'
        /\ Said' = Said /\ Acked' = Acked /\ Planned' = Planned
    BY <1>1, <1>0, LogsNothing
  <1> DEFINE run == AckedRun
             outcome == runs[run].outcome
  <1>3. run \in Acked
    <2>1. Ack \in Said \ Repeatable
      BY <1>1, SaidIsLogged DEF PollRun, IsPollable, Repeatable
    <2> QED
      BY <1>1, <2>1, SaidIsLogged DEF Acked, AckedRun
  <1> DEFINE R == [ours : BOOLEAN, payload : Payloads \cup {None},
                   outcome : {"running"} \cup Endings]
  <1>4. run \in DOMAIN runs /\ runs \in Seq(R)
    BY <1>3 DEF PlanningInductive, PlanningTypeOK, SoundLedger
  <1>5. run \in RunIds /\ outcome \in {"running", None} \cup Endings
    <2> HIDE DEF run, R
    <2>1. runs[run] \in R /\ run \in 1..Len(runs) /\ Len(runs) \in Nat
      BY <1>4
    <2>2. run \in RunIds
      BY <2>1 DEF PlanningInductive, SoundRuns, RunIds
    <2>3. outcome \in {"running", None} \cup Endings
      BY <2>1 DEF R
    <2> QED
      BY <2>2, <2>3
  <1>6. Becomes(c, Call("polled", payload, run, outcome))
    BY DEF PollRun
  <1>7. outcome = runs[run].outcome
    OBVIOUS
  <1>8. "polled" \in Steps /\ payload \in Payloads \cup {None}
    BY DEF Steps, PlanningInductive, PlanningTypeOK
  <1> HIDE DEF run, outcome
  <1>9. /\ calls' \in [Callers -> Calls]
        /\ \A d \in Callers \ {c} : calls'[d] = calls[d]
        /\ calls'[c].pc = "polled" /\ calls'[c].payload = payload
        /\ calls'[c].run = run /\ calls'[c].outcome = outcome
    BY <1>1, <1>5, <1>6, <1>8, CallGoesOn
  <1> QED
    BY <1>2, <1>3, <1>7, <1>9

LEMMA CommitRunningMoves ==
    ASSUME PlanningInductive, NEW c \in Callers, CommitRunning(c)
    PROVE  /\ ledger' \in Seq(Entries) /\ LoggedOnce'
           /\ \/ Said' = Said
              \/ Said' = Said \cup {"executor.status"}
           /\ Acked' = Acked /\ Planned' = Planned
           /\ calls' \in [Callers -> Calls]
           /\ \A d \in Callers \ {c} : calls'[d] = calls[d]
           /\ calls'[c].pc = "idle"
  <1> USE PlanningAssumption DEF Ack
  <1>1. /\ ledger \in Seq(Entries) /\ LoggedOnce /\ calls \in [Callers -> Calls]
        /\ calls[c].run \in RunIds \cup {None} /\ calls[c].payload \in Payloads \cup {None}
    BY DEF PlanningInductive, PlanningTypeOK, Calls
  <1>2. /\ ledger' \in Seq(Entries) /\ LoggedOnce'
        /\ \/ Said' = Said
           \/ Said' = Said \cup {"executor.status"}
        /\ Acked' = Acked /\ Planned' = Planned
    BY <1>1, SaidIsLogged, LogsOne, LogsNothing DEF CommitRunning, Events, Repeatable
  <1>3. /\ calls' \in [Callers -> Calls]
        /\ \A d \in Callers \ {c} : calls'[d] = calls[d]
        /\ calls'[c].pc = "idle"
    BY <1>1, CallEnds DEF CommitRunning
  <1> QED
    BY <1>2, <1>3

LEMMA CommitFailedMoves ==
    ASSUME PlanningInductive, NEW c \in Callers, CommitFailed(c)
    PROVE  /\ ledger' \in Seq(Entries) /\ LoggedOnce'
           /\ "plan.available" \notin Said
           /\ \/ Said' = Said /\ status' = status
              \/ Said' = Said \cup {"executor.failed"} /\ status' = "FAILED"
           /\ Acked' = Acked /\ Planned' = Planned
           /\ calls' \in [Callers -> Calls]
           /\ \A d \in Callers \ {c} : calls'[d] = calls[d]
           /\ calls'[c].pc = "idle"
  <1> USE PlanningAssumption DEF Ack
  <1>1. /\ ledger \in Seq(Entries) /\ LoggedOnce /\ calls \in [Callers -> Calls]
        /\ calls[c].run \in RunIds \cup {None} /\ calls[c].payload \in Payloads \cup {None}
    BY DEF PlanningInductive, PlanningTypeOK, Calls
  <1>2. /\ ledger' \in Seq(Entries) /\ LoggedOnce'
        /\ "plan.available" \notin Said
        /\ \/ Said' = Said /\ status' = status
           \/ Said' = Said \cup {"executor.failed"} /\ status' = "FAILED"
        /\ Acked' = Acked /\ Planned' = Planned
    BY <1>1, SaidIsLogged, LogsOne, LogsNothing DEF
        CommitFailed, Events, Repeatable, PlanningInductive, SoundLedger
  <1>3. /\ calls' \in [Callers -> Calls]
        /\ \A d \in Callers \ {c} : calls'[d] = calls[d]
        /\ calls'[c].pc = "idle"
    BY <1>1, CallEnds DEF CommitFailed
  <1> QED
    BY <1>2, <1>3

LEMMA CommitPlanMoves ==
    ASSUME PlanningInductive, NEW c \in Callers, CommitPlan(c)
    PROVE  /\ ledger' \in Seq(Entries) /\ LoggedOnce'
           /\ Said' = Said \cup {"plan.received", "plan.available"}
           /\ Acked' = Acked /\ Planned' = Planned \cup {calls[c].run}
           /\ calls' \in [Callers -> Calls]
           /\ \A d \in Callers \ {c} : calls'[d] = calls[d]
           /\ calls'[c].pc = "idle"
  <1> USE PlanningAssumption DEF Ack
  <1>1. /\ ledger \in Seq(Entries) /\ LoggedOnce /\ calls \in [Callers -> Calls]
        /\ calls[c].run \in RunIds \cup {None} /\ calls[c].payload \in Payloads \cup {None}
    BY DEF PlanningInductive, PlanningTypeOK, Calls
  <1>2. /\ ledger' \in Seq(Entries) /\ LoggedOnce'
        /\ Said' = Said \cup {"plan.received", "plan.available"}
        /\ Acked' = Acked /\ Planned' = Planned \cup {calls[c].run}
    BY <1>1, SaidIsLogged, LogsPlan DEF
        CommitPlan, PlanIsMissing, Events, Repeatable, PlanningInductive, SoundLedger
  <1>3. /\ calls' \in [Callers -> Calls]
        /\ \A d \in Callers \ {c} : calls'[d] = calls[d]
        /\ calls'[c].pc = "idle"
    BY <1>1, CallEnds DEF CommitPlan
  <1> QED
    BY <1>2, <1>3

LEMMA FindPlanMoves ==
    ASSUME PlanningInductive, NEW c \in Callers, FindPlan(c)
    PROVE  /\ ledger' \in Seq(Entries) /\ LoggedOnce'
           /\ Said' = Said /\ Acked' = Acked /\ Planned' = Planned
           /\ \E r \in Planned : Answers(c, r)
           /\ calls' \in [Callers -> Calls]
           /\ \A d \in Callers \ {c} : calls'[d] = calls[d]
           /\ calls'[c].pc = "idle"
  <1> USE PlanningAssumption DEF Ack
  <1>1. /\ ledger \in Seq(Entries) /\ LoggedOnce /\ calls \in [Callers -> Calls]
        /\ calls[c].run \in RunIds \cup {None} /\ calls[c].payload \in Payloads \cup {None}
    BY DEF PlanningInductive, PlanningTypeOK, Calls
  <1>2. /\ ledger' \in Seq(Entries) /\ LoggedOnce'
        /\ Said' = Said /\ Acked' = Acked /\ Planned' = Planned
        /\ \E r \in Planned : Answers(c, r)
    BY <1>1, SaidIsLogged, LogsNothing DEF
        FindPlan, storeVars, Acked, Planned, Repeatable, PlanningInductive, SoundLedger
  <1>3. /\ calls' \in [Callers -> Calls]
        /\ \A d \in Callers \ {c} : calls'[d] = calls[d]
        /\ calls'[c].pc = "idle"
    BY <1>1, CallEnds DEF FindPlan
  <1> QED
    BY <1>2, <1>3

-------------------------------------------------------------------------------
LEMMA Facts ==
    ASSUME PlanningInductive
    PROVE  /\ ledger \in Seq(Entries) /\ LoggedOnce
           /\ \A e : Logged(e) <=> e \in Said
           /\ Len(runs) \in Nat /\ DOMAIN runs = 1..Len(runs) /\ DOMAIN runs \subseteq RunIds
           /\ runs = <<>> \/ Len(runs) \in DOMAIN runs
           /\ Acked \subseteq RunIds /\ Planned \subseteq Acked
           /\ calls \in [Callers -> Calls]
           /\ \A c \in Callers : calls[c].payload \in Payloads \cup {None}
  <1>1. ledger \in Seq(Entries) /\ LoggedOnce
    BY DEF PlanningInductive, PlanningTypeOK
  <1>2. \A e : Logged(e) <=> e \in Said
    BY <1>1, SaidIsLogged
  <1>3. Len(runs) \in Nat /\ DOMAIN runs = 1..Len(runs) /\ Len(runs) <= MaxRuns
    BY DEF PlanningInductive, PlanningTypeOK, SoundRuns
  <1>4. DOMAIN runs \subseteq RunIds
    BY <1>3, PlanningAssumption DEF RunIds
  <1>5. Acked \subseteq RunIds /\ Planned \subseteq Acked
    BY <1>4 DEF PlanningInductive, SoundLedger
  <1>6. \A c \in Callers : calls[c].payload \in Payloads \cup {None}
    BY DEF PlanningInductive, PlanningTypeOK, Calls
  <1> QED
    BY <1>1, <1>2, <1>3, <1>4, <1>5, <1>6 DEF PlanningInductive, PlanningTypeOK

\* A run that a call starts.
LEMMA PostedRun ==
    ASSUME PlanningInductive, NEW c \in Callers, CanPost, Posts(c)
    PROVE  /\ runs' \in Seq([ours : BOOLEAN, payload : Payloads \cup {None},
                             outcome : {"running"} \cup Endings])
           /\ Len(runs') = Len(runs) + 1 /\ Len(runs') <= MaxRuns
           /\ DOMAIN runs' = DOMAIN runs \cup {Len(runs')} /\ Len(runs') \notin DOMAIN runs
           /\ \A r \in DOMAIN runs : runs'[r] = runs[r]
           /\ runs'[Len(runs')].ours /\ runs'[Len(runs')].payload = calls[c].payload
           /\ runs'[Len(runs')].outcome = "running"
  <1> DEFINE R == [ours : BOOLEAN, payload : Payloads \cup {None},
                   outcome : {"running"} \cup Endings]
             run == [ours |-> TRUE, payload |-> calls[c].payload, outcome |-> "running"]
  <1>1. run \in R /\ run.ours /\ run.payload = calls[c].payload /\ run.outcome = "running"
    BY Facts
  <1>2. runs \in Seq(R)
    BY DEF PlanningInductive, PlanningTypeOK
  <1>3. runs' = Append(runs, run) /\ Len(runs) < MaxRuns
    BY DEF CanPost, Posts
  <1> HIDE DEF R, run
  <1>4. /\ runs' \in Seq(R) /\ Len(runs') = Len(runs) + 1 /\ Len(runs) \in Nat
        /\ DOMAIN runs' = DOMAIN runs \cup {Len(runs')} /\ Len(runs') \notin DOMAIN runs
        /\ \A r \in DOMAIN runs : runs'[r] = runs[r]
        /\ runs'[Len(runs')] = run
    BY <1>1, <1>2, <1>3
  <1>5. Len(runs') <= MaxRuns
    BY <1>3, <1>4, PlanningAssumption
  <1> QED
    BY <1>1, <1>4, <1>5 DEF R

\* A step of a call, or its death.
CallMoves(c) ==
    /\ \/ Submit(c) \/ CallStep(c) \/ RefreshStep(c)
       \/ Ends(c) /\ UNCHANGED <<storeVars, answers, runs, worldVars>>
    /\ submissions' \in 0..MaxCalls /\ crashes' \in 0..MaxCrashes

LEMMA CallTypes ==
    ASSUME PlanningInductive, NEW c \in Callers, CallMoves(c)
    PROVE  PlanningTypeOK'
  <1> USE PlanningAssumption, Facts DEF
        PlanningInductive, storeVars, worldVars, Ack, PlanningTypeOK, Statuses, SoundCall, SoundCalls
  <1> USE DEF CallMoves
  <1>1. ASSUME NEW p \in Payloads, SubmitNew(c, p) PROVE PlanningTypeOK'
    BY <1>1, SubmitNewMoves DEF SubmitNew, CreateWorkOrder, AfterCreation
  <1>2. ASSUME NEW p \in Payloads, SubmitReplay(c, p) PROVE PlanningTypeOK'
    BY <1>2, SubmitReplayMoves DEF SubmitReplay, IsSameWorkOrder
  <1>3. CASE LookUpAcknowledgement(c)
    BY <1>3, LookUpAcknowledgementMoves DEF LookUpAcknowledgement, AfterCreation, Answers
  <1>4. CASE RecordBundle(c)
    BY <1>4, RecordBundleMoves DEF RecordBundle
  <1>5. CASE VerifyBundle(c)
    BY <1>5, VerifyBundleMoves DEF VerifyBundle
  <1>6. CASE RejectBundle(c)
    BY <1>6, RejectBundleMoves DEF RejectBundle
  <1>7. CASE EnsureRouted(c)
    BY <1>7, EnsureRoutedMoves DEF EnsureRouted
  <1>8. CASE SubmitAccepted(c)
    BY <1>8, SubmitAcceptedMoves, PostedRun DEF SubmitAccepted, MustPost
  <1>9. CASE SubmitRaises(c)
    BY <1>9, SubmitRaisesMoves, PostedRun DEF SubmitRaises, MustPost
  <1>10. CASE SubmitRejected(c)
    BY <1>10, SubmitRejectedMoves DEF SubmitRejected
  <1>11. CASE RecordFailure(c)
    BY <1>11, RecordFailureMoves DEF RecordFailure
  <1>12. CASE RecordRejection(c)
    BY <1>12, RecordRejectionMoves DEF RecordRejection
  <1>13. CASE RecordAcknowledgement(c)
    <2>1. UNCHANGED <<payload, runs, worldVars>> /\ status' \in {status, "PLANNING"}
      BY <1>13 DEF RecordAcknowledgement
    <2>2. \E r \in RunIds : Answers(c, r)
      <3>1. calls[c].pc = "accepted" => calls[c].run \in DOMAIN runs
        OBVIOUS
      <3>2. calls[c].pc = "accepted"
        BY <1>13 DEF RecordAcknowledgement
      <3> HIDE DEF PlanningInductive, SoundCall, SoundCalls, PlanningTypeOK
      <3> QED
        BY <1>13, <3>1, <3>2, RecordAcknowledgementMoves
    <2>3. answers' \subseteq [run : RunIds, payload : Payloads \cup {None}]
      BY <2>1, <2>2 DEF Answers
    <2> QED
      BY <1>13, <2>1, <2>3, RecordAcknowledgementMoves
  <1>14. CASE ReturnPlan(c)
    BY <1>14, ReturnPlanMoves DEF ReturnPlan
  <1>15. CASE PollRun(c)
    BY <1>15, PollRunMoves DEF PollRun
  <1>16. CASE CommitRunning(c)
    BY <1>16, CommitRunningMoves DEF CommitRunning
  <1>17. CASE CommitFailed(c)
    BY <1>17, CommitFailedMoves DEF CommitFailed
  <1>18. CASE CommitPlan(c)
    <2>1. /\ calls[c].pc = "polled" /\ calls[c].outcome = "finished" /\ status' = "PLAN_READY"
          /\ answers' = answers \cup {[run |-> calls[c].run, payload |-> calls[c].payload]}
          /\ payload' = payload /\ runs' = runs /\ parent' = parent /\ bundle' = bundle
      BY <1>18 DEF CommitPlan, Answers
    <2> QED
      BY <1>18, <2>1, CommitPlanMoves
  <1>19. CASE FindPlan(c)
    BY <1>19, FindPlanMoves DEF FindPlan, Answers
  <1>20. CASE Ends(c) /\ UNCHANGED <<storeVars, answers, runs, worldVars>>
    BY <1>20, CallEnds, LogsNothing
  <1> QED
    BY <1>1, <1>2, <1>3, <1>4, <1>5, <1>6, <1>7, <1>8, <1>9, <1>10, <1>11, <1>12, <1>13,
       <1>14, <1>15, <1>16, <1>17, <1>18, <1>19, <1>20 DEF CallMoves, Submit, CallStep,
       RefreshStep

LEMMA CallCreation ==
    ASSUME PlanningInductive, NEW c \in Callers, CallMoves(c)
    PROVE  BeforeCreation'
  <1> USE PlanningAssumption, Facts DEF
        PlanningInductive, storeVars, worldVars, Ack, BeforeCreation, SoundLedger, Statuses
  <1>1. ASSUME NEW p \in Payloads, SubmitNew(c, p) PROVE BeforeCreation'
    BY <1>1, SubmitNewMoves DEF SubmitNew, CreateWorkOrder, AfterCreation
  <1>2. ASSUME NEW p \in Payloads, SubmitReplay(c, p) PROVE BeforeCreation'
    BY <1>2, SubmitReplayMoves DEF SubmitReplay, IsSameWorkOrder
  <1>3. CASE LookUpAcknowledgement(c)
    BY <1>3, LookUpAcknowledgementMoves DEF LookUpAcknowledgement, AfterCreation
  <1>4. CASE RecordBundle(c)
    BY <1>4, RecordBundleMoves DEF RecordBundle
  <1>5. CASE VerifyBundle(c)
    BY <1>5, VerifyBundleMoves DEF VerifyBundle
  <1>6. CASE RejectBundle(c)
    BY <1>6, RejectBundleMoves DEF RejectBundle
  <1>7. CASE EnsureRouted(c)
    BY <1>7, EnsureRoutedMoves DEF EnsureRouted
  <1>8. CASE SubmitAccepted(c)
    BY <1>8, SubmitAcceptedMoves, PostedRun DEF SubmitAccepted, MustPost
  <1>9. CASE SubmitRaises(c)
    BY <1>9, SubmitRaisesMoves, PostedRun DEF SubmitRaises, MustPost
  <1>10. CASE SubmitRejected(c)
    BY <1>10, SubmitRejectedMoves DEF SubmitRejected
  <1>11. CASE RecordFailure(c)
    BY <1>11, RecordFailureMoves DEF RecordFailure
  <1>12. CASE RecordRejection(c)
    BY <1>12, RecordRejectionMoves DEF RecordRejection
  <1>13. CASE RecordAcknowledgement(c)
    BY <1>13, RecordAcknowledgementMoves DEF RecordAcknowledgement
  <1>14. CASE ReturnPlan(c)
    BY <1>14, ReturnPlanMoves DEF ReturnPlan
  <1>15. CASE PollRun(c)
    BY <1>15, PollRunMoves DEF PollRun
  <1>16. CASE CommitRunning(c)
    BY <1>16, CommitRunningMoves DEF CommitRunning
  <1>17. CASE CommitFailed(c)
    BY <1>17, CommitFailedMoves DEF CommitFailed
  <1>18. CASE CommitPlan(c)
    <2>1. /\ calls[c].pc = "polled" /\ calls[c].outcome = "finished" /\ status' = "PLAN_READY"
          /\ answers' = answers \cup {[run |-> calls[c].run, payload |-> calls[c].payload]}
          /\ payload' = payload /\ runs' = runs /\ parent' = parent /\ bundle' = bundle
      BY <1>18 DEF CommitPlan, Answers
    <2> QED
      BY <1>18, <2>1, CommitPlanMoves
  <1>19. CASE FindPlan(c)
    BY <1>19, FindPlanMoves DEF FindPlan
  <1>20. CASE Ends(c) /\ UNCHANGED <<storeVars, answers, runs, worldVars>>
    BY <1>20, CallEnds, LogsNothing
  <1> QED
    BY <1>1, <1>2, <1>3, <1>4, <1>5, <1>6, <1>7, <1>8, <1>9, <1>10, <1>11, <1>12, <1>13,
       <1>14, <1>15, <1>16, <1>17, <1>18, <1>19, <1>20 DEF CallMoves, Submit, CallStep,
       RefreshStep

\* What the others hold stays sound while ledger and runs only grow.
LEMMA OthersHold ==
    ASSUME PlanningInductive, NEW c \in Callers, SoundCall(c)',
           \A d \in Callers \ {c} : calls'[d] = calls[d],
           payload' = payload, Said \subseteq Said', Acked \subseteq Acked',
           \A r \in DOMAIN runs : r \in DOMAIN runs' /\ runs'[r] = runs[r]
    PROVE  SoundCalls'
  <1> SUFFICES ASSUME NEW d \in Callers \ {c} PROVE SoundCall(d)'
    BY DEF SoundCalls
  <1>1. SoundCall(d) /\ calls'[d] = calls[d]
    BY DEF PlanningInductive, SoundCalls
  <1>2. calls[d].pc = "polled" => calls[d].run \in DOMAIN runs
    BY <1>1 DEF SoundCall, PlanningInductive, SoundLedger
  <1> QED
    BY <1>1, <1>2 DEF SoundCall, Ack

LEMMA CallHeld ==
    ASSUME PlanningInductive, NEW c \in Callers, CallMoves(c)
    PROVE  SoundCalls'
  <1>4. CASE RecordBundle(c)
    <2>1. /\ Said \subseteq Said' /\ Acked' = Acked
          /\ \A d \in Callers \ {c} : calls'[d] = calls[d]
          /\ calls'[c].pc = "verify" /\ calls'[c].payload = calls[c].payload
      BY <1>4, RecordBundleMoves
    <2>2. calls[c].pc = "bundle" /\ payload' = payload /\ runs' = runs
      BY <1>4 DEF RecordBundle
    <2>3. SoundCall(c)'
      BY <2>1, <2>2 DEF PlanningInductive, SoundCalls, SoundCall
    <2> QED
      BY <2>1, <2>2, <2>3, OthersHold
  <1>8. CASE SubmitAccepted(c)
    <2>1. /\ Said' = Said /\ Acked' = Acked
          /\ \A d \in Callers \ {c} : calls'[d] = calls[d]
          /\ calls'[c].pc = "accepted" /\ calls'[c].payload = calls[c].payload
          /\ calls'[c].run = Len(runs')
      BY <1>8, SubmitAcceptedMoves
    <2>2. calls[c].pc = "submit" /\ payload' = payload
      BY <1>8 DEF SubmitAccepted, storeVars
    <2>3. /\ \A r \in DOMAIN runs : r \in DOMAIN runs' /\ runs'[r] = runs[r]
          /\ Len(runs') \in DOMAIN runs' /\ (Ack \in Said \/ runs'[Len(runs')].ours)
      <3>1. CASE MustPost
        BY <1>8, <3>1, PostedRun DEF SubmitAccepted
      <3>2. CASE ~MustPost
        <4>1. runs' = runs /\ runs # <<>>
          BY <1>8, <3>2 DEF SubmitAccepted, MustPost
        <4> QED
          BY <4>1, Facts DEF PlanningInductive, SoundRuns
      <3> QED
        BY <3>1, <3>2
    <2>4. SoundCall(c)'
      BY <2>1, <2>2, <2>3 DEF PlanningInductive, SoundCalls, SoundCall, Ack
    <2> QED
      BY <2>1, <2>2, <2>3, <2>4, OthersHold
  <1>9. CASE SubmitRaises(c)
    <2>1. /\ Said' = Said /\ Acked' = Acked
          /\ \A d \in Callers \ {c} : calls'[d] = calls[d]
          /\ calls'[c].pc = "raised" /\ calls'[c].payload = calls[c].payload
      BY <1>9, SubmitRaisesMoves
    <2>2. calls[c].pc = "submit" /\ payload' = payload
      BY <1>9 DEF SubmitRaises, storeVars
    <2>3. \A r \in DOMAIN runs : r \in DOMAIN runs' /\ runs'[r] = runs[r]
      BY <1>9, PostedRun DEF SubmitRaises
    <2>4. SoundCall(c)'
      BY <2>1, <2>2 DEF PlanningInductive, SoundCalls, SoundCall
    <2> QED
      BY <2>1, <2>2, <2>3, <2>4, OthersHold
  <1>18. CASE CommitPlan(c)
    <2>1. /\ Said \subseteq Said' /\ Acked' = Acked
          /\ \A d \in Callers \ {c} : calls'[d] = calls[d]
          /\ calls'[c].pc = "idle"
      BY <1>18, CommitPlanMoves
    <2>2. payload' = payload /\ runs' = runs
      BY <1>18 DEF CommitPlan
    <2>3. SoundCall(c)'
      BY <2>1 DEF SoundCall
    <2> QED
      BY <2>1, <2>2, <2>3, OthersHold
  <1> USE PlanningAssumption, Facts DEF
        PlanningInductive, storeVars, worldVars, Ack, SoundCall, SoundCalls, SoundRuns, SoundLedger,
        BeforeCreation
  <1>1. ASSUME NEW p \in Payloads, SubmitNew(c, p) PROVE SoundCalls'
    BY <1>1, SubmitNewMoves DEF SubmitNew, CreateWorkOrder, AfterCreation
  <1>2. ASSUME NEW p \in Payloads, SubmitReplay(c, p) PROVE SoundCalls'
    BY <1>2, SubmitReplayMoves DEF SubmitReplay, IsSameWorkOrder
  <1>3. CASE LookUpAcknowledgement(c)
    BY <1>3, LookUpAcknowledgementMoves DEF LookUpAcknowledgement, AfterCreation
  <1>5. CASE VerifyBundle(c)
    BY <1>5, VerifyBundleMoves DEF VerifyBundle
  <1>6. CASE RejectBundle(c)
    BY <1>6, RejectBundleMoves DEF RejectBundle
  <1>7. CASE EnsureRouted(c)
    BY <1>7, EnsureRoutedMoves DEF EnsureRouted
  <1>10. CASE SubmitRejected(c)
    BY <1>10, SubmitRejectedMoves DEF SubmitRejected
  <1>11. CASE RecordFailure(c)
    BY <1>11, RecordFailureMoves DEF RecordFailure
  <1>12. CASE RecordRejection(c)
    BY <1>12, RecordRejectionMoves DEF RecordRejection
  <1>13. CASE RecordAcknowledgement(c)
    BY <1>13, RecordAcknowledgementMoves DEF RecordAcknowledgement
  <1>14. CASE ReturnPlan(c)
    BY <1>14, ReturnPlanMoves DEF ReturnPlan
  <1>15. CASE PollRun(c)
    BY <1>15, PollRunMoves DEF PollRun
  <1>16. CASE CommitRunning(c)
    BY <1>16, CommitRunningMoves DEF CommitRunning
  <1>17. CASE CommitFailed(c)
    BY <1>17, CommitFailedMoves DEF CommitFailed
  <1>19. CASE FindPlan(c)
    BY <1>19, FindPlanMoves DEF FindPlan
  <1>20. CASE Ends(c) /\ UNCHANGED <<storeVars, answers, runs, worldVars>>
    BY <1>20, CallEnds, LogsNothing
  <1> QED
    BY <1>1, <1>2, <1>3, <1>4, <1>5, <1>6, <1>7, <1>8, <1>9, <1>10, <1>11, <1>12, <1>13,
       <1>14, <1>15, <1>16, <1>17, <1>18, <1>19, <1>20 DEF CallMoves, Submit, CallStep,
       RefreshStep

LEMMA CallRuns ==
    ASSUME PlanningInductive, NEW c \in Callers, CallMoves(c)
    PROVE  SoundRuns'
  <1> USE PlanningAssumption, Facts DEF
        PlanningInductive, storeVars, worldVars, Ack, SoundCall, SoundCalls, SoundRuns, BeforeCreation,
        OneRunWithoutParent, OnePlanningRun
  <1>1. ASSUME NEW p \in Payloads, SubmitNew(c, p) PROVE SoundRuns'
    BY <1>1, SubmitNewMoves DEF SubmitNew, CreateWorkOrder, AfterCreation
  <1>2. ASSUME NEW p \in Payloads, SubmitReplay(c, p) PROVE SoundRuns'
    BY <1>2, SubmitReplayMoves DEF SubmitReplay, IsSameWorkOrder
  <1>3. CASE LookUpAcknowledgement(c)
    BY <1>3, LookUpAcknowledgementMoves DEF LookUpAcknowledgement, AfterCreation
  <1>4. CASE RecordBundle(c)
    BY <1>4, RecordBundleMoves DEF RecordBundle
  <1>5. CASE VerifyBundle(c)
    BY <1>5, VerifyBundleMoves DEF VerifyBundle
  <1>6. CASE RejectBundle(c)
    BY <1>6, RejectBundleMoves DEF RejectBundle
  <1>7. CASE EnsureRouted(c)
    BY <1>7, EnsureRoutedMoves DEF EnsureRouted
  <1>8. CASE SubmitAccepted(c)
    BY <1>8, SubmitAcceptedMoves, PostedRun DEF SubmitAccepted, MustPost
  <1>9. CASE SubmitRaises(c)
    <2>1. /\ Said' = Said /\ payload' = payload /\ parent' = parent
      BY <1>9, SubmitRaisesMoves DEF SubmitRaises
    <2>2. CASE runs' = runs
      BY <2>1, <2>2
    <2>3. CASE MustPost /\ CanPost /\ Posts(c)
      <3>1. calls[c].pc = "submit" /\ calls[c].payload = payload
        BY <1>9 DEF SubmitRaises
      <3>2. \A r \in DOMAIN runs' : (r \in DOMAIN runs /\ runs'[r] = runs[r]) \/ r = Len(runs')
        BY <2>3, PostedRun
      <3>3. Len(runs') <= MaxRuns /\ runs'[Len(runs')].ours /\ runs'[Len(runs')].payload = payload
        BY <2>3, <3>1, PostedRun
      <3>4. parent = "none" => Len(runs') = 1
        BY <2>3, PostedRun DEF MustPost
      <3> QED
        BY <2>1, <3>2, <3>3, <3>4
    <2> QED
      BY <1>9, <2>2, <2>3 DEF SubmitRaises
  <1>10. CASE SubmitRejected(c)
    BY <1>10, SubmitRejectedMoves DEF SubmitRejected
  <1>11. CASE RecordFailure(c)
    BY <1>11, RecordFailureMoves DEF RecordFailure
  <1>12. CASE RecordRejection(c)
    BY <1>12, RecordRejectionMoves DEF RecordRejection
  <1>13. CASE RecordAcknowledgement(c)
    BY <1>13, RecordAcknowledgementMoves DEF RecordAcknowledgement
  <1>14. CASE ReturnPlan(c)
    BY <1>14, ReturnPlanMoves DEF ReturnPlan
  <1>15. CASE PollRun(c)
    BY <1>15, PollRunMoves DEF PollRun
  <1>16. CASE CommitRunning(c)
    BY <1>16, CommitRunningMoves DEF CommitRunning
  <1>17. CASE CommitFailed(c)
    BY <1>17, CommitFailedMoves DEF CommitFailed
  <1>18. CASE CommitPlan(c)
    <2>1. /\ calls[c].pc = "polled" /\ calls[c].outcome = "finished" /\ status' = "PLAN_READY"
          /\ answers' = answers \cup {[run |-> calls[c].run, payload |-> calls[c].payload]}
          /\ payload' = payload /\ runs' = runs /\ parent' = parent /\ bundle' = bundle
      BY <1>18 DEF CommitPlan, Answers
    <2> QED
      BY <1>18, <2>1, CommitPlanMoves
  <1>19. CASE FindPlan(c)
    BY <1>19, FindPlanMoves DEF FindPlan
  <1>20. CASE Ends(c) /\ UNCHANGED <<storeVars, answers, runs, worldVars>>
    BY <1>20, CallEnds, LogsNothing
  <1> QED
    BY <1>1, <1>2, <1>3, <1>4, <1>5, <1>6, <1>7, <1>8, <1>9, <1>10, <1>11, <1>12, <1>13,
       <1>14, <1>15, <1>16, <1>17, <1>18, <1>19, <1>20 DEF CallMoves, Submit, CallStep,
       RefreshStep

LEMMA CallLedger ==
    ASSUME PlanningInductive, NEW c \in Callers, CallMoves(c)
    PROVE  SoundLedger'
  <1> USE PlanningAssumption, Facts DEF
        PlanningInductive, storeVars, worldVars, Ack, SoundCall, SoundCalls, SoundLedger
  <1>1. ASSUME NEW p \in Payloads, SubmitNew(c, p) PROVE SoundLedger'
    BY <1>1, SubmitNewMoves DEF SubmitNew, CreateWorkOrder, AfterCreation
  <1>2. ASSUME NEW p \in Payloads, SubmitReplay(c, p) PROVE SoundLedger'
    BY <1>2, SubmitReplayMoves DEF SubmitReplay, IsSameWorkOrder
  <1>3. CASE LookUpAcknowledgement(c)
    BY <1>3, LookUpAcknowledgementMoves DEF LookUpAcknowledgement, AfterCreation
  <1>4. CASE RecordBundle(c)
    BY <1>4, RecordBundleMoves DEF RecordBundle
  <1>5. CASE VerifyBundle(c)
    BY <1>5, VerifyBundleMoves DEF VerifyBundle
  <1>6. CASE RejectBundle(c)
    BY <1>6, RejectBundleMoves DEF RejectBundle
  <1>7. CASE EnsureRouted(c)
    BY <1>7, EnsureRoutedMoves DEF EnsureRouted
  <1>8. CASE SubmitAccepted(c)
    BY <1>8, SubmitAcceptedMoves, PostedRun DEF SubmitAccepted, MustPost
  <1>9. CASE SubmitRaises(c)
    BY <1>9, SubmitRaisesMoves, PostedRun DEF SubmitRaises, MustPost
  <1>10. CASE SubmitRejected(c)
    BY <1>10, SubmitRejectedMoves DEF SubmitRejected
  <1>11. CASE RecordFailure(c)
    BY <1>11, RecordFailureMoves DEF RecordFailure
  <1>12. CASE RecordRejection(c)
    BY <1>12, RecordRejectionMoves DEF RecordRejection
  <1>13. CASE RecordAcknowledgement(c)
    BY <1>13, RecordAcknowledgementMoves DEF RecordAcknowledgement
  <1>14. CASE ReturnPlan(c)
    BY <1>14, ReturnPlanMoves DEF ReturnPlan
  <1>15. CASE PollRun(c)
    BY <1>15, PollRunMoves DEF PollRun
  <1>16. CASE CommitRunning(c)
    BY <1>16, CommitRunningMoves DEF CommitRunning
  <1>17. CASE CommitFailed(c)
    BY <1>17, CommitFailedMoves DEF CommitFailed
  <1>18. CASE CommitPlan(c)
    <2>1. /\ calls[c].pc = "polled" /\ calls[c].outcome = "finished" /\ status' = "PLAN_READY"
          /\ answers' = answers \cup {[run |-> calls[c].run, payload |-> calls[c].payload]}
          /\ payload' = payload /\ runs' = runs /\ parent' = parent /\ bundle' = bundle
      BY <1>18 DEF CommitPlan, Answers
    <2> QED
      BY <1>18, <2>1, CommitPlanMoves
  <1>19. CASE FindPlan(c)
    BY <1>19, FindPlanMoves DEF FindPlan
  <1>20. CASE Ends(c) /\ UNCHANGED <<storeVars, answers, runs, worldVars>>
    BY <1>20, CallEnds, LogsNothing
  <1> QED
    BY <1>1, <1>2, <1>3, <1>4, <1>5, <1>6, <1>7, <1>8, <1>9, <1>10, <1>11, <1>12, <1>13,
       <1>14, <1>15, <1>16, <1>17, <1>18, <1>19, <1>20 DEF CallMoves, Submit, CallStep,
       RefreshStep

LEMMA CallAnswers ==
    ASSUME PlanningInductive, NEW c \in Callers, CallMoves(c)
    PROVE  SoundAnswers'
  <1> USE PlanningAssumption, Facts DEF
        PlanningInductive, storeVars, worldVars, Ack, SoundCall, SoundCalls, SoundLedger, SoundAnswers,
        BeforeCreation
  <1>1. ASSUME NEW p \in Payloads, SubmitNew(c, p) PROVE SoundAnswers'
    BY <1>1, SubmitNewMoves DEF SubmitNew, CreateWorkOrder, AfterCreation
  <1>2. ASSUME NEW p \in Payloads, SubmitReplay(c, p) PROVE SoundAnswers'
    BY <1>2, SubmitReplayMoves DEF SubmitReplay, IsSameWorkOrder
  <1>3. CASE LookUpAcknowledgement(c)
    BY <1>3, LookUpAcknowledgementMoves DEF LookUpAcknowledgement, AfterCreation, Answers
  <1>4. CASE RecordBundle(c)
    BY <1>4, RecordBundleMoves DEF RecordBundle
  <1>5. CASE VerifyBundle(c)
    BY <1>5, VerifyBundleMoves DEF VerifyBundle
  <1>6. CASE RejectBundle(c)
    BY <1>6, RejectBundleMoves DEF RejectBundle
  <1>7. CASE EnsureRouted(c)
    BY <1>7, EnsureRoutedMoves DEF EnsureRouted
  <1>8. CASE SubmitAccepted(c)
    BY <1>8, SubmitAcceptedMoves, PostedRun DEF SubmitAccepted, MustPost
  <1>9. CASE SubmitRaises(c)
    BY <1>9, SubmitRaisesMoves, PostedRun DEF SubmitRaises, MustPost
  <1>10. CASE SubmitRejected(c)
    BY <1>10, SubmitRejectedMoves DEF SubmitRejected
  <1>11. CASE RecordFailure(c)
    BY <1>11, RecordFailureMoves DEF RecordFailure
  <1>12. CASE RecordRejection(c)
    BY <1>12, RecordRejectionMoves DEF RecordRejection
  <1>13. CASE RecordAcknowledgement(c)
    BY <1>13, RecordAcknowledgementMoves DEF RecordAcknowledgement, Answers
  <1>14. CASE ReturnPlan(c)
    BY <1>14, ReturnPlanMoves DEF ReturnPlan
  <1>15. CASE PollRun(c)
    BY <1>15, PollRunMoves DEF PollRun
  <1>16. CASE CommitRunning(c)
    BY <1>16, CommitRunningMoves DEF CommitRunning
  <1>17. CASE CommitFailed(c)
    BY <1>17, CommitFailedMoves DEF CommitFailed
  <1>18. CASE CommitPlan(c)
    <2>1. /\ calls[c].pc = "polled" /\ calls[c].outcome = "finished" /\ status' = "PLAN_READY"
          /\ answers' = answers \cup {[run |-> calls[c].run, payload |-> calls[c].payload]}
          /\ payload' = payload /\ runs' = runs /\ parent' = parent /\ bundle' = bundle
      BY <1>18 DEF CommitPlan, Answers
    <2> QED
      BY <1>18, <2>1, CommitPlanMoves
  <1>19. CASE FindPlan(c)
    BY <1>19, FindPlanMoves DEF FindPlan, Answers
  <1>20. CASE Ends(c) /\ UNCHANGED <<storeVars, answers, runs, worldVars>>
    BY <1>20, CallEnds, LogsNothing
  <1> QED
    BY <1>1, <1>2, <1>3, <1>4, <1>5, <1>6, <1>7, <1>8, <1>9, <1>10, <1>11, <1>12, <1>13,
       <1>14, <1>15, <1>16, <1>17, <1>18, <1>19, <1>20 DEF CallMoves, Submit, CallStep,
       RefreshStep

LEMMA CallKeeps ==
    ASSUME PlanningInductive, NEW c \in Callers, CallMoves(c)
    PROVE  PlanningInductive'
  <1>1. LoggedOnce'
    <2> USE Facts DEF storeVars
    <2>1. CASE \/ \E p \in Payloads : SubmitNew(c, p) \/ SubmitReplay(c, p)
               \/ LookUpAcknowledgement(c) \/ RecordBundle(c) \/ VerifyBundle(c)
               \/ RejectBundle(c) \/ EnsureRouted(c)
      BY <2>1, SubmitNewMoves, SubmitReplayMoves, LookUpAcknowledgementMoves, RecordBundleMoves,
         VerifyBundleMoves, RejectBundleMoves, EnsureRoutedMoves
    <2>2. CASE \/ SubmitAccepted(c) \/ SubmitRaises(c) \/ SubmitRejected(c)
               \/ RecordFailure(c) \/ RecordRejection(c) \/ RecordAcknowledgement(c)
      BY <2>2, SubmitAcceptedMoves, SubmitRaisesMoves, SubmitRejectedMoves,
         RecordFailureMoves, RecordRejectionMoves, RecordAcknowledgementMoves
    <2>3. CASE RefreshStep(c)
      BY <2>3, PollRunMoves, ReturnPlanMoves, CommitRunningMoves, CommitFailedMoves,
         CommitPlanMoves, FindPlanMoves DEF RefreshStep
    <2>4. CASE Ends(c) /\ UNCHANGED <<storeVars, answers, runs, worldVars>>
      BY <2>4, LogsNothing
    <2> QED
      BY <2>1, <2>2, <2>3, <2>4 DEF CallMoves, Submit, CallStep
  <1> QED
    BY <1>1, CallTypes, CallCreation, CallHeld, CallRuns, CallLedger, CallAnswers
       DEF PlanningInductive

\* The world moves, or nothing does.
LEMMA WorldKeeps ==
    ASSUME PlanningInductive, WorldStep \/ UNCHANGED <<storeVars, calls, answers, runs, worldVars>>,
           submissions' = submissions, crashes' = crashes
    PROVE  PlanningInductive'
  <1> USE DEF storeVars, worldVars
  <1>1. /\ UNCHANGED <<status, payload, ledger, calls, answers>>
        /\ ledger' \in Seq(Entries) /\ LoggedOnce'
        /\ Said' = Said /\ Acked' = Acked /\ Planned' = Planned
    <2>1. UNCHANGED <<status, payload, ledger, calls, answers>>
      BY DEF WorldStep, RunEnds, ChildPosts, ParentAcknowledged, ArtifactChanges
    <2> QED
      BY <2>1, Facts, LogsNothing
  <1> DEFINE R == [ours : BOOLEAN, payload : Payloads \cup {None},
                   outcome : {"running"} \cup Endings]
  <1>2. runs \in Seq(R)
    BY DEF PlanningInductive, PlanningTypeOK
  <1>3. /\ parent' \in {"none", "waiting", "acknowledged"} /\ bundle' \in {"none", "intact", "changed"}
        /\ parent' = "none" => parent = "none"
    BY DEF WorldStep, RunEnds, ChildPosts, ParentAcknowledged, ArtifactChanges,
       PlanningInductive, PlanningTypeOK
  \* A run of another work order may come, and a run may end, but not otherwise than it did.
  <1>4. /\ runs' \in Seq(R) /\ Len(runs') \in Nat /\ Len(runs') <= MaxRuns
        /\ DOMAIN runs \subseteq DOMAIN runs' /\ DOMAIN runs' = 1..Len(runs')
        /\ \A r \in DOMAIN runs :
              /\ runs'[r].ours = runs[r].ours /\ runs'[r].payload = runs[r].payload
              /\ runs[r].outcome # "running" => runs'[r].outcome = runs[r].outcome
        /\ \A r \in DOMAIN runs' \ DOMAIN runs : ~runs'[r].ours /\ Ack \in Said
    <2>1. CASE \E r \in DOMAIN runs : RunEnds(r)
      <3>1. PICK r \in DOMAIN runs, outcome \in Endings :
               /\ runs[r].outcome = "running"
               /\ runs' = [runs EXCEPT ![r].outcome = outcome]
        BY <2>1 DEF RunEnds
      <3>2. runs[r] \in R /\ [runs[r] EXCEPT !.outcome = outcome] \in R
        <4>1. runs[r] \in R
          <5> HIDE DEF R
          <5> QED
            BY <1>2
        <4> QED
          BY <3>1, <4>1
      <3> DEFINE ended == [runs[r] EXCEPT !.outcome = outcome]
      <3>3. ended.ours = runs[r].ours /\ ended.payload = runs[r].payload
        BY <3>2
      <3>4. runs' = [runs EXCEPT ![r] = ended]
        BY <3>1
      <3>5. ended \in R
        BY <3>2
      <3> HIDE DEF R, ended
      <3>6. /\ runs' \in Seq(R) /\ Len(runs') = Len(runs) /\ DOMAIN runs' = DOMAIN runs
            /\ runs'[r] = ended /\ \A q \in DOMAIN runs \ {r} : runs'[q] = runs[q]
        BY <1>2, <3>4, <3>5
      <3> QED
        BY <3>1, <3>3, <3>6, Facts DEF PlanningInductive, SoundRuns
    <2>2. CASE ChildPosts
      <3> DEFINE run == [ours |-> FALSE, payload |-> None, outcome |-> "running"]
      <3>1. run \in R /\ run.ours = FALSE
        OBVIOUS
      <3>2. runs' = Append(runs, run) /\ Len(runs) < MaxRuns /\ Ack \in Said
        BY <2>2, Facts DEF ChildPosts, Ack
      <3> HIDE DEF R, run
      <3>3. /\ runs' \in Seq(R) /\ Len(runs') = Len(runs) + 1 /\ Len(runs) \in Nat
            /\ DOMAIN runs' = DOMAIN runs \cup {Len(runs')}
            /\ \A r \in DOMAIN runs : runs'[r] = runs[r]
            /\ runs'[Len(runs')] = run
        BY <1>2, <3>1, <3>2
      <3>4. Len(runs') <= MaxRuns /\ DOMAIN runs' = 1..Len(runs')
        <4>1. MaxRuns \in Nat
          BY PlanningAssumption
        <4>2. Len(runs') \in Nat /\ DOMAIN runs' = 1..Len(runs')
          BY <3>3
        <4> QED
          BY <3>2, <3>3, <4>1, <4>2
      <3> QED
        BY <3>1, <3>2, <3>3, <3>4
    <2>3. CASE runs' = runs
      BY <1>2, <2>3, Facts DEF PlanningInductive, SoundRuns
    <2> QED
      BY <2>1, <2>2, <2>3 DEF WorldStep, ParentAcknowledged, ArtifactChanges
  <1>5. PlanningTypeOK'
    BY <1>1, <1>3, <1>4 DEF PlanningInductive, PlanningTypeOK
  <1> HIDE DEF R
  <1> USE Facts DEF PlanningInductive
  <1>6. BeforeCreation'
    BY <1>1, <1>4 DEF BeforeCreation
  <1>7. SoundCalls'
    BY <1>1, <1>4 DEF SoundCall, SoundCalls, SoundLedger
  <1>8. SoundRuns'
    BY <1>1, <1>3, <1>4 DEF SoundRuns, OneRunWithoutParent, OnePlanningRun
  <1>9. SoundLedger'
    BY <1>1, <1>4 DEF SoundLedger
  <1>10. SoundAnswers'
    BY <1>1 DEF SoundAnswers
  <1> QED
    BY <1>1, <1>5, <1>6, <1>7, <1>8, <1>9, <1>10
-------------------------------------------------------------------------------
LEMMA StepIsOneOf ==
    ASSUME PlanningInductive, [PlanningNext]_planningVars
    PROVE  \/ \E c \in Callers : CallMoves(c)
           \/ /\ WorldStep \/ UNCHANGED <<storeVars, calls, answers, runs, worldVars>>
              /\ submissions' = submissions /\ crashes' = crashes
  <1> USE DEF PlanningInductive, PlanningTypeOK
  <1>1. submissions \in 0..MaxCalls /\ crashes \in 0..MaxCrashes /\ MaxCalls \in Nat /\ MaxCrashes \in Nat
    BY PlanningAssumption
  <1>2. ASSUME NEW c \in Callers, Submit(c), UNCHANGED crashes PROVE CallMoves(c)
    <2>1. submissions' = submissions + 1 /\ submissions < MaxCalls
      BY <1>2 DEF Submit, SubmitNew, CreateWorkOrder, SubmitReplay
    <2>2. submissions' \in 0..MaxCalls
      BY <1>1, <2>1
    <2> QED
      BY <1>1, <1>2, <2>2 DEF CallMoves
  <1>3. ASSUME NEW c \in Callers, CallStep(c) \/ RefreshStep(c), UNCHANGED <<submissions, crashes>>
        PROVE  CallMoves(c)
    BY <1>1, <1>3 DEF CallMoves
  <1>4. ASSUME NEW c \in Callers, Crash(c) PROVE CallMoves(c)
    <2>1. crashes' \in 0..MaxCrashes /\ submissions' = submissions
      BY <1>1, <1>4 DEF Crash
    <2> QED
      BY <1>1, <1>4, <2>1 DEF CallMoves, Crash
  <1> QED
    BY <1>2, <1>3, <1>4 DEF PlanningNext, planningVars, storeVars, worldVars

LEMMA InitHolds == PlanningInit => PlanningInductive
  <1> SUFFICES ASSUME PlanningInit PROVE PlanningInductive
    OBVIOUS
  <1> USE DEF PlanningInit
  <1>1. PlanningTypeOK
    <2>1. Idle \in Calls
      BY DEF Idle, Call, Calls, Steps
    <2>2. 0 \in 0..MaxCalls /\ 0 \in 0..MaxCrashes
      BY PlanningAssumption
    <2>3. calls \in [Callers -> Calls]
      BY <2>1
    <2> QED
      BY <2>2, <2>3 DEF PlanningTypeOK
  <1>2. Said = {} /\ Acked = {} /\ Planned = {} /\ DOMAIN ledger = {} /\ DOMAIN runs = {} /\ Len(runs) = 0
    BY DEF Said, Acked, Planned, RunsOf
  <1>3. \A c \in Callers : calls[c].pc = "idle"
    BY DEF Idle, Call
  <1>4. LoggedOnce /\ BeforeCreation /\ SoundCalls /\ SoundAnswers
    BY <1>2, <1>3 DEF LoggedOnce, BeforeCreation, SoundCall, SoundCalls, SoundAnswers
  <1>5. SoundRuns
    BY <1>2, PlanningAssumption DEF SoundRuns, OneRunWithoutParent, OnePlanningRun
  <1>6. SoundLedger
    BY <1>2, PlanningAssumption DEF SoundLedger, Statuses
  <1> QED
    BY <1>1, <1>4, <1>5, <1>6 DEF PlanningInductive

\* The invariant the theorems rest on, for every step of any number of calls.
THEOREM PlanningInvariant == PlanningSpec => []PlanningInductive
  <1>1. PlanningInductive /\ [PlanningNext]_planningVars => PlanningInductive'
    BY StepIsOneOf, CallKeeps, WorldKeeps
  <1> QED
    BY <1>1, InitHolds, PTL DEF PlanningSpec

\* Every variable keeps its type.
THEOREM PlanningTypes == PlanningSpec => []PlanningTypeOK
  BY PlanningInvariant, PTL DEF PlanningInductive

\* However many calls race, retry and die, no receipt is logged twice.
THEOREM ReceiptsAreLoggedOnce == PlanningSpec => []LoggedOnce
  BY PlanningInvariant, PTL DEF PlanningInductive

\* A work order without a parent never starts a second planning run.
THEOREM RootRunsOnce == PlanningSpec => []OneRunWithoutParent
  BY PlanningInvariant, PTL DEF PlanningInductive, SoundRuns

\* Every answer names the acknowledged run, and was given for what the work order stores.
THEOREM EveryAnswerAgrees == PlanningSpec => []AnswersAgree
  <1>1. PlanningInductive => AnswersAgree
    <2> SUFFICES ASSUME PlanningInductive, NEW a \in answers
                 PROVE  /\ Logged("executor.acknowledged")
                        /\ a.run = AckedRun /\ a.payload = payload
      BY DEF AnswersAgree
    <2>1. a.run \in Acked /\ a.payload = payload /\ Ack \in Said
      BY DEF PlanningInductive, SoundAnswers, SoundLedger
    <2>2. Acked = {AckedRun}
      BY <2>1, Facts, SaidIsLogged DEF Acked, AckedRun, Ack, Repeatable
    <2> QED
      BY <2>1, <2>2, Facts DEF Ack
  <1> QED
    BY <1>1, PlanningInvariant, PTL

\* The plan is that of the acknowledged run, which works on what the work order stores.
THEOREM PlanIsAlwaysOwn == PlanningSpec => []PlanIsOfOwnRun
  <1>1. PlanningInductive => PlanIsOfOwnRun
    <2> SUFFICES ASSUME PlanningInductive, NEW i \in DOMAIN ledger,
                        ledger[i].event \in {"executor.acknowledged", "plan.received"}
                 PROVE  /\ ledger[i].run \in DOMAIN runs
                        /\ runs[ledger[i].run].ours /\ runs[ledger[i].run].payload = payload
                        /\ ledger[i].event = "plan.received" =>
                              /\ ledger[i].run = AckedRun
                              /\ runs[ledger[i].run].outcome = "finished"
      BY DEF PlanIsOfOwnRun
    <2>1. /\ ledger[i].event = "plan.received" => ledger[i].run \in Planned
          /\ ledger[i].run \in Acked
      <3>1. ledger[i].event = "plan.received" => ledger[i].run \in Planned
        BY DEF Planned, RunsOf
      <3>2. ledger[i].event = Ack => ledger[i].run \in Acked
        BY DEF Acked, RunsOf
      <3> QED
        BY <3>1, <3>2, Facts DEF Ack
    <2>2. Acked = {AckedRun}
      BY <2>1, Facts, SaidIsLogged
         DEF Acked, AckedRun, Ack, Repeatable, PlanningInductive, SoundLedger
    <2> QED
      BY <2>1, <2>2 DEF PlanningInductive, SoundLedger, SoundRuns
  <1> QED
    BY <1>1, PlanningInvariant, PTL

\* Nothing takes a plan back, except a rejection that was on its way.
THEOREM ReadyPlansStay == PlanningSpec => PlanStaysReady
  <1>1. PlanningInductive /\ [PlanningNext]_planningVars =>
           [/\ status = "PLAN_READY"
            /\ \A c \in Callers : calls[c].pc # "rejected"
            => status' = "PLAN_READY"]_planningVars
    <2> SUFFICES ASSUME PlanningInductive, [PlanningNext]_planningVars, status = "PLAN_READY",
                        \A c \in Callers : calls[c].pc # "rejected"
                 PROVE  status' = "PLAN_READY"
      OBVIOUS
    <2>1. /\ Ack \in Said /\ "work_order.routed" \in Said /\ "plan.available" \in Said
          /\ "PLAN_READY" # None
      BY PlanningAssumption DEF PlanningInductive, SoundLedger, Statuses
    <2>2. ASSUME NEW c \in Callers, CallMoves(c) PROVE status' = "PLAN_READY"
      <3> USE <2>1, Facts DEF storeVars, Ack
      <3>1. CASE Submit(c)
        BY <3>1 DEF Submit, SubmitNew, CreateWorkOrder, SubmitReplay
      <3>2. CASE \/ LookUpAcknowledgement(c) \/ RecordBundle(c) \/ VerifyBundle(c)
                 \/ RejectBundle(c) \/ EnsureRouted(c)
        BY <3>2 DEF LookUpAcknowledgement, RecordBundle, VerifyBundle, RejectBundle,
           EnsureRouted, ReroutedFrom
      <3>3. CASE \/ SubmitAccepted(c) \/ SubmitRaises(c) \/ SubmitRejected(c)
                 \/ RecordFailure(c) \/ RecordRejection(c) \/ RecordAcknowledgement(c)
        BY <3>3 DEF SubmitAccepted, SubmitRaises, SubmitRejected, RecordFailure,
           RecordRejection, RecordAcknowledgement, IsFirstAcknowledgement
      <3>4. CASE RefreshStep(c)
        BY <3>4 DEF RefreshStep, PollRun, ReturnPlan, CommitRunning, CommitFailed, CommitPlan,
           FindPlan
      <3>5. CASE Ends(c) /\ UNCHANGED <<storeVars, answers, runs, worldVars>>
        BY <3>5
      <3> QED
        BY <2>2, <3>1, <3>2, <3>3, <3>4, <3>5 DEF CallMoves, CallStep
    <2>3. ASSUME WorldStep \/ UNCHANGED <<storeVars, calls, answers, runs, worldVars>>
          PROVE  status' = "PLAN_READY"
      BY <2>3 DEF WorldStep, RunEnds, ChildPosts, ParentAcknowledged, ArtifactChanges, storeVars
    <2> QED
      BY <2>2, <2>3, StepIsOneOf
  <1> QED
    BY <1>1, PlanningInvariant, PTL DEF PlanningSpec, PlanStaysReady
-------------------------------------------------------------------------------
\* The refinement: what the hand-off sees of a step.
OneAcknowledged ==
    /\ Logged(Ack) <=> Acked # {}
    /\ Logged(Ack) => Acked = {AckedRun} /\ AckedRun \in RunIds
    /\ \A a \in answers : a.run \in Acked

LEMMA OneIsAcknowledged == PlanningInductive => OneAcknowledged
  <1> SUFFICES ASSUME PlanningInductive PROVE OneAcknowledged
    OBVIOUS
  <1>1. Logged(Ack) => Acked = {AckedRun}
    BY Facts, SaidIsLogged DEF Acked, AckedRun, Ack, Repeatable
  <1>2. Acked # {} => Logged(Ack)
    BY Facts DEF PlanningInductive, SoundLedger
  <1>3. Acked \subseteq RunIds /\ \A a \in answers : a.run \in Acked
    BY Facts DEF PlanningInductive, SoundAnswers
  <1> QED
    BY <1>1, <1>2, <1>3 DEF OneAcknowledged

\* Nothing that was logged or answered is taken back.
LEMMA NothingIsForgotten ==
    ASSUME PlanningInductive, [PlanningNext]_planningVars
    PROVE  Acked \subseteq Acked' /\ answers \subseteq answers'
  <1>1. ASSUME NEW c \in Callers, CallMoves(c) PROVE Acked \subseteq Acked' /\ answers \subseteq answers'
    <2> USE Facts DEF storeVars, Answers
    <2>1. CASE \/ \E p \in Payloads : SubmitNew(c, p) \/ SubmitReplay(c, p)
      BY <2>1, SubmitNewMoves, SubmitReplayMoves DEF SubmitNew, CreateWorkOrder, SubmitReplay
    <2>2. CASE \/ LookUpAcknowledgement(c) \/ RecordBundle(c) \/ VerifyBundle(c)
               \/ RejectBundle(c) \/ EnsureRouted(c)
      <3>1. Acked \subseteq Acked'
        BY <2>2, LookUpAcknowledgementMoves, RecordBundleMoves, VerifyBundleMoves,
           RejectBundleMoves, EnsureRoutedMoves
      <3>2. answers \subseteq answers'
        BY <2>2 DEF LookUpAcknowledgement, RecordBundle, VerifyBundle, RejectBundle, EnsureRouted
      <3> QED
        BY <3>1, <3>2
    <2>3. CASE \/ SubmitAccepted(c) \/ SubmitRaises(c) \/ SubmitRejected(c)
               \/ RecordFailure(c) \/ RecordRejection(c) \/ RecordAcknowledgement(c)
      <3>1. Acked \subseteq Acked'
        BY <2>3, SubmitAcceptedMoves, SubmitRaisesMoves, SubmitRejectedMoves, RecordFailureMoves,
           RecordRejectionMoves, RecordAcknowledgementMoves
      <3>2. answers \subseteq answers'
        BY <2>3 DEF SubmitAccepted, SubmitRaises, SubmitRejected, RecordFailure, RecordRejection,
           RecordAcknowledgement
      <3> QED
        BY <3>1, <3>2
    <2>4. CASE RefreshStep(c)
      <3>1. Acked \subseteq Acked'
        BY <2>4, PollRunMoves, ReturnPlanMoves, CommitRunningMoves, CommitFailedMoves,
           CommitPlanMoves, FindPlanMoves DEF RefreshStep
      <3>2. answers \subseteq answers'
        BY <2>4 DEF RefreshStep, PollRun, ReturnPlan, CommitRunning, CommitFailed, CommitPlan,
           FindPlan
      <3> QED
        BY <3>1, <3>2
    <2>5. CASE Ends(c) /\ UNCHANGED <<storeVars, answers, runs, worldVars>>
      BY <2>5, LogsNothing
    <2> QED
      BY <1>1, <2>1, <2>2, <2>3, <2>4, <2>5 DEF CallMoves, Submit, CallStep
  <1>2. ASSUME WorldStep \/ UNCHANGED <<storeVars, calls, answers, runs, worldVars>>
        PROVE  Acked \subseteq Acked' /\ answers \subseteq answers'
    <2>1. UNCHANGED <<status, payload, ledger, answers>>
      BY <1>2 DEF WorldStep, RunEnds, ChildPosts, ParentAcknowledged, ArtifactChanges, storeVars
    <2> QED
      BY <2>1, Facts, LogsNothing
  <1> QED
    BY <1>1, <1>2, StepIsOneOf

\* Planning implements the hand-off: the first acknowledgement binds the job, whatever is
\* answered is told, and every other step is a stutter.
THEOREM PlanningIsHandedOff == PlanningSpec => PlanningIsAHandOff
  <1> DEFINE bound == [j \in {"planning"} |-> IF Logged("executor.acknowledged") THEN AckedRun ELSE None]
             told == [j \in {"planning"} |-> {a.run : a \in answers}]
  <1>1. PlanningInit => Plan!Init
    BY DEF PlanningInit, Plan!Init, Logged
  <1>2. ASSUME PlanningInductive, OneAcknowledged, OneAcknowledged', [PlanningNext]_planningVars
        PROVE  [Plan!Next]_(Plan!handOffVars)
    <2> DEFINE Named == {a.run : a \in answers}
    <2>1. /\ Acked \subseteq Acked' /\ Named \subseteq Named'
          /\ Named \subseteq Acked /\ Named' \subseteq Acked'
      BY <1>2, NothingIsForgotten DEF OneAcknowledged
    <2>2. /\ Logged(Ack) <=> Acked # {}
          /\ Logged(Ack) => Acked = {AckedRun} /\ AckedRun \in RunIds
          /\ Logged(Ack)' <=> Acked' # {}
          /\ Logged(Ack)' => Acked' = {AckedRun'} /\ AckedRun' \in RunIds
      BY <1>2 DEF OneAcknowledged
    <2>3. CASE ~Logged(Ack)'
      <3>1. ~Logged(Ack) /\ Named = {} /\ Named' = {}
        BY <2>1, <2>2, <2>3
      <3> QED
        BY <2>3, <3>1 DEF Plan!handOffVars, Ack
    <2>4. CASE Logged(Ack)'
      <3>1. bound'["planning"] = AckedRun' /\ AckedRun' \in RunIds
        BY <2>2, <2>4 DEF Ack
      <3>2. Named' = Named \/ Named' = Named \cup {AckedRun'}
        BY <2>1, <2>2, <2>4
      <3>3. bound' = bound \/ (bound["planning"] = None /\ bound' = [bound EXCEPT !["planning"] = AckedRun'])
        <4>1. CASE Logged(Ack)
          BY <2>1, <2>2, <2>4, <4>1 DEF Ack
        <4>2. CASE ~Logged(Ack)
          BY <3>1, <4>2, <2>4 DEF Ack
        <4> QED
          BY <4>1, <4>2
      <3>4. told' = told \/ told' = [told EXCEPT !["planning"] = @ \cup {bound'["planning"]}]
        BY <3>1, <3>2
      <3>5. bound' = bound \/ Plan!Bind("planning", AckedRun')
        BY <3>3 DEF Plan!Bind
      <3>6. told' = told \/ Plan!Tell("planning")
        BY <3>1, <3>4 DEF Plan!Tell
      <3> QED
        BY <3>1, <3>5, <3>6 DEF Plan!Next, Plan!handOffVars
    <2> QED
      BY <2>3, <2>4
  <1> QED
    BY <1>1, <1>2, OneIsAcknowledged, PlanningInvariant, PTL DEF PlanningSpec, PlanningIsAHandOff, Plan!Spec

===============================================================================

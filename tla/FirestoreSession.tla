--------------------------- MODULE FirestoreSession ---------------------------
(***************************************************************************)
(* One work order in the Firestore store, and the sessions of several      *)
(* processes on it (FirestoreStateStore, _FirestoreWorkOrderSession).      *)
(*                                                                         *)
(* lock_work_order locks within a process; the deployment runs up to two   *)
(* (deploy/gcp_deploy.sh:61).  A session reads its documents one by one,   *)
(* works on what it read, and commits in one transaction, which compares   *)
(* the sequence of the ledger and nothing else.                            *)
(*                                                                         *)
(* Sessions are numbered; a written value is the number of its writer.     *)
(***************************************************************************)
EXTENDS Naturals, FiniteSets

CONSTANTS
    Processes,    \* instances of the service
    MaxSessions,  \* bound on the sessions that are opened
    MaxClaims     \* bound on the claims of the execution lease

ASSUME FirestoreAssumption == {MaxSessions, MaxClaims} \subseteq Nat

VARIABLES
    order,      \* the work order's document: who set its status, its ledger sequence
    ledger,     \* the documents of its ledger
    lifecycle,  \* who wrote the snapshot document
    dispatch,   \* its execution dispatch: the attempts counted, acknowledged or not
    sessions,   \* the session of each process: where it is, and what it read
    promised,   \* ledger entries of sessions whose caller was told that all is stored
    opened,     \* sessions opened so far
    claims,     \* leases claimed so far
    posts,      \* claims that went on to post a run
    lapsed      \* a receipt was stored with a record read before a claim

firestoreVars ==
    <<order, ledger, lifecycle, dispatch, sessions, promised, opened, claims, posts, lapsed>>

\* What the service's sessions write: a packet, decision or broker event; a step of the
\* planning dispatch; the plan of its run; a receipt; the way back to ROUTED; what the
\* provider answered, on the execution dispatch; the receipt of a report, on the same.
Kinds == {"transition", "planning", "plan", "receipt", "reroute", "update", "remember"}

Appends(kind) ==
    CASE kind = "plan" -> 2
      [] kind \in {"transition", "planning", "receipt"} -> 1
      [] OTHER -> 0

SetsStatus(kind) == kind \in {"transition", "planning", "plan", "reroute"}

Steps == {"idle", "ledger", "lifecycle", "dispatch", "commit"}

Numbers == 0..MaxSessions
Entries == [sequence : Nat, by : Numbers]
Dispatches == [attempts : Nat, acknowledged : BOOLEAN]

Sessions ==
    [pc : Steps, kind : Kinds, by : Numbers, status : Numbers, base : Nat, lifecycle : Numbers,
     dispatch : Dispatches]

NewDispatch == [attempts |-> 0, acknowledged |-> FALSE]

NoSession ==
    [pc |-> "idle", kind |-> "receipt", by |-> 0, status |-> 0, base |-> 0, lifecycle |-> 0,
     dispatch |-> NewDispatch]

FirestoreTypeOK ==
    /\ order \in [status : Numbers, sequence : Nat]
    /\ ledger \subseteq Entries /\ promised \subseteq Entries
    /\ lifecycle \in Numbers
    /\ dispatch \in Dispatches
    /\ sessions \in [Processes -> Sessions]
    /\ opened \in Numbers /\ claims \in 0..MaxClaims /\ posts \in Nat /\ lapsed \in BOOLEAN

\* create_work_order, and what comes before its dispatch was written, as number 0.
FirestoreInit ==
    /\ order = [status |-> 0, sequence |-> 1]
    /\ ledger = {[sequence |-> 1, by |-> 0]}
    /\ lifecycle = 0
    /\ dispatch = NewDispatch
    /\ sessions = [p \in Processes |-> NoSession]
    /\ promised = ledger
    /\ opened = 0 /\ claims = 0 /\ posts = 0 /\ lapsed = FALSE
-------------------------------------------------------------------------------
storeVars == <<order, ledger, lifecycle, dispatch>>
claimVars == <<claims, posts, lapsed>>

Reads(p, session) ==
    /\ sessions' = [sessions EXCEPT ![p] = session]
    /\ UNCHANGED <<storeVars, promised, claimVars>>

\* Mutant of MayUpdate: a record is prepared before the lease is claimed.
MayUpdateUnclaimed == TRUE

\* The answers of the provider are stored by whoever claimed the lease before.  A receipt
\* is remembered on the latest dispatch, claimed or not: the one the report was about may
\* be of an earlier attempt.
MayUpdate == claims > 0

\* lock_work_order reads the work order ...
Open(p, kind) ==
    /\ sessions[p].pc = "idle" /\ opened < MaxSessions
    /\ kind = "update" => MayUpdate
    /\ opened' = opened + 1
    /\ Reads(p, [NoSession EXCEPT !.pc = "ledger", !.kind = kind, !.by = opened + 1,
                                  !.status = order.status])

\* ... then the ledger ...
ReadLedger(p) ==
    /\ sessions[p].pc = "ledger"
    /\ Reads(p, [sessions[p] EXCEPT !.pc = "lifecycle", !.base = order.sequence])
    /\ UNCHANGED opened

\* ... then the snapshot ...
ReadLifecycle(p) ==
    /\ sessions[p].pc = "lifecycle"
    /\ Reads(p, [sessions[p] EXCEPT !.pc = "dispatch", !.lifecycle = lifecycle])
    /\ UNCHANGED opened

\* Mutant of ReadDispatch: the base sequence is taken when everything is read.
ReadDispatchAndBase(p) ==
    /\ sessions[p].pc = "dispatch"
    /\ Reads(p, [sessions[p] EXCEPT !.pc = "commit", !.dispatch = dispatch,
                                    !.base = order.sequence])
    /\ UNCHANGED opened

\* ... then the decisions and the dispatches.
ReadDispatch(p) ==
    /\ sessions[p].pc = "dispatch"
    /\ Reads(p, [sessions[p] EXCEPT !.pc = "commit", !.dispatch = dispatch])
    /\ UNCHANGED opened

\* append_ledger: the entries are numbered from what was read.
Pending(p) ==
    [sequence : sessions[p].base + 1 .. sessions[p].base + Appends(sessions[p].kind),
     by : {sessions[p].by}]

\* The comparison of the commit.
IsCurrent(p) == order.sequence = sessions[p].base

\* Mutant of Updated: the record is replaced by what is new in it.
UpdatedFields(p) ==
    CASE sessions[p].kind = "update" -> [acknowledged : BOOLEAN]
      [] sessions[p].kind = "remember" -> {sessions[p].dispatch}
      [] OTHER -> {dispatch}

\* The dispatch as the session leaves it: as it was read, but for its state, or its receipt.
Updated(p) ==
    CASE sessions[p].kind = "update" ->
            [attempts : {sessions[p].dispatch.attempts}, acknowledged : BOOLEAN]
      [] sessions[p].kind = "remember" -> {sessions[p].dispatch}
      [] OTHER -> {dispatch}

\* A receipt puts the record back that was read before the first claim.
Lapses(p) ==
    sessions[p].kind = "remember" /\ sessions[p].dispatch.attempts = 0 /\ claims > 0

Answered(p) ==
    /\ sessions' = [sessions EXCEPT ![p] = NoSession]
    /\ promised' = promised \cup Pending(p)

\* The transaction is run once more because the answer to its commit was lost.
AnswerLost == UNCHANGED <<sessions, promised>>

Commit(p) ==
    LET s == sessions[p]
    IN  /\ s.pc = "commit"
        /\ IsCurrent(p)
        /\ order' = [status   |-> IF SetsStatus(s.kind) THEN s.by ELSE order.status,
                     sequence |-> order.sequence + Appends(s.kind)]
        /\ ledger' = ledger \cup Pending(p)
        /\ lifecycle' = IF s.kind = "transition" THEN s.by ELSE lifecycle
        /\ dispatch' \in Updated(p)
        /\ lapsed' = (lapsed \/ Lapses(p))
        /\ Answered(p) \/ AnswerLost
        /\ UNCHANGED <<opened, claims, posts>>

\* Mutant of IsStored: the sequence numbers are there, whoever wrote them.
IsStoredByAny(p) == \A e \in Pending(p) : \E f \in ledger : f.sequence = e.sequence

\* Nothing is new: its events are there by their ids (an update is of a known dispatch).
IsStored(p) == Pending(p) \subseteq ledger

\* The ledger moved on, but nothing is left to add, and the status is not touched or
\* happens to be the wanted one: taken for a success.
CommitNothing(p) ==
    /\ sessions[p].pc = "commit"
    /\ ~IsCurrent(p)
    /\ IsStored(p)
    /\ Answered(p)
    /\ UNCHANGED <<storeVars, opened, claimVars>>

\* "Concurrent ledger update", or another error on the way, or the process dies.
Abandon(p) ==
    /\ sessions[p].pc # "idle"
    /\ sessions' = [sessions EXCEPT ![p] = NoSession]
    /\ UNCHANGED <<storeVars, promised, opened, claimVars>>

\* claim_execution_lease, a transaction of its own, outside the lock.  Whether the lease of
\* another owner has run out is up to the clock; a claim that finds one does nothing.  Only
\* the first attempt of a follow-up posts, the others look for its run.
Claim ==
    /\ claims < MaxClaims /\ ~dispatch.acknowledged
    /\ claims' = claims + 1
    /\ dispatch' = [dispatch EXCEPT !.attempts = @ + 1]
    /\ posts' = IF dispatch.attempts = 0 THEN posts + 1 ELSE posts
    /\ UNCHANGED <<order, ledger, lifecycle, sessions, promised, opened, lapsed>>

FirestoreNext ==
    \/ \E p \in Processes :
          \/ \E kind \in Kinds : Open(p, kind)
          \/ ReadLedger(p) \/ ReadLifecycle(p) \/ ReadDispatch(p)
          \/ Commit(p) \/ CommitNothing(p) \/ Abandon(p)
    \/ Claim

FirestoreSpec == FirestoreInit /\ [][FirestoreNext]_firestoreVars
-------------------------------------------------------------------------------
\* The ledger is numbered without a gap or a double, whichever processes add to it and
\* however often a commit is run, the entries of a session stand together, once, and every
\* entry a caller was told of is there (docs/
\* CURSOR_PRODUCT_SUMMARY_AND_CLOUD_RUN_BUILD.md:209-210; commit, append_ledger).
LedgerIsWhole ==
    /\ \A n \in 1..order.sequence : \E e \in ledger : e.sequence = n
    /\ \A e \in ledger : e.sequence \in 1..order.sequence
    /\ \A e, f \in ledger : e.sequence = f.sequence => e = f
    /\ \A e, f \in ledger : e.by = f.by => e.sequence <= f.sequence + 1
    /\ promised \subseteq ledger

\* A snapshot is computed from the one it replaces, although only the ledger is compared:
\* the ledger is read before it, and whoever writes it adds to the ledger (commit).
LifecycleIsCompared ==
    [][lifecycle' # lifecycle =>
          \E p \in Processes :
             sessions[p].lifecycle = lifecycle /\ lifecycle' = sessions[p].by]_firestoreVars

\* A follow-up is posted once, although records of the dispatch overwrite each other and
\* the count of its attempts goes back (update_execution_dispatch, claim_execution_lease).
\* The one way to a second post: a report of the attempt before came late, and its receipt
\* put the record back that was read before the claim (_remember_dispatch_receipt).
OnePost == posts > 1 => lapsed

\* docs/CURSOR_PRODUCT_SUMMARY_AND_CLOUD_RUN_BUILD.md:216, "compare-and-set version/status
\* transitions": a status is set by a session that read the status it replaces.
StatusIsCompared ==
    [][order'.status # order.status =>
          \E p \in Processes :
             sessions[p].status = order.status /\ order'.status = sessions[p].by]_firestoreVars
===============================================================================

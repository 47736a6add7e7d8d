------------------------ MODULE FirestoreSessionProofs ------------------------
(***************************************************************************)
(* Theorems about FirestoreSession, for any number of processes, sessions  *)
(* and claims: what the comparison of the ledger sequence does protect.    *)
(***************************************************************************)
EXTENDS FirestoreSession, TLAPS

\* A session whose base is still the ledger's sequence has read the current snapshot:
\* whoever replaces it adds to the ledger, and the base was read first.
SnapshotIsCurrent ==
    \A p \in Processes :
        /\ sessions[p].base <= order.sequence
        /\ sessions[p].pc \in {"dispatch", "commit"} /\ IsCurrent(p) =>
              sessions[p].lifecycle = lifecycle

\* Whoever stores an answer of the provider has read the record after the first claim.
\* The count of attempts tells whether there was one, and so does the record such a
\* session has read, as long as no receipt has put an earlier record back.
AttemptsAreCounted ==
    /\ dispatch.attempts > 0 => claims > 0
    /\ \A p \in Processes :
          /\ sessions[p].pc # "idle" /\ sessions[p].kind = "update" => claims > 0
          /\ sessions[p].pc = "commit" /\ sessions[p].dispatch.attempts > 0 => claims > 0
    /\ ~lapsed =>
          /\ claims > 0 => dispatch.attempts > 0
          /\ \A p \in Processes :
                sessions[p].pc = "commit" /\ sessions[p].kind = "update" =>
                   sessions[p].dispatch.attempts > 0
          /\ posts = IF claims = 0 THEN 0 ELSE 1

\* A session that is open has no entries yet, or those it is about to add: its commit was
\* run and the answer lost.  No other session has its number.
EntriesAreOwn ==
    /\ \A e \in ledger : e.by <= opened
    /\ \A p \in Processes : sessions[p].pc # "idle" =>
          /\ sessions[p].by <= opened
          /\ \A e \in ledger :
                e.by = sessions[p].by => sessions[p].pc = "commit" /\ e \in Pending(p)
          /\ \A q \in Processes \ {p} :
                sessions[q].pc # "idle" => sessions[q].by # sessions[p].by

FirestoreInductive ==
    /\ FirestoreTypeOK
    /\ LedgerIsWhole
    /\ SnapshotIsCurrent
    /\ AttemptsAreCounted
    /\ EntriesAreOwn
-------------------------------------------------------------------------------
LEMMA InitHolds == FirestoreInit => FirestoreInductive
  <1> SUFFICES ASSUME FirestoreInit PROVE FirestoreInductive
    OBVIOUS
  <1>1. FirestoreTypeOK
    <2>1. NewDispatch \in Dispatches
      BY DEF NewDispatch, Dispatches
    <2>2. NoSession \in Sessions
      BY <2>1, FirestoreAssumption DEF NoSession, Sessions, Kinds, Steps, Numbers
    <2>3. /\ order \in [status : Numbers, sequence : Nat]
          /\ ledger \subseteq Entries /\ promised \subseteq Entries
      BY FirestoreAssumption DEF FirestoreInit, Entries, Numbers
    <2>4. /\ lifecycle \in Numbers /\ opened \in Numbers
          /\ claims \in 0..MaxClaims /\ posts \in Nat
      BY FirestoreAssumption DEF FirestoreInit, Numbers
    <2>5. lapsed \in BOOLEAN
      BY DEF FirestoreInit
    <2>6. dispatch \in Dispatches /\ sessions \in [Processes -> Sessions]
      BY <2>1, <2>2 DEF FirestoreInit
    <2> QED
      BY <2>3, <2>4, <2>5, <2>6 DEF FirestoreTypeOK
  <1>2. AttemptsAreCounted
    BY DEF FirestoreInit, AttemptsAreCounted, NoSession, NewDispatch
  <1>3. LedgerIsWhole /\ SnapshotIsCurrent /\ EntriesAreOwn
    BY FirestoreAssumption
       DEF FirestoreInit, LedgerIsWhole, SnapshotIsCurrent, EntriesAreOwn, NoSession
  <1> QED
    BY <1>1, <1>2, <1>3 DEF FirestoreInductive

\* The entries a session is about to append.
LEMMA PendingIsNumbered ==
    ASSUME FirestoreInductive, NEW p \in Processes
    PROVE  /\ Appends(sessions[p].kind) \in 0..2
           /\ Pending(p) \subseteq Entries
           /\ \A e \in Pending(p) :
                 /\ e.by = sessions[p].by
                 /\ e.sequence \in sessions[p].base + 1 ..
                                   sessions[p].base + Appends(sessions[p].kind)
           /\ \A n \in sessions[p].base + 1 ..
                       sessions[p].base + Appends(sessions[p].kind) :
                 \E e \in Pending(p) : e.sequence = n
           /\ \A e, f \in Pending(p) : e.sequence = f.sequence => e = f
  <1>1. Appends(sessions[p].kind) \in 0..2
    BY DEF Appends
  <1>2. sessions[p].base \in Nat /\ sessions[p].by \in Numbers
    BY DEF FirestoreInductive, FirestoreTypeOK, Sessions
  <1>3. ASSUME NEW n \in sessions[p].base + 1 ..
                         sessions[p].base + Appends(sessions[p].kind)
        PROVE  \E e \in Pending(p) : e.sequence = n
    <2>1. [sequence |-> n, by |-> sessions[p].by] \in Pending(p)
      BY DEF Pending
    <2> QED
      BY <2>1
  <1>4. \A e \in Pending(p) :
           /\ e = [sequence |-> e.sequence, by |-> sessions[p].by]
           /\ e.sequence \in sessions[p].base + 1 ..
                             sessions[p].base + Appends(sessions[p].kind)
    BY DEF Pending
  <1>5. Pending(p) \subseteq Entries
    BY <1>1, <1>2 DEF Pending, Entries
  <1> QED
    BY <1>1, <1>3, <1>4, <1>5

-------------------------------------------------------------------------------
\* No entry and no other session has this number.
IsNew(p, number) ==
    /\ \A e \in ledger : e.by # number
    /\ \A q \in Processes \ {p} : sessions[q].pc # "idle" => sessions[q].by # number

\* A session takes another step of reading.
LEMMA ReadsKeep ==
    ASSUME FirestoreInductive, NEW p \in Processes, NEW s \in Sessions,
           sessions' = [sessions EXCEPT ![p] = s],
           UNCHANGED <<storeVars, promised, claimVars>>,
           opened' \in Numbers, opened <= opened',
           s.base <= order.sequence,
           s.pc # "idle" => IsNew(p, s.by) /\ s.by <= opened',
           s.pc \in {"dispatch", "commit"} /\ order.sequence = s.base =>
              s.lifecycle = lifecycle,
           s.pc # "idle" /\ s.kind = "update" => claims > 0,
           s.pc = "commit" =>
              /\ s.dispatch.attempts > 0 => claims > 0
              /\ s.kind = "update" /\ ~lapsed => s.dispatch.attempts > 0
    PROVE  FirestoreInductive'
  <1>1. UNCHANGED <<order, ledger, lifecycle, dispatch, promised, claims, posts, lapsed>>
    BY DEF storeVars, claimVars
  <1>2. sessions' \in [Processes -> Sessions]
    BY DEF FirestoreInductive, FirestoreTypeOK
  <1>3. \A q \in Processes : sessions'[q] = s \/ sessions'[q] = sessions[q]
    BY DEF FirestoreInductive, FirestoreTypeOK
  <1>4. FirestoreTypeOK' /\ LedgerIsWhole'
    BY <1>1, <1>2 DEF FirestoreInductive, FirestoreTypeOK, LedgerIsWhole
  <1>5. SnapshotIsCurrent'
    BY <1>1, <1>3 DEF FirestoreInductive, SnapshotIsCurrent, IsCurrent
  <1>6. AttemptsAreCounted'
    BY <1>1, <1>3 DEF FirestoreInductive, AttemptsAreCounted
  <1>7. EntriesAreOwn'
    <2>1. opened \in Nat /\ opened' \in Nat
      BY FirestoreAssumption DEF FirestoreInductive, FirestoreTypeOK, Numbers
    <2>2. \A e \in ledger : e.by \in Nat /\ e.by <= opened'
      BY <2>1, FirestoreAssumption
         DEF FirestoreInductive, FirestoreTypeOK, Entries, Numbers, EntriesAreOwn
    <2>3. sessions'[p] = s /\ \A q \in Processes \ {p} : sessions'[q] = sessions[q]
      BY DEF FirestoreInductive, FirestoreTypeOK
    <2>4. \A q \in Processes \ {p} : Pending(q)' = Pending(q)
      BY <2>3 DEF Pending
    <2>5. \A q \in Processes \ {p} : sessions[q].by \in Nat
      BY FirestoreAssumption DEF FirestoreInductive, FirestoreTypeOK, Sessions, Numbers
    <2>6. ASSUME NEW q \in Processes, sessions'[q].pc # "idle"
          PROVE  /\ sessions'[q].by <= opened'
                 /\ \A e \in ledger : e.by = sessions'[q].by =>
                       sessions'[q].pc = "commit" /\ e \in Pending(q)'
                 /\ \A r \in Processes \ {q} :
                       sessions'[r].pc # "idle" => sessions'[r].by # sessions'[q].by
      <3>1. CASE q = p
        BY <2>3, <2>6, <3>1 DEF IsNew
      <3>2. CASE q # p
        <4>1. /\ sessions[q].by <= opened
              /\ \A e \in ledger : e.by = sessions[q].by =>
                    sessions[q].pc = "commit" /\ e \in Pending(q)
              /\ \A r \in Processes \ {q} :
                    sessions[r].pc # "idle" => sessions[r].by # sessions[q].by
          BY <2>3, <2>6, <3>2 DEF FirestoreInductive, EntriesAreOwn
        <4>2. sessions'[q].by <= opened'
          BY <2>1, <2>3, <2>5, <3>2, <4>1
        <4>3. \A r \in Processes \ {q} :
                 sessions'[r].pc # "idle" => sessions'[r].by # sessions'[q].by
          BY <2>3, <2>6, <3>2, <4>1 DEF IsNew
        <4> QED
          BY <2>3, <2>4, <3>2, <4>1, <4>2, <4>3
      <3> QED
        BY <3>1, <3>2
    <2> QED
      BY <1>1, <2>2, <2>6 DEF EntriesAreOwn
  <1> QED
    BY <1>4, <1>5, <1>6, <1>7 DEF FirestoreInductive

\* A session is opened, reads a document, or goes away.
LEMMA ReadingKeeps ==
    ASSUME FirestoreInductive, NEW p \in Processes,
           \/ \E kind \in Kinds : Open(p, kind)
           \/ ReadLedger(p) \/ ReadLifecycle(p) \/ ReadDispatch(p)
           \/ Abandon(p)
    PROVE  FirestoreInductive'
  <1>1. sessions[p] \in Sessions /\ order.sequence \in Nat /\ order.status \in Numbers
    BY DEF FirestoreInductive, FirestoreTypeOK
  <1>2. NoSession \in Sessions
    BY FirestoreAssumption
       DEF NoSession, NewDispatch, Sessions, Dispatches, Kinds, Steps, Numbers
  <1>3. /\ opened \in Nat
        /\ sessions[p].pc \notin {"idle", "commit"} =>
              IsNew(p, sessions[p].by) /\ sessions[p].by <= opened
    <2>1. opened \in Nat
      BY FirestoreAssumption DEF FirestoreInductive, FirestoreTypeOK, Numbers
    <2>2. sessions[p].pc \notin {"idle", "commit"} =>
             IsNew(p, sessions[p].by) /\ sessions[p].by <= opened
      BY DEF IsNew, FirestoreInductive, EntriesAreOwn
    <2> QED
      BY <2>1, <2>2
  <1>4. ASSUME NEW kind \in Kinds, Open(p, kind)
        PROVE  FirestoreInductive'
    <2> DEFINE s == [NoSession EXCEPT !.pc = "ledger", !.kind = kind, !.by = opened + 1,
                                      !.status = order.status]
    <2>1. opened' \in Numbers /\ opened + 1 \in Numbers /\ opened \in Nat /\ opened' = opened + 1
      <3>1. opened \in 0..MaxSessions /\ MaxSessions \in Nat
        BY FirestoreAssumption DEF FirestoreInductive, FirestoreTypeOK, Numbers
      <3>2. opened < MaxSessions /\ opened' = opened + 1
        BY <1>4 DEF Open
      <3> QED
        BY <3>1, <3>2 DEF Numbers
    <2>2. /\ s \in Sessions /\ s.base = 0 /\ s.pc = "ledger" /\ s.by = opened + 1
          /\ s.kind = "update" => claims > 0
      BY <1>1, <1>2, <1>4, <2>1 DEF Open, MayUpdate, NoSession, Sessions, Steps
    <2> HIDE DEF s
    <2>3. sessions' = [sessions EXCEPT ![p] = s] /\ UNCHANGED <<storeVars, promised, claimVars>>
      BY <1>4 DEF Open, Reads, s
    <2>4. s.base <= order.sequence
      BY <1>1, <2>2
    <2>5. \A q \in Processes : sessions[q].by \in Nat
      BY FirestoreAssumption DEF FirestoreInductive, FirestoreTypeOK, Sessions, Numbers
    <2>6. \A e \in ledger : e.by \in Nat
      BY FirestoreAssumption DEF FirestoreInductive, FirestoreTypeOK, Entries, Numbers
    <2>7. IsNew(p, s.by) /\ s.by <= opened' /\ opened <= opened'
      BY <2>1, <2>2, <2>5, <2>6 DEF IsNew, FirestoreInductive, EntriesAreOwn
    <2> QED
      BY <2>1, <2>2, <2>3, <2>4, <2>7, ReadsKeep
  <1>5. CASE ReadLedger(p)
    <2> DEFINE s == [sessions[p] EXCEPT !.pc = "lifecycle", !.base = order.sequence]
    <2>1. /\ s \in Sessions /\ s.base = order.sequence /\ s.pc = "lifecycle"
          /\ s.kind = sessions[p].kind
          /\ s.by = sessions[p].by
      BY <1>1 DEF Sessions, Steps
    <2> HIDE DEF s
    <2>2. /\ sessions' = [sessions EXCEPT ![p] = s]
          /\ UNCHANGED <<storeVars, promised, claimVars>>
          /\ sessions[p].pc = "ledger" /\ opened' \in Numbers /\ opened' = opened
      BY <1>5 DEF ReadLedger, Reads, s, FirestoreInductive, FirestoreTypeOK
    <2>3. s.kind = "update" => claims > 0
      BY <2>1, <2>2 DEF FirestoreInductive, AttemptsAreCounted
    <2>4. s.base <= order.sequence
      BY <1>1, <2>1
    <2>5. IsNew(p, s.by) /\ s.by <= opened' /\ opened <= opened'
      BY <1>3, <2>1, <2>2
    <2> QED
      BY <2>1, <2>2, <2>3, <2>4, <2>5, ReadsKeep
  <1>6. CASE ReadLifecycle(p)
    <2> DEFINE s == [sessions[p] EXCEPT !.pc = "dispatch", !.lifecycle = lifecycle]
    <2>1. /\ s \in Sessions /\ s.lifecycle = lifecycle /\ s.pc = "dispatch"
          /\ s.base = sessions[p].base /\ s.kind = sessions[p].kind
          /\ s.by = sessions[p].by
      BY <1>1 DEF Sessions, Steps, FirestoreInductive, FirestoreTypeOK
    <2> HIDE DEF s
    <2>2. /\ sessions' = [sessions EXCEPT ![p] = s]
          /\ UNCHANGED <<storeVars, promised, claimVars>>
          /\ sessions[p].pc = "lifecycle" /\ opened' \in Numbers /\ opened' = opened
      BY <1>6 DEF ReadLifecycle, Reads, s, FirestoreInductive, FirestoreTypeOK
    <2>3. /\ s.base <= order.sequence
          /\ s.kind = "update" => claims > 0
      BY <2>1, <2>2 DEF FirestoreInductive, AttemptsAreCounted, SnapshotIsCurrent
    <2>4. IsNew(p, s.by) /\ s.by <= opened' /\ opened <= opened'
      BY <1>3, <2>1, <2>2
    <2> QED
      BY <2>1, <2>2, <2>3, <2>4, ReadsKeep
  <1>7. CASE ReadDispatch(p)
    <2> DEFINE s == [sessions[p] EXCEPT !.pc = "commit", !.dispatch = dispatch]
    <2>1. /\ s \in Sessions /\ s.dispatch = dispatch /\ s.lifecycle = sessions[p].lifecycle
          /\ s.base = sessions[p].base /\ s.kind = sessions[p].kind
          /\ s.by = sessions[p].by
      BY <1>1 DEF Sessions, Steps, FirestoreInductive, FirestoreTypeOK
    <2> HIDE DEF s
    <2>2. /\ sessions' = [sessions EXCEPT ![p] = s]
          /\ UNCHANGED <<storeVars, promised, claimVars>>
          /\ sessions[p].pc = "dispatch" /\ opened' \in Numbers /\ opened' = opened
      BY <1>7 DEF ReadDispatch, Reads, s, FirestoreInductive, FirestoreTypeOK
    <2>3. /\ s.base <= order.sequence
          /\ order.sequence = s.base => s.lifecycle = lifecycle
          /\ s.kind = "update" => claims > 0
          /\ s.dispatch.attempts > 0 => claims > 0
          /\ s.kind = "update" /\ ~lapsed => s.dispatch.attempts > 0
      BY <2>1, <2>2 DEF FirestoreInductive, AttemptsAreCounted, SnapshotIsCurrent, IsCurrent
    <2>4. IsNew(p, s.by) /\ s.by <= opened' /\ opened <= opened'
      BY <1>3, <2>1, <2>2
    <2> QED
      BY <2>1, <2>2, <2>3, <2>4, ReadsKeep
  <1>8. CASE Abandon(p)
    <2>1. NoSession.pc = "idle" /\ NoSession.base = 0
      BY DEF NoSession
    <2>2. /\ sessions' = [sessions EXCEPT ![p] = NoSession]
          /\ UNCHANGED <<storeVars, promised, claimVars>>
          /\ opened' \in Numbers /\ opened' = opened
      BY <1>8 DEF Abandon, storeVars, claimVars, FirestoreInductive, FirestoreTypeOK
    <2>3. NoSession.base <= order.sequence /\ opened <= opened'
      BY <1>1, <1>3, <2>1, <2>2
    <2> QED
      BY <1>2, <2>1, <2>2, <2>3, ReadsKeep
  <1> QED
    BY <1>4, <1>5, <1>6, <1>7, <1>8

-------------------------------------------------------------------------------
\* A commit that finds the sequence it read, and one that finds itself stored.
Commits(p) == Commit(p) \/ CommitNothing(p)

LEMMA CommitIsWhole ==
    ASSUME FirestoreInductive, NEW p \in Processes, Commits(p)
    PROVE  LedgerIsWhole'
  <1>1. CASE Commit(p)
    <2> DEFINE n == Appends(sessions[p].kind)
    <2>1. /\ order'.sequence = order.sequence + n
          /\ ledger' = ledger \cup Pending(p)
          /\ promised' \subseteq promised \cup Pending(p)
          /\ sessions[p].base = order.sequence
      BY <1>1 DEF Commit, Answered, AnswerLost, IsCurrent
    <2>2. order.sequence \in Nat /\ n \in 0..2
      BY PendingIsNumbered DEF FirestoreInductive, FirestoreTypeOK
    <2>3. \A k \in 1..order'.sequence : \E e \in ledger' : e.sequence = k
      <3> SUFFICES ASSUME NEW k \in 1..order'.sequence
                   PROVE  \E e \in ledger' : e.sequence = k
        OBVIOUS
      <3>1. CASE k \in 1..order.sequence
        BY <2>1, <3>1 DEF FirestoreInductive, LedgerIsWhole
      <3>2. CASE k \notin 1..order.sequence
        <4>1. k \in sessions[p].base + 1 .. sessions[p].base + n
          BY <2>1, <2>2, <3>2
        <4> QED
          BY <2>1, <4>1, PendingIsNumbered
      <3> QED
        BY <3>1, <3>2
    <2>4. \A e \in Pending(p) : e.sequence \in order.sequence + 1 .. order.sequence + n
      BY <2>1, PendingIsNumbered
    <2>5. \A e \in ledger' : e.sequence \in 1..order'.sequence
      BY <2>1, <2>2, <2>4 DEF FirestoreInductive, LedgerIsWhole
    <2>6. \A e, f \in ledger' : e.sequence = f.sequence => e = f
      <3>1. \A e \in ledger, f \in Pending(p) : e.sequence # f.sequence
        BY <2>2, <2>4 DEF FirestoreInductive, LedgerIsWhole
      <3> QED
        BY <2>1, <3>1, PendingIsNumbered DEF FirestoreInductive, LedgerIsWhole
    <2>7. promised' \subseteq ledger'
      BY <2>1 DEF FirestoreInductive, LedgerIsWhole
    <2>8. \A e \in ledger, f \in Pending(p) : e.by # f.by
      <3> SUFFICES ASSUME NEW e \in ledger, e.by = sessions[p].by
                   PROVE  FALSE
        BY PendingIsNumbered
      <3>1. e \in Pending(p)
        BY <1>1 DEF Commit, FirestoreInductive, EntriesAreOwn
      <3>2. e.sequence \in 1..order.sequence
        BY DEF FirestoreInductive, LedgerIsWhole
      <3> QED
        BY <2>2, <2>4, <3>1, <3>2
    <2>9. \A e, f \in Pending(p) : e.sequence <= f.sequence + 1
      BY <2>2, <2>4
    <2>10. \A e, f \in ledger' : e.by = f.by => e.sequence <= f.sequence + 1
      BY <2>1, <2>8, <2>9 DEF FirestoreInductive, LedgerIsWhole
    <2> QED
      BY <2>3, <2>5, <2>6, <2>7, <2>10 DEF LedgerIsWhole
  <1>2. CASE CommitNothing(p)
    BY <1>2 DEF CommitNothing, Answered, IsStored, storeVars, FirestoreInductive, LedgerIsWhole
  <1> QED
    BY <1>1, <1>2 DEF Commits

LEMMA CommitTypes ==
    ASSUME FirestoreInductive, NEW p \in Processes, Commits(p)
    PROVE  FirestoreTypeOK'
  <1>1. /\ sessions' \in {sessions, [sessions EXCEPT ![p] = NoSession]}
        /\ promised' \subseteq promised \cup Pending(p)
        /\ UNCHANGED <<opened, claims, posts>>
    BY DEF Commits, Commit, CommitNothing, Answered, AnswerLost, claimVars
  <1>2. order' \in [status : Numbers, sequence : Nat] /\ lifecycle' \in Numbers
    BY PendingIsNumbered
       DEF Commits, Commit, CommitNothing, storeVars, FirestoreInductive, FirestoreTypeOK,
           Sessions
  <1>3. ledger' \subseteq Entries /\ promised' \subseteq Entries
    BY <1>1, PendingIsNumbered
       DEF Commits, Commit, CommitNothing, storeVars, FirestoreInductive, FirestoreTypeOK
  <1>4. dispatch' \in Dispatches
    BY DEF Commits, Commit, CommitNothing, storeVars, Updated, Dispatches, FirestoreInductive,
           FirestoreTypeOK, Sessions
  <1>5. NoSession \in Sessions
    BY FirestoreAssumption
       DEF NoSession, NewDispatch, Sessions, Dispatches, Kinds, Steps, Numbers
  <1>6. lapsed' \in BOOLEAN
    BY DEF Commits, Commit, CommitNothing, claimVars, FirestoreInductive, FirestoreTypeOK
  <1> QED
    BY <1>1, <1>2, <1>3, <1>4, <1>5, <1>6 DEF FirestoreInductive, FirestoreTypeOK

\* The entries of a commit are those its session may still add once more.
LEMMA CommitOwnsEntries ==
    ASSUME FirestoreInductive, NEW p \in Processes, Commits(p)
    PROVE  EntriesAreOwn'
  <1>1. /\ sessions' \in {sessions, [sessions EXCEPT ![p] = NoSession]}
        /\ sessions[p].pc = "commit" /\ opened' = opened
        /\ ledger' \subseteq ledger \cup Pending(p)
    BY DEF Commits, Commit, CommitNothing, Answered, AnswerLost, storeVars
  <1>2. /\ sessions[p].by <= opened
        /\ \A e \in Pending(p) : e.by = sessions[p].by
    BY <1>1, PendingIsNumbered DEF FirestoreInductive, EntriesAreOwn
  <1>3. \A e \in ledger' : e.by <= opened'
    BY <1>1, <1>2 DEF FirestoreInductive, EntriesAreOwn
  <1>4. /\ \A q \in Processes : sessions'[q].pc = "idle" \/ sessions'[q] = sessions[q]
        /\ \A q \in Processes : sessions'[q] = sessions[q] => Pending(q)' = Pending(q)
    <2>1. \A q \in Processes : sessions'[q].pc = "idle" \/ sessions'[q] = sessions[q]
      BY <1>1 DEF NoSession, FirestoreInductive, FirestoreTypeOK
    <2>2. \A q \in Processes : sessions'[q] = sessions[q] => Pending(q)' = Pending(q)
      BY DEF Pending
    <2> QED
      BY <2>1, <2>2
  <1>5. ASSUME NEW q \in Processes, sessions'[q].pc # "idle"
        PROVE  /\ sessions'[q].by <= opened'
               /\ \A e \in ledger' : e.by = sessions'[q].by =>
                     sessions'[q].pc = "commit" /\ e \in Pending(q)'
               /\ \A r \in Processes \ {q} :
                     sessions'[r].pc # "idle" => sessions'[r].by # sessions'[q].by
    <2>1. sessions'[q] = sessions[q] /\ Pending(q)' = Pending(q) /\ sessions[q].pc # "idle"
      BY <1>4, <1>5
    <2>2. /\ sessions[q].by <= opened
          /\ \A e \in ledger : e.by = sessions[q].by =>
                sessions[q].pc = "commit" /\ e \in Pending(q)
          /\ \A r \in Processes \ {q} :
                sessions[r].pc # "idle" => sessions[r].by # sessions[q].by
      BY <2>1 DEF FirestoreInductive, EntriesAreOwn
    <2>3. \A e \in Pending(p) : e.by = sessions[q].by => q = p
      BY <1>1, <1>2, <2>2
    <2>4. \A e \in ledger' : e.by = sessions[q].by =>
             sessions[q].pc = "commit" /\ e \in Pending(q)
      BY <1>1, <2>2, <2>3
    <2> QED
      BY <1>1, <1>4, <2>1, <2>2, <2>4
  <1> QED
    BY <1>3, <1>5 DEF EntriesAreOwn

LEMMA CommitKeeps ==
    ASSUME FirestoreInductive, NEW p \in Processes, Commits(p)
    PROVE  FirestoreInductive'
  <1>1. sessions' \in {sessions, [sessions EXCEPT ![p] = NoSession]}
    BY DEF Commits, Commit, CommitNothing, Answered, AnswerLost
  <1>2. /\ order'.sequence \in Nat /\ order'.sequence >= order.sequence
        /\ lifecycle' # lifecycle => order'.sequence > order.sequence
    <2>1. CASE Commit(p)
      <3>1. /\ order'.sequence = order.sequence + Appends(sessions[p].kind)
            /\ lifecycle' # lifecycle => sessions[p].kind = "transition"
        BY <2>1 DEF Commit
      <3>2. sessions[p].kind = "transition" => Appends(sessions[p].kind) = 1
        BY DEF Appends
      <3>3. order.sequence \in Nat /\ Appends(sessions[p].kind) \in 0..2
        BY PendingIsNumbered DEF FirestoreInductive, FirestoreTypeOK
      <3> QED
        BY <3>1, <3>2, <3>3
    <2>2. CASE CommitNothing(p)
      BY <2>2 DEF CommitNothing, storeVars, FirestoreInductive, FirestoreTypeOK
    <2> QED
      BY <2>1, <2>2 DEF Commits
  <1>3. SnapshotIsCurrent'
    <2> SUFFICES ASSUME NEW q \in Processes
                 PROVE  /\ sessions'[q].base <= order'.sequence
                        /\ /\ sessions'[q].pc \in {"dispatch", "commit"}
                           /\ order'.sequence = sessions'[q].base
                           => sessions'[q].lifecycle = lifecycle'
      BY DEF SnapshotIsCurrent, IsCurrent
    <2>1. sessions'[q] \in {sessions[q], NoSession}
      BY <1>1 DEF FirestoreInductive, FirestoreTypeOK
    <2>2. /\ sessions[q].base \in Nat /\ order.sequence \in Nat
          /\ sessions[q].base <= order.sequence
          /\ sessions[q].pc \in {"dispatch", "commit"} /\ order.sequence = sessions[q].base =>
                sessions[q].lifecycle = lifecycle
      BY DEF FirestoreInductive, FirestoreTypeOK, Sessions, SnapshotIsCurrent, IsCurrent
    <2> QED
      BY <1>2, <2>1, <2>2 DEF NoSession
  <1>4. AttemptsAreCounted'
    <2>1. /\ posts' = posts /\ claims' = claims
          /\ \/ dispatch' = dispatch /\ lapsed' = lapsed
             \/ /\ sessions[p].pc = "commit" /\ sessions[p].kind \in {"update", "remember"}
                /\ dispatch'.attempts = sessions[p].dispatch.attempts
                /\ lapsed' = (lapsed \/ Lapses(p))
      <3>1. CASE Commit(p) /\ sessions[p].kind \in {"update", "remember"}
        <4>1. dispatch' \in Updated(p) /\ UNCHANGED <<claims, posts>>
              /\ sessions[p].pc = "commit" /\ lapsed' = (lapsed \/ Lapses(p))
          BY <3>1 DEF Commit
        <4>2. dispatch'.attempts = sessions[p].dispatch.attempts
          BY <3>1, <4>1 DEF Updated
        <4> QED
          BY <3>1, <4>1, <4>2
      <3>2. CASE Commit(p) /\ sessions[p].kind \notin {"update", "remember"}
        <4>1. dispatch' = dispatch /\ ~Lapses(p)
          BY <3>2 DEF Commit, Updated, Lapses
        <4> QED
          BY <3>2, <4>1 DEF Commit, FirestoreInductive, FirestoreTypeOK
      <3>3. CASE CommitNothing(p)
        BY <3>3 DEF CommitNothing, storeVars, claimVars
      <3> QED
        BY <3>1, <3>2, <3>3 DEF Commits
    <2>2. dispatch.attempts \in Nat /\ dispatch'.attempts \in Nat
      BY CommitTypes DEF FirestoreInductive, FirestoreTypeOK, Dispatches
    <2>3. \A q \in Processes : sessions'[q] \in {sessions[q], NoSession}
      BY <1>1 DEF FirestoreInductive, FirestoreTypeOK
    <2>4. claims \in Nat /\ sessions[p].dispatch.attempts \in Nat
      BY FirestoreAssumption DEF FirestoreInductive, FirestoreTypeOK, Sessions, Dispatches
    <2>5. NoSession.pc = "idle"
      BY DEF NoSession
    <2>6. dispatch'.attempts > 0 => claims' > 0
      BY <2>1, <2>2, <2>4 DEF FirestoreInductive, AttemptsAreCounted
    <2>7. ~lapsed' => ~lapsed
      BY <2>1
    <2>8. ASSUME ~lapsed', claims' > 0
          PROVE  dispatch'.attempts > 0
      <3>1. ~lapsed /\ claims > 0 /\ dispatch.attempts > 0
        BY <2>1, <2>7, <2>8 DEF FirestoreInductive, AttemptsAreCounted
      <3>2. CASE sessions[p].pc = "commit" /\ sessions[p].kind = "update"
        BY <2>1, <3>1, <3>2 DEF FirestoreInductive, AttemptsAreCounted
      <3>3. CASE sessions[p].kind = "remember" /\ ~Lapses(p)
        BY <2>1, <2>4, <3>1, <3>3 DEF Lapses
      <3> QED
        BY <2>1, <2>8, <3>1, <3>2, <3>3
    <2> QED
      BY <2>1, <2>3, <2>5, <2>6, <2>7, <2>8 DEF FirestoreInductive, AttemptsAreCounted
  <1> QED
    BY <1>3, <1>4, CommitTypes, CommitIsWhole, CommitOwnsEntries DEF FirestoreInductive

LEMMA ClaimKeeps ==
    ASSUME FirestoreInductive, Claim
    PROVE  FirestoreInductive'
  BY FirestoreAssumption
     DEF Claim, FirestoreInductive, FirestoreTypeOK, LedgerIsWhole, SnapshotIsCurrent,
         AttemptsAreCounted, EntriesAreOwn, Pending, IsCurrent, Dispatches

-------------------------------------------------------------------------------
\* The invariant the theorems rest on, for every step of every process.
THEOREM FirestoreInvariant == FirestoreSpec => []FirestoreInductive
  <1>1. FirestoreInductive /\ [FirestoreNext]_firestoreVars => FirestoreInductive'
    <2> SUFFICES ASSUME FirestoreInductive, [FirestoreNext]_firestoreVars
                 PROVE  FirestoreInductive'
      OBVIOUS
    <2>1. CASE \E p \in Processes :
                  \/ \E kind \in Kinds : Open(p, kind)
                  \/ ReadLedger(p) \/ ReadLifecycle(p) \/ ReadDispatch(p) \/ Abandon(p)
      BY <2>1, ReadingKeeps
    <2>2. CASE \E p \in Processes : Commits(p)
      BY <2>2, CommitKeeps
    <2>3. CASE Claim
      BY <2>3, ClaimKeeps
    <2>4. CASE UNCHANGED firestoreVars
      BY <2>4 DEF firestoreVars, FirestoreInductive, FirestoreTypeOK, LedgerIsWhole,
                  SnapshotIsCurrent, AttemptsAreCounted, EntriesAreOwn, Pending, IsCurrent
    <2> QED
      BY <2>1, <2>2, <2>3, <2>4 DEF FirestoreNext, Commits
  <1> QED
    BY <1>1, InitHolds, PTL DEF FirestoreSpec

\* Every document and every session keeps its type.
THEOREM FirestoreTypes == FirestoreSpec => []FirestoreTypeOK
  BY FirestoreInvariant, PTL DEF FirestoreInductive

\* The ledger is numbered without a gap or a double, holds the entries of a session once
\* and together, and keeps what callers were told of.
THEOREM LedgerStaysWhole == FirestoreSpec => []LedgerIsWhole
  BY FirestoreInvariant, PTL DEF FirestoreInductive

\* A follow-up is posted once, unless a receipt put the record back that was read before
\* the first claim.
THEOREM PostedOnce == FirestoreSpec => []OnePost
  <1>1. FirestoreInductive => OnePost
    BY DEF FirestoreInductive, AttemptsAreCounted, OnePost
  <1> QED
    BY <1>1, FirestoreInvariant, PTL

\* No snapshot is lost: each is computed from the one it replaces.
THEOREM SnapshotsAreCompared == FirestoreSpec => LifecycleIsCompared
  <1>1. FirestoreInductive /\ [FirestoreNext]_firestoreVars =>
           [lifecycle' # lifecycle =>
               \E p \in Processes :
                  sessions[p].lifecycle = lifecycle /\ lifecycle' = sessions[p].by]_firestoreVars
    <2> SUFFICES ASSUME FirestoreInductive, FirestoreNext, lifecycle' # lifecycle
                 PROVE  \E p \in Processes :
                           sessions[p].lifecycle = lifecycle /\ lifecycle' = sessions[p].by
      BY DEF firestoreVars
    <2>1. PICK p \in Processes : Commit(p)
      BY DEF FirestoreNext, Open, ReadLedger, ReadLifecycle, ReadDispatch, CommitNothing,
             Abandon, Claim, Reads, storeVars
    <2>2. sessions[p].lifecycle = lifecycle /\ lifecycle' = sessions[p].by
      BY <2>1 DEF Commit, FirestoreInductive, SnapshotIsCurrent
    <2> QED
      BY <2>2
  <1> QED
    BY <1>1, FirestoreInvariant, PTL DEF FirestoreSpec, LifecycleIsCompared
-------------------------------------------------------------------------------
\* With a single instance a session's status is the one it read, or its own: the lock of
\* the process keeps every other session away.
StatusIsKnown ==
    \A p \in Processes :
        sessions[p].pc # "idle" =>
            order.status = sessions[p].status \/ order.status = sessions[p].by

LEMMA StatusStaysKnown ==
    ASSUME \A p, q \in Processes : p = q,
           FirestoreInductive, StatusIsKnown, [FirestoreNext]_firestoreVars
    PROVE  StatusIsKnown'
  <1>1. sessions \in [Processes -> Sessions]
    BY DEF FirestoreInductive, FirestoreTypeOK
  <1>2. ASSUME NEW p \in Processes, NEW kind \in Kinds, Open(p, kind)
        PROVE  StatusIsKnown'
    <2>1. sessions'[p].status = order.status /\ order' = order
      BY <1>1, <1>2 DEF Open, Reads, storeVars, NoSession
    <2> QED
      BY <2>1 DEF StatusIsKnown
  <1>3. ASSUME NEW p \in Processes, ReadLedger(p) \/ ReadLifecycle(p) \/ ReadDispatch(p)
        PROVE  StatusIsKnown'
    <2>1. /\ order' = order /\ sessions[p].pc # "idle"
          /\ sessions'[p].status = sessions[p].status /\ sessions'[p].by = sessions[p].by
      <3>1. CASE ReadLedger(p)
        BY <1>1, <3>1 DEF ReadLedger, Reads, storeVars, Sessions
      <3>2. CASE ReadLifecycle(p)
        BY <1>1, <3>2 DEF ReadLifecycle, Reads, storeVars, Sessions
      <3>3. CASE ReadDispatch(p)
        BY <1>1, <3>3 DEF ReadDispatch, Reads, storeVars, Sessions
      <3> QED
        BY <1>3, <3>1, <3>2, <3>3
    <2> QED
      BY <2>1 DEF StatusIsKnown
  <1>4. ASSUME NEW p \in Processes, Abandon(p) \/ CommitNothing(p)
        PROVE  StatusIsKnown'
    <2>1. sessions'[p].pc = "idle"
      BY <1>1, <1>4 DEF Abandon, CommitNothing, Answered, NoSession
    <2> QED
      BY <2>1 DEF StatusIsKnown
  <1>5. ASSUME NEW p \in Processes, Commit(p)
        PROVE  StatusIsKnown'
    <2>1. /\ sessions'[p].pc = "idle" \/ sessions'[p] = sessions[p]
          /\ sessions[p].pc = "commit"
          /\ order'.status \in {order.status, sessions[p].by}
      BY <1>1, <1>5 DEF Commit, Answered, AnswerLost, NoSession
    <2> QED
      BY <2>1 DEF StatusIsKnown
  <1>6. CASE Claim \/ UNCHANGED firestoreVars
    BY <1>6 DEF Claim, firestoreVars, StatusIsKnown
  <1> QED
    BY <1>2, <1>3, <1>4, <1>5, <1>6 DEF FirestoreNext

\* The compare-and-set of the status that the documentation promises holds of one
\* instance: its lock does what the commit does not (lock_work_order).
THEOREM OneInstanceComparesStatus ==
    ASSUME \A p, q \in Processes : p = q
    PROVE  FirestoreSpec => StatusIsCompared
  <1>1. FirestoreInit => StatusIsKnown
    BY DEF FirestoreInit, StatusIsKnown, NoSession
  <1>2. FirestoreInductive /\ StatusIsKnown /\ [FirestoreNext]_firestoreVars => StatusIsKnown'
    BY StatusStaysKnown
  <1>3. StatusIsKnown /\ [FirestoreNext]_firestoreVars =>
           [order'.status # order.status =>
               \E p \in Processes :
                  sessions[p].status = order.status
                  /\ order'.status = sessions[p].by]_firestoreVars
    <2> SUFFICES ASSUME StatusIsKnown, FirestoreNext, order'.status # order.status
                 PROVE  \E p \in Processes :
                           sessions[p].status = order.status
                           /\ order'.status = sessions[p].by
      BY DEF firestoreVars
    <2>1. PICK p \in Processes : Commit(p)
      BY DEF FirestoreNext, Open, ReadLedger, ReadLifecycle, ReadDispatch, CommitNothing,
             Abandon, Claim, Reads, storeVars
    <2>2. order'.status = sessions[p].by /\ sessions[p].pc # "idle"
      BY <2>1 DEF Commit
    <2> QED
      BY <2>2 DEF StatusIsKnown
  <1> QED
    BY <1>1, <1>2, <1>3, FirestoreInvariant, PTL DEF FirestoreSpec, StatusIsCompared
===============================================================================

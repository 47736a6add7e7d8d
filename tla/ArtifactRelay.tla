------------------------------ MODULE ArtifactRelay ------------------------------
(***************************************************************************)
(* One artifact from its declaration to the clean or rejected body         *)
(* (begin_artifact_intake, upload, finalize_artifact_upload, the security  *)
(* inspection, retention and the resolution of a bundle).                  *)
(*                                                                         *)
(* Uploaders, scanners and the sweeper run at the same time.  A metadata   *)
(* transaction is one step; so is a read, and so is a change of the body   *)
(* store.  Between two steps of one process the others move, or it dies.   *)
(* The digest of a payload stands for the payload.                         *)
(***************************************************************************)
EXTENDS Naturals, FiniteSets

CONSTANTS
    Payloads,    \* what may be streamed
    Kind,        \* what the inspection finds in each
    Uploaders,   \* calls of begin_intake and upload_content at the same time
    Scanners,    \* calls of finalize_upload at the same time
    None,
    MaxCrashes   \* bound on the processes that die

Kinds == {"good", "large", "conflicting", "malformed", "active"}
Unavailable == "REJECTED_SCANNER_UNAVAILABLE"
Rejections ==
    {"REJECTED_SIZE", "REJECTED_TYPE", "REJECTED_MALWARE", "REJECTED_ACTIVE_CONTENT",
     "REJECTED_MALFORMED", "REJECTED_TAMPERING", Unavailable}
Verdicts == Rejections \cup {"CLEAN"}
Statuses == {"DECLARED", "QUARANTINED", "SCANNING"} \cup Verdicts

ASSUME ArtifactAssumption ==
    /\ Kind \in [Payloads -> Kinds]
    /\ MaxCrashes \in Nat
    /\ None \notin Payloads \cup Uploaders \cup Scanners \cup Statuses

VARIABLES
    status,      \* ArtifactStatus, None before the declaration
    expected,    \* the digest the declaration names, if any
    sha256,      \* the digest of the quarantined generation
    journal,     \* its receipts; a unique index keeps one of each type
    ticket,      \* the upload ticket: who holds its token, spent or not
    lease,       \* the scanner that holds the scan lease, and whether it ran out
    receipts,    \* the security receipt of each digest: the status it stands for
    quarantine,  \* digests in the quarantine tree of the body store
    clean,       \* digests in its clean tree
    age,         \* since the declaration: 1 past the declare TTL, 2 past the clean TTL
    attached,    \* digests that bundles were given as clean
    uploads,     \* what each uploader does next, and what it holds
    scans,       \* what each scanner does next, and what it holds
    sweep,       \* what the sweeper does next, and what it read
    crashes      \* processes that died so far

intakeVars == <<expected, sha256, ticket>>
scanVars == <<lease, receipts>>
bodyVars == <<quarantine, clean>>
artifactVars ==
    <<status, intakeVars, journal, scanVars, bodyVars, age, attached, uploads, scans, sweep,
      crashes>>

Events ==
    {"artifact.declared", "artifact.quarantined", "artifact.scan_started",
     "artifact.scan_passed", "artifact.promoted", "artifact.rejected"}

ScanSteps == {"idle", "inspect", "evaluate"}
VerdictSteps == {"store", "finish", "promote", "complete", "ensure"}
SweepSteps ==
    {"idle", "look", "promote", "abandon", "complete", "reject", "lock", "refresh", "delete",
     "unlink"}

NoUpload == [pc |-> "idle", payload |-> None]
NoScan == [pc |-> "idle", verdict |-> None]
NoSweep == [pc |-> "idle", sha256 |-> None, age |-> 0, verdict |-> None]

ArtifactTypeOK ==
    /\ status \in Statuses \cup {None}
    /\ expected \in Payloads \cup {None} /\ sha256 \in Payloads \cup {None}
    /\ journal \subseteq Events
    /\ ticket \in [holder : Uploaders \cup {None}, spent : BOOLEAN]
    /\ lease \in [holder : Scanners \cup {None}, expired : BOOLEAN]
    /\ receipts \in [Payloads -> Verdicts \cup {None}]
    /\ quarantine \subseteq Payloads /\ clean \subseteq Payloads /\ attached \subseteq Payloads
    /\ age \in 0..2
    /\ uploads \in [Uploaders -> [pc : {"idle", "issue", "spend"}, payload : {None}]
                                \cup [pc : {"stream"}, payload : Payloads]]
    /\ scans \in [Scanners -> [pc : ScanSteps, verdict : {None}]
                            \cup [pc : VerdictSteps, verdict : Verdicts]]
    /\ sweep \in [pc : SweepSteps, sha256 : Payloads \cup {None}, age : 0..2,
                  verdict : Verdicts \cup {None}]
    /\ crashes \in 0..MaxCrashes

ArtifactInit ==
    /\ status = None
    /\ expected \in {d \in Payloads : Kind[d] # "large"} \cup {None}
    /\ sha256 = None
    /\ journal = {}
    /\ ticket = [holder |-> None, spent |-> FALSE]
    /\ lease = [holder |-> None, expired |-> TRUE]
    /\ receipts = [d \in Payloads |-> None]
    /\ quarantine = {} /\ clean = {} /\ attached = {}
    /\ age = 0
    /\ uploads = [u \in Uploaders |-> NoUpload]
    /\ scans = [s \in Scanners |-> NoScan]
    /\ sweep = NoSweep
    /\ crashes = 0

IsFinal(st) == st \in Verdicts
Logs(events) == journal' = journal \cup events
-------------------------------------------------------------------------------
UploadGoes(u, pc, d) == uploads' = [uploads EXCEPT ![u] = [pc |-> pc, payload |-> d]]
UploadEnds(u) == uploads' = [uploads EXCEPT ![u] = NoUpload]

\* begin_intake: declares, or finds the declaration of the same key still open ...
Declare(u) ==
    /\ uploads[u].pc = "idle"
    /\ status \in {None, "DECLARED"}
    /\ status' = "DECLARED" /\ Logs({"artifact.declared"})
    /\ UploadGoes(u, "issue", None)
    /\ UNCHANGED <<intakeVars, scanVars, bodyVars>>

\* ... and, whatever became of it since, issues a ticket in place of the one before.
IssueTicket(u) ==
    /\ uploads[u].pc = "issue"
    /\ ticket' = [holder |-> u, spent |-> FALSE]
    /\ UploadEnds(u)
    /\ UNCHANGED <<status, expected, sha256, journal, scanVars, bodyVars>>

\* upload_content: require_open, before the artifact is locked ...
RequireOpen(u, d) ==
    /\ uploads[u].pc = "idle"
    /\ ticket.holder = u /\ ~ticket.spent
    /\ UploadGoes(u, "stream", d)
    /\ UNCHANGED <<status, journal, intakeVars, scanVars, bodyVars>>

\* Mutant of Accepts: bytes are taken whatever the status says.
AcceptsInAnyStatus == TRUE

\* ... finalize_stream, under the lock ...
Accepts == status = "DECLARED"

Rejects(st) == status' = st /\ Logs({"artifact.rejected"})

FinalizeRejects(u) ==
    LET d == uploads[u].payload
    IN  /\ Accepts
        /\ \/ /\ Kind[d] = "large"
              /\ Rejects("REJECTED_SIZE")
              /\ UNCHANGED quarantine
           \/ /\ Kind[d] # "large" /\ expected \notin {None, d}
              /\ Rejects("REJECTED_TAMPERING")
              /\ quarantine' = quarantine \cup {d}
        /\ UploadEnds(u)
        /\ UNCHANGED sha256

FinalizeQuarantines(u) ==
    LET d == uploads[u].payload
    IN  /\ Accepts
        /\ Kind[d] # "large" /\ expected \in {None, d}
        /\ quarantine' = quarantine \cup {d}
        /\ sha256' = d
        /\ status' = "QUARANTINED" /\ Logs({"artifact.quarantined"})
        /\ UploadGoes(u, "spend", None)

\* A retry brings the same bytes once more; anything else is an error.
FinalizeRepeats(u) ==
    /\ ~Accepts
    /\ IF status = "QUARANTINED" /\ sha256 = uploads[u].payload
       THEN UploadGoes(u, "spend", None) ELSE UploadEnds(u)
    /\ UNCHANGED <<status, journal, sha256, quarantine>>

FinalizeStream(u) ==
    /\ uploads[u].pc = "stream"
    /\ FinalizeRejects(u) \/ FinalizeQuarantines(u) \/ FinalizeRepeats(u)
    /\ UNCHANGED <<expected, ticket, clean, scanVars>>

\* ... and spend: whatever ticket there is by now.
SpendTicket(u) ==
    /\ uploads[u].pc = "spend"
    /\ ticket' = [holder |-> ticket.holder, spent |-> TRUE]
    /\ UploadEnds(u)
    /\ UNCHANGED <<status, expected, sha256, journal, scanVars, bodyVars>>

\* It dies; the body may be on disk although the transaction was lost.
UploadDies(u) ==
    /\ uploads[u].pc # "idle"
    /\ \/ UNCHANGED quarantine
       \/ /\ uploads[u].pc = "stream" /\ Accepts /\ Kind[uploads[u].payload] # "large"
          /\ quarantine' = quarantine \cup {uploads[u].payload}
    /\ UploadEnds(u)
    /\ UNCHANGED <<status, journal, intakeVars, scanVars, clean>>
-------------------------------------------------------------------------------
ScanGoes(s, pc, verdict) == scans' = [scans EXCEPT ![s] = [pc |-> pc, verdict |-> verdict]]
ScanEnds(s) == scans' = [scans EXCEPT ![s] = NoScan]
Takes(s) == lease' = [holder |-> s, expired |-> FALSE]

\* finalize_upload of an artifact that has bytes and no verdict.
FinalizeUpload(s) ==
    /\ scans[s].pc = "idle"
    /\ status \in {"QUARANTINED", "SCANNING"}
    /\ ScanGoes(s, "inspect", None)
    /\ UNCHANGED <<status, journal, receipts, lease, clean>>

\* Mutant of InspectFinal: a verdict is taken to have a security receipt.
InspectFinalBlindly(s) ==
    /\ scans[s].pc = "inspect"
    /\ IsFinal(status)
    /\ ScanGoes(s, "ensure", receipts[sha256])
    /\ UNCHANGED <<status, journal, receipts, lease, clean>>

\* inspect of an artifact that another call finished.
InspectFinal(s) ==
    /\ scans[s].pc = "inspect"
    /\ IsFinal(status)
    /\ IF receipts[sha256] # None THEN ScanGoes(s, "ensure", receipts[sha256]) ELSE ScanEnds(s)
    /\ UNCHANGED <<status, journal, receipts, lease, clean>>

\* claim_scan_lease: there is a security receipt that only has to be finished ...
ClaimScanned(s) ==
    /\ scans[s].pc = "inspect"
    /\ ~IsFinal(status)
    /\ receipts[sha256] # None
    /\ status' = "SCANNING"
    /\ Takes(s)
    /\ ScanGoes(s, "finish", receipts[sha256])
    /\ UNCHANGED <<journal, receipts, clean>>

\* Mutant of IsClaimable: an abandoned scan is not taken over.
IsClaimableOnce == status = "QUARANTINED"

\* ... or the artifact waits for a scan, or the scan's lease ran out ...
IsClaimable == status = "QUARANTINED" \/ (status = "SCANNING" /\ lease.expired)

ClaimScan(s) ==
    /\ scans[s].pc = "inspect"
    /\ receipts[sha256] = None
    /\ IsClaimable
    /\ status' = "SCANNING" /\ Logs({"artifact.scan_started"})
    /\ Takes(s)
    /\ ScanGoes(s, "evaluate", None)
    /\ UNCHANGED <<receipts, clean>>

\* ... or another call is scanning it (ArtifactConflictError).
ClaimRefused(s) ==
    /\ scans[s].pc = "inspect"
    /\ ~IsFinal(status) /\ receipts[sha256] = None
    /\ ~IsClaimable
    /\ ScanEnds(s)
    /\ UNCHANGED <<status, journal, receipts, lease, clean>>

\* type_conflict_reason: the detected family is not allowed, or not the declared one.
Conflicts(d) == Kind[d] = "conflicting"

\* What a scanner answers; ClamAvScanner's errors and timeouts reject as one.
ScanOutcomes == {"clean", "infected", "unavailable"}

\* Mutant of Validation: the contents are not looked at.
ValidationSkipped(d) == "CLEAN"

\* validate_payload
Validation(d) ==
    CASE Kind[d] = "malformed" -> "REJECTED_MALFORMED"
      [] Kind[d] = "active"    -> "REJECTED_ACTIVE_CONTENT"
      [] OTHER                 -> "CLEAN"

\* _evaluate, what it makes of the scanner's answer
Decision(d, outcome) ==
    CASE d \notin quarantine     -> "REJECTED_TAMPERING"
      [] Conflicts(d)            -> "REJECTED_TYPE"
      [] outcome = "infected"    -> "REJECTED_MALWARE"
      [] outcome = "unavailable" -> Unavailable
      [] OTHER                   -> Validation(d)

\* An exception on the way counts as a scanner that is not available.
Evaluate(s) ==
    /\ scans[s].pc = "evaluate"
    /\ \/ \E outcome \in ScanOutcomes : ScanGoes(s, "store", Decision(sha256, outcome))
       \/ ScanGoes(s, "store", Unavailable)
    /\ UNCHANGED <<status, journal, receipts, lease, clean>>

\* Mutant of PutSecurityReceipt: the last scanner's verdict replaces the first one's.
PutOver(d, verdict) == receipts' = [receipts EXCEPT ![d] = verdict]

\* put_security_receipt: one per digest, the first one stored counts.
PutSecurityReceipt(d, verdict) ==
    receipts' = [receipts EXCEPT ![d] = IF @ = None THEN verdict ELSE @]

StoreReceipt(s) ==
    /\ scans[s].pc = "store"
    /\ PutSecurityReceipt(sha256, scans[s].verdict)
    /\ IF receipts[sha256] = None
       THEN ScanGoes(s, "promote", scans[s].verdict)
       ELSE ScanGoes(s, "finish", receipts[sha256])
    /\ UNCHANGED <<status, journal, lease, clean>>

\* _finish_from_receipt
Finish(s) ==
    /\ scans[s].pc = "finish"
    /\ ScanGoes(s, IF IsFinal(status) THEN "ensure" ELSE "promote", scans[s].verdict)
    /\ UNCHANGED <<status, journal, receipts, lease, clean>>

\* _promote_clean_or_reject: a clean verdict stands if the body can be made readable.
Promoted(d, verdict) ==
    IF verdict = "CLEAN" /\ d \notin quarantine \cup clean
    THEN "REJECTED_TAMPERING" ELSE verdict

\* Mutant of PromoteClean: the copy to the clean tree is forgotten.
PromoteNothing(d, verdict) == UNCHANGED clean

\* promote_clean, if the digest is not in the clean tree yet.
PromoteClean(d, verdict) ==
    clean' = IF verdict = "CLEAN" /\ d \in quarantine THEN clean \cup {d} ELSE clean

Promote(s) ==
    /\ scans[s].pc = "promote"
    /\ PromoteClean(sha256, scans[s].verdict)
    /\ ScanGoes(s, "complete", Promoted(sha256, scans[s].verdict))
    /\ UNCHANGED <<status, journal, receipts, lease>>

\* Mutant of CanComplete: a call that comes late completes the scan again.
CanCompleteAgain(holder) == TRUE

\* complete_scan takes effect on an artifact that is SCANNING, from whoever holds the
\* lease or brings a verdict that is stored.
CanComplete(holder) ==
    /\ status = "SCANNING"
    /\ lease.holder \in {holder, None} \/ lease.expired \/ receipts[sha256] # None

\* The stored verdict decides, except that a clean one may be overridden by a rejection.
Bound(verdict) ==
    IF receipts[sha256] = None \/ (receipts[sha256] = "CLEAN" /\ verdict \in Rejections)
    THEN verdict ELSE receipts[sha256]

CompleteScan(holder, verdict) ==
    IF CanComplete(holder)
    THEN /\ status' = Bound(verdict)
         /\ Logs(IF Bound(verdict) = "CLEAN"
                 THEN {"artifact.scan_passed", "artifact.promoted"} ELSE {"artifact.rejected"})
         /\ lease' = [holder |-> None, expired |-> TRUE]
    ELSE UNCHANGED <<status, journal, lease>>

Complete(s) ==
    /\ scans[s].pc = "complete"
    /\ CompleteScan(s, scans[s].verdict)
    /\ ScanEnds(s)
    /\ UNCHANGED <<receipts, clean>>

\* _ensure_clean_body
EnsureCleanBody(s) ==
    /\ scans[s].pc = "ensure"
    /\ PromoteClean(sha256, scans[s].verdict)
    /\ ScanEnds(s)
    /\ UNCHANGED <<status, journal, receipts, lease>>

ScanDies(s) ==
    /\ scans[s].pc # "idle"
    /\ ScanEnds(s)
    /\ UNCHANGED <<status, journal, receipts, lease, clean>>
-------------------------------------------------------------------------------
SweepGoes(pc, verdict) ==
    sweep' = [pc |-> pc, sha256 |-> sweep.sha256, age |-> sweep.age, verdict |-> verdict]
SweepEnds == sweep' = NoSweep

\* purge lists the artifacts; what follows works on what the list said.
ListArtifacts ==
    LET pc == CASE status = "SCANNING" /\ lease.expired -> "look"
                [] status \in {"DECLARED", "QUARANTINED"} /\ age >= 1 -> "reject"
                [] status \in Rejections /\ age >= 1 -> "delete"
                [] status = "CLEAN" /\ age = 2 -> "delete"
                [] OTHER -> "idle"
    IN  /\ sweep.pc = "idle" /\ pc # "idle"
        /\ sweep' = [pc |-> pc, sha256 |-> sha256, age |-> age, verdict |-> None]
        /\ UNCHANGED <<status, journal, scanVars, bodyVars>>

\* _purge_one of a scan whose lease ran out: is there a receipt to finish from?
LookAtScan ==
    LET stored == receipts[sweep.sha256]
    IN  /\ sweep.pc = "look"
        /\ IF stored = None THEN SweepGoes("abandon", None) ELSE SweepGoes("promote", stored)
        /\ UNCHANGED <<status, journal, scanVars, bodyVars>>

SweepPromotes ==
    /\ sweep.pc = "promote"
    /\ PromoteClean(sweep.sha256, sweep.verdict)
    /\ SweepGoes("complete", Promoted(sweep.sha256, sweep.verdict))
    /\ UNCHANGED <<status, journal, scanVars, quarantine>>

\* _reject_unavailable stores a receipt of its own unless there is one ...
SweepRejects ==
    /\ sweep.pc \in {"reject", "abandon"}
    /\ IF sweep.sha256 = None
       THEN UNCHANGED receipts
       ELSE PutSecurityReceipt(sweep.sha256, Unavailable)
    /\ SweepGoes(IF sweep.pc = "abandon" THEN "complete" ELSE "lock", Unavailable)
    /\ UNCHANGED <<status, journal, lease, bodyVars>>

\* ... and completes the scan with its own verdict, whatever the receipt says (there is
\* one, so the lease does not matter); an error ends the purge ...
SweepCompletes ==
    /\ sweep.pc = "complete"
    /\ CompleteScan(None, sweep.verdict)
    /\ IF status \in {"SCANNING", sweep.verdict} THEN SweepGoes("refresh", None) ELSE SweepEnds
    /\ UNCHANGED <<receipts, bodyVars>>

\* ... or rejects the artifact if it still waits for its bytes or its scan.
SweepLocks ==
    /\ sweep.pc = "lock"
    /\ IF status \in {"DECLARED", "QUARANTINED"}
       THEN Rejects(Unavailable) ELSE UNCHANGED <<status, journal>>
    /\ SweepGoes("refresh", None)
    /\ UNCHANGED <<scanVars, bodyVars>>

\* Mutant of MayDelete: what the sweep decided is taken for what happened.
MayDeleteAsDecided == sweep.age >= 1

\* The artifact is read again: only a verdict lets go of the bodies.
MayDelete ==
    \/ status \in Rejections /\ sweep.age >= 1
    \/ status = "CLEAN" /\ sweep.age = 2

Refresh ==
    /\ sweep.pc = "refresh"
    /\ IF MayDelete
       THEN sweep' = [pc |-> "delete", sha256 |-> sha256, age |-> sweep.age, verdict |-> None]
       ELSE SweepEnds
    /\ UNCHANGED <<status, journal, scanVars, bodyVars>>

\* delete_generation: first the quarantined body, then the clean one.
DeleteQuarantined ==
    /\ sweep.pc = "delete"
    /\ quarantine' = quarantine \ {sweep.sha256}
    /\ SweepGoes("unlink", None)
    /\ UNCHANGED <<status, journal, scanVars, clean>>

DeleteClean ==
    /\ sweep.pc = "unlink"
    /\ clean' = clean \ {sweep.sha256}
    /\ SweepEnds
    /\ UNCHANGED <<status, journal, scanVars, quarantine>>

SweepDies ==
    /\ sweep.pc # "idle"
    /\ SweepEnds
    /\ UNCHANGED <<status, journal, scanVars, bodyVars>>
-------------------------------------------------------------------------------
\* Mutant of IsAttachable: a readable body is taken to be a clean artifact.
IsReadable == sha256 \in clean

\* A bundle is given the artifact: resolve_bundle or verify_bundle_generation.  What it
\* reads before the body, the status and the receipt, no longer changes.
IsAttachable ==
    /\ status = "CLEAN"
    /\ receipts[sha256] = "CLEAN"
    /\ sha256 \in clean

Attach ==
    /\ IsAttachable
    /\ attached' = attached \cup {sha256}
    /\ UNCHANGED <<status, journal, intakeVars, scanVars, bodyVars, age, uploads, scans, sweep,
                   crashes>>

LeaseExpires ==
    /\ lease.holder # None /\ ~lease.expired
    /\ lease' = [holder |-> lease.holder, expired |-> TRUE]
    /\ UNCHANGED <<status, journal, intakeVars, receipts, bodyVars, age, attached, uploads,
                   scans, sweep, crashes>>

Ages ==
    /\ status # None /\ age < 2
    /\ age' = age + 1
    /\ UNCHANGED <<status, journal, intakeVars, scanVars, bodyVars, attached, uploads, scans,
                   sweep, crashes>>

UploadStep(u) ==
    /\ \/ Declare(u) \/ IssueTicket(u)
       \/ \E d \in Payloads : RequireOpen(u, d)
       \/ FinalizeStream(u) \/ SpendTicket(u)
    /\ UNCHANGED <<age, attached, scans, sweep, crashes>>

ScanStep(s) ==
    /\ \/ FinalizeUpload(s) \/ InspectFinal(s)
       \/ ClaimScanned(s) \/ ClaimScan(s) \/ ClaimRefused(s)
       \/ Evaluate(s) \/ StoreReceipt(s) \/ Finish(s)
       \/ Promote(s) \/ Complete(s) \/ EnsureCleanBody(s)
    /\ UNCHANGED <<intakeVars, quarantine, age, attached, uploads, sweep, crashes>>

SweepStep ==
    /\ \/ ListArtifacts \/ LookAtScan \/ SweepPromotes \/ SweepRejects
       \/ SweepCompletes \/ SweepLocks \/ Refresh
       \/ DeleteQuarantined \/ DeleteClean
    /\ UNCHANGED <<intakeVars, age, attached, uploads, scans, crashes>>

Crash ==
    /\ crashes < MaxCrashes
    /\ crashes' = crashes + 1
    /\ \/ \E u \in Uploaders : UploadDies(u) /\ UNCHANGED <<scans, sweep>>
       \/ \E s \in Scanners :
             ScanDies(s) /\ UNCHANGED <<intakeVars, quarantine, uploads, sweep>>
       \/ SweepDies /\ UNCHANGED <<intakeVars, uploads, scans>>
    /\ UNCHANGED <<age, attached>>

ArtifactNext ==
    \/ \E u \in Uploaders : UploadStep(u)
    \/ \E s \in Scanners : ScanStep(s)
    \/ SweepStep
    \/ Attach \/ LeaseExpires \/ Ages
    \/ Crash

ArtifactSpec == ArtifactInit /\ [][ArtifactNext]_artifactVars

\* The owner calls finalize_upload again and again, one of the calls goes on (the others
\* may hang), and time passes.
ArtifactFairness ==
    /\ WF_artifactVars(\E s \in Scanners : ScanStep(s))
    /\ WF_artifactVars(LeaseExpires)

FairArtifactSpec == ArtifactSpec /\ ArtifactFairness
-------------------------------------------------------------------------------
\* The verdict on accepted bytes is the one security receipt of their digest, whichever of
\* several scans wrote it, except for a scan the sweeper gave up (complete_scan lets its
\* rejection win); and an artifact is CLEAN only if its bytes are the declared ones, of the
\* declared type and valid (_evaluate, put_security_receipt).
VerdictIsEarned ==
    /\ IsFinal(status) /\ sha256 # None => status \in {receipts[sha256], Unavailable}
    /\ status = "CLEAN" =>
          /\ sha256 \in Payloads /\ expected \in {None, sha256}
          /\ Kind[sha256] = "good"
          /\ receipts[sha256] = "CLEAN"

\* No body is in the clean tree whose digest was not found clean: neither a late scanner
\* nor the sweeper promotes on a verdict that lost (inspect, _purge_one, promote_clean).
CleanBodyIsScanned == \A d \in clean : d = sha256 /\ receipts[d] = "CLEAN"

\* The receipts in the journal tell the verdict: exactly one of passed and rejected once
\* there is one, neither before, for all the uploads, scans and sweeps that race to log it.
JournalAgrees ==
    /\ status = "CLEAN" <=> "artifact.scan_passed" \in journal
    /\ status \in Rejections <=> "artifact.rejected" \in journal
    /\ sha256 # None <=> "artifact.quarantined" \in journal

\* The bytes of an artifact that waits for its verdict are there to be scanned: the sweeper
\* decides from an old listing, and yet never deletes what a scanner has claimed since
\* (_purge_one reads the artifact again before _delete_bodies).
BodyKeptUntilVerdict == status \in {"QUARANTINED", "SCANNING"} => sha256 \in quarantine

\* A CLEAN artifact can be read until the clean TTL has passed: the status is stored after
\* the body, by whichever call comes first, and crashes between the two leave no gap
\* (_promote_clean_or_reject before complete_scan).
CleanIsReadable == status = "CLEAN" /\ age < 2 => sha256 \in clean

\* What a bundle was once given as clean is the artifact's only generation, and the
\* artifact is CLEAN for ever after (_attachable_reference, _clean_reference).
AttachedStaysClean == attached # {} => status = "CLEAN" /\ attached = {sha256}

\* No late scan, repeated upload or sweep changes a verdict (complete_scan and
\* finalize_stream look at the status under the lock).
VerdictIsFinal == [][IsFinal(status) => status' = status]_artifactVars

\* The bytes that were accepted are never replaced, however many tickets are issued and
\* however the uploads race (docs/ARCHITECTURE.md:52, "one-time upload ticket").
OneGeneration == [][sha256 # None => sha256' = sha256]_artifactVars

\* Uploaded bytes get a verdict: scans may die, lose their lease and be taken over, but
\* as long as finalize_upload is called again one of them ends (claim_scan_lease).
ScanEndsAtLast == (status \in {"QUARANTINED", "SCANNING"}) ~> IsFinal(status)
===============================================================================

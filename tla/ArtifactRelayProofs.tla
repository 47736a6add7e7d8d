-------------------------- MODULE ArtifactRelayProofs --------------------------
(***************************************************************************)
(* Theorems about ArtifactRelay, for any number of payloads, uploaders,    *)
(* scanners and crashes: a CLEAN artifact is what its security receipt     *)
(* says, its body is readable and no other one is, a verdict is final and  *)
(* the accepted bytes are never replaced.                                  *)
(***************************************************************************)
EXTENDS ArtifactRelay, TLAPS

\* There is one generation, and everything is about it.
Generation ==
    /\ status \in {None, "DECLARED"} => sha256 = None
    /\ status \in {"QUARANTINED", "SCANNING", "CLEAN"} => sha256 # None
    /\ sha256 # None => expected \in {None, sha256} /\ Kind[sha256] # "large"
    /\ \A d \in Payloads : receipts[d] # None => d = sha256
    /\ \A s \in Scanners : scans[s].pc # "idle" => sha256 # None
    /\ sweep.sha256 \in {None, sha256}
    /\ sweep.pc \in {"look", "promote", "abandon", "complete"} => sweep.sha256 # None

\* What a scanner or the sweeper is about to write agrees with the stored receipt.
VerdictsAreStored ==
    /\ \A d \in Payloads : receipts[d] = "CLEAN" => Kind[d] = "good"
    /\ \A s \in Scanners :
          /\ scans[s].pc \in VerdictSteps /\ scans[s].verdict = "CLEAN" =>
                Kind[sha256] = "good"
          /\ scans[s].pc \in VerdictSteps \ {"store"} =>
                /\ receipts[sha256] # None
                /\ scans[s].verdict = "CLEAN" => receipts[sha256] = "CLEAN"
          /\ scans[s].pc \in {"finish", "promote"} => scans[s].verdict = receipts[sha256]
          /\ scans[s].pc = "complete" /\ ~IsFinal(status) =>
                scans[s].verdict = receipts[sha256]
    /\ sweep.pc \in {"promote", "complete"} =>
          /\ receipts[sha256] # None
          /\ sweep.verdict # None
          /\ sweep.verdict = "CLEAN" => receipts[sha256] = "CLEAN"
    /\ sweep.pc = "promote" => sweep.verdict = receipts[sha256]
    /\ sweep.pc = "complete" /\ ~IsFinal(status) =>
          sweep.verdict \in {receipts[sha256], Unavailable}
    /\ IsFinal(status) /\ sha256 # None => status \in {receipts[sha256], Unavailable}
    /\ status = "CLEAN" => receipts[sha256] = "CLEAN"

\* Who completes a scan as clean has promoted its body, and nobody deletes before that.
BodiesAreThere ==
    /\ \A s \in Scanners :
          scans[s].pc = "complete" /\ scans[s].verdict = "CLEAN" /\ ~IsFinal(status) =>
              sha256 \in clean
    /\ sweep.pc = "complete" /\ sweep.verdict = "CLEAN" /\ ~IsFinal(status) => sha256 \in clean
    /\ sweep.pc \in {"delete", "unlink"} => IsFinal(status) /\ (status = "CLEAN" => age = 2)
    /\ sweep.age <= age
    /\ BodyKeptUntilVerdict
    /\ CleanIsReadable
    /\ CleanBodyIsScanned

ArtifactInductive ==
    /\ ArtifactTypeOK
    /\ Generation
    /\ VerdictsAreStored
    /\ BodiesAreThere
    /\ JournalAgrees
    /\ AttachedStaysClean
-------------------------------------------------------------------------------
LEMMA InitHolds == ArtifactInit => ArtifactInductive
  BY ArtifactAssumption
     DEF ArtifactInit, ArtifactInductive, ArtifactTypeOK, Generation, VerdictsAreStored,
         BodiesAreThere, BodyKeptUntilVerdict, CleanIsReadable, CleanBodyIsScanned,
         JournalAgrees, AttachedStaysClean, NoUpload, NoScan, NoSweep, ScanSteps,
         VerdictSteps, SweepSteps, Statuses, Verdicts, Rejections, Unavailable, IsFinal

-------------------------------------------------------------------------------
\* A completed scan ends as its stored receipt says, or as a rejection.
LEMMA Completes ==
    ASSUME ArtifactInductive, NEW holder, NEW verdict \in Verdicts,
           receipts[sha256] \in Verdicts,
           verdict = "CLEAN" => receipts[sha256] = "CLEAN",
           CompleteScan(holder, verdict)
    PROVE  /\ \/ UNCHANGED <<status, journal, lease>>
              \/ /\ status = "SCANNING" /\ status' \in Verdicts \cap {verdict, receipts[sha256]}
                 /\ status' = "CLEAN" => verdict = "CLEAN" /\ receipts[sha256] = "CLEAN"
                 /\ lease' = [holder |-> None, expired |-> TRUE]
                 /\ status' = "CLEAN" =>
                       journal' = journal \cup {"artifact.scan_passed", "artifact.promoted"}
                 /\ status' # "CLEAN" => journal' = journal \cup {"artifact.rejected"}
           /\ status' \in Statuses \cup {None} /\ journal' \subseteq Events
           /\ lease' \in [holder : Scanners \cup {None}, expired : BOOLEAN]
  <1>1. \/ UNCHANGED <<status, journal, lease>>
        \/ /\ status = "SCANNING" /\ status' \in Verdicts \cap {verdict, receipts[sha256]}
           /\ status' = "CLEAN" => verdict = "CLEAN" /\ receipts[sha256] = "CLEAN"
           /\ lease' = [holder |-> None, expired |-> TRUE]
           /\ status' = "CLEAN" =>
                 journal' = journal \cup {"artifact.scan_passed", "artifact.promoted"}
           /\ status' # "CLEAN" => journal' = journal \cup {"artifact.rejected"}
    <2>1. CASE CanComplete(holder)
      <3>1. /\ status = "SCANNING" /\ status' = Bound(verdict)
            /\ Bound(verdict) \in Verdicts \cap {verdict, receipts[sha256]}
            /\ Bound(verdict) = "CLEAN" => verdict = "CLEAN" /\ receipts[sha256] = "CLEAN"
        BY <2>1 DEF CompleteScan, CanComplete, Bound, Verdicts, Rejections, Unavailable
      <3> QED
        BY <2>1, <3>1 DEF CompleteScan, Logs
    <2>2. CASE ~CanComplete(holder)
      <3>1. UNCHANGED <<status, journal, lease>>
        BY <2>2 DEF CompleteScan, CanComplete
      <3> QED
        BY <3>1
    <2> QED
      BY <2>1, <2>2
  <1>2. /\ status \in Statuses \cup {None} /\ journal \subseteq Events
        /\ lease \in [holder : Scanners \cup {None}, expired : BOOLEAN]
    BY DEF ArtifactInductive, ArtifactTypeOK
  <1>3. /\ status' \in Statuses \cup {None} /\ journal' \subseteq Events
        /\ lease' \in [holder : Scanners \cup {None}, expired : BOOLEAN]
    <2>1. CASE UNCHANGED <<status, journal, lease>>
      BY <1>2, <2>1
    <2>2. CASE /\ status' \in Verdicts
               /\ lease' = [holder |-> None, expired |-> TRUE]
               /\ status' = "CLEAN" =>
                     journal' = journal \cup {"artifact.scan_passed", "artifact.promoted"}
               /\ status' # "CLEAN" => journal' = journal \cup {"artifact.rejected"}
      BY <1>2, <2>2 DEF Statuses, Events
    <2> QED
      BY <1>1, <2>1, <2>2
  <1> QED
    BY <1>1, <1>3

-------------------------------------------------------------------------------
\* What a scanner does, and that it may die.
ScanMoves(s) ==
    /\ \/ FinalizeUpload(s) \/ InspectFinal(s) \/ ClaimScanned(s) \/ ClaimScan(s)
       \/ ClaimRefused(s) \/ Evaluate(s) \/ StoreReceipt(s) \/ Finish(s) \/ Promote(s)
       \/ Complete(s) \/ EnsureCleanBody(s) \/ ScanDies(s)
    /\ UNCHANGED <<intakeVars, quarantine, age, attached, uploads, sweep>>
    /\ crashes' \in 0..MaxCrashes

LEMMA ScanTypes ==
    ASSUME ArtifactInductive, NEW s \in Scanners, ScanMoves(s)
    PROVE  ArtifactTypeOK'
  <1> USE ArtifactAssumption DEF
        ArtifactInductive, ScanMoves, intakeVars, scanVars, bodyVars, ArtifactTypeOK, IsFinal,
        ScanSteps, VerdictSteps, SweepSteps, Statuses, Verdicts, Rejections, Unavailable,
        Events, Generation, VerdictsAreStored
  <1>1. CASE FinalizeUpload(s)
    BY <1>1 DEF FinalizeUpload, NoScan, ScanGoes, ScanEnds, Takes, Logs
  <1>2. CASE InspectFinal(s)
    BY <1>2 DEF InspectFinal, NoScan, ScanGoes, ScanEnds, Takes, Logs
  <1>3. CASE ClaimScanned(s)
    BY <1>3 DEF ClaimScanned, NoScan, ScanGoes, ScanEnds, Takes, Logs
  <1>4. CASE ClaimScan(s)
    BY <1>4 DEF ClaimScan, NoScan, ScanGoes, ScanEnds, Takes, Logs, IsClaimable
  <1>5. CASE ClaimRefused(s)
    BY <1>5 DEF ClaimRefused, NoScan, ScanGoes, ScanEnds, Takes, Logs
  <1>6. CASE Evaluate(s)
    BY <1>6 DEF
           Evaluate, NoScan, ScanGoes, ScanEnds, Takes, Logs, Decision, Validation, Conflicts,
           Kinds
  <1>7. CASE StoreReceipt(s)
    BY <1>7 DEF StoreReceipt, NoScan, ScanGoes, ScanEnds, Takes, Logs, PutSecurityReceipt
  <1>8. CASE Finish(s)
    BY <1>8 DEF Finish, NoScan, ScanGoes, ScanEnds, Takes, Logs
  <1>9. CASE Promote(s)
    BY <1>9 DEF Promote, NoScan, ScanGoes, ScanEnds, Takes, Logs, PromoteClean, Promoted
  <1>10. CASE Complete(s)
    <2>1. /\ scans[s].verdict \in Verdicts /\ receipts[sha256] \in Verdicts
          /\ scans[s].verdict = "CLEAN" => receipts[sha256] = "CLEAN"
      BY <1>10 DEF Complete, Generation, VerdictsAreStored
    <2>2. CompleteScan(s, scans[s].verdict)
      BY <1>10 DEF Complete
    <2>3. /\ status' \in Statuses \cup {None} /\ journal' \subseteq Events
          /\ lease' \in [holder : Scanners \cup {None}, expired : BOOLEAN]
      BY <2>1, <2>2, Completes
    <2> QED
      BY <1>10, <2>3 DEF Complete, NoScan, ScanGoes, ScanEnds, Takes, Logs
  <1>11. CASE EnsureCleanBody(s)
    BY <1>11 DEF EnsureCleanBody, NoScan, ScanGoes, ScanEnds, Takes, Logs, PromoteClean
  <1>12. CASE ScanDies(s)
    BY <1>12 DEF ScanDies, NoScan, ScanGoes, ScanEnds, Takes, Logs
  <1> QED
    BY <1>1, <1>2, <1>3, <1>4, <1>5, <1>6, <1>7, <1>8, <1>9, <1>10, <1>11, <1>12

LEMMA ScanGeneration ==
    ASSUME ArtifactInductive, NEW s \in Scanners, ScanMoves(s)
    PROVE  Generation'
  <1> USE ArtifactAssumption DEF
        ArtifactInductive, ScanMoves, intakeVars, scanVars, bodyVars, ArtifactTypeOK, IsFinal,
        ScanSteps, VerdictSteps, SweepSteps, Statuses, Verdicts, Rejections, Unavailable,
        Events, Generation
  <1>1. CASE FinalizeUpload(s)
    BY <1>1 DEF FinalizeUpload, NoScan, ScanGoes, ScanEnds, Takes, Logs
  <1>2. CASE InspectFinal(s)
    BY <1>2 DEF InspectFinal, NoScan, ScanGoes, ScanEnds, Takes, Logs
  <1>3. CASE ClaimScanned(s)
    BY <1>3 DEF ClaimScanned, NoScan, ScanGoes, ScanEnds, Takes, Logs
  <1>4. CASE ClaimScan(s)
    BY <1>4 DEF ClaimScan, NoScan, ScanGoes, ScanEnds, Takes, Logs, IsClaimable
  <1>5. CASE ClaimRefused(s)
    BY <1>5 DEF ClaimRefused, NoScan, ScanGoes, ScanEnds, Takes, Logs
  <1>6. CASE Evaluate(s)
    BY <1>6 DEF
           Evaluate, NoScan, ScanGoes, ScanEnds, Takes, Logs, Decision, Validation, Conflicts,
           Kinds
  <1>7. CASE StoreReceipt(s)
    BY <1>7 DEF StoreReceipt, NoScan, ScanGoes, ScanEnds, Takes, Logs, PutSecurityReceipt
  <1>8. CASE Finish(s)
    BY <1>8 DEF Finish, NoScan, ScanGoes, ScanEnds, Takes, Logs
  <1>9. CASE Promote(s)
    BY <1>9 DEF Promote, NoScan, ScanGoes, ScanEnds, Takes, Logs, PromoteClean, Promoted
  <1>10. CASE Complete(s)
    <2>1. /\ scans[s].verdict \in Verdicts /\ receipts[sha256] \in Verdicts
          /\ scans[s].verdict = "CLEAN" => receipts[sha256] = "CLEAN"
      BY <1>10 DEF Complete, Generation, VerdictsAreStored
    <2>2. CompleteScan(s, scans[s].verdict)
      BY <1>10 DEF Complete
    <2> QED
      BY <1>10, <2>1, <2>2, Completes DEF Complete, NoScan, ScanGoes, ScanEnds, Takes, Logs
  <1>11. CASE EnsureCleanBody(s)
    BY <1>11 DEF EnsureCleanBody, NoScan, ScanGoes, ScanEnds, Takes, Logs, PromoteClean
  <1>12. CASE ScanDies(s)
    BY <1>12 DEF ScanDies, NoScan, ScanGoes, ScanEnds, Takes, Logs
  <1> QED
    BY <1>1, <1>2, <1>3, <1>4, <1>5, <1>6, <1>7, <1>8, <1>9, <1>10, <1>11, <1>12

LEMMA ScanVerdicts ==
    ASSUME ArtifactInductive, NEW s \in Scanners, ScanMoves(s)
    PROVE  VerdictsAreStored'
  <1> USE ArtifactAssumption DEF
        ArtifactInductive, ScanMoves, intakeVars, scanVars, bodyVars, ArtifactTypeOK, IsFinal,
        ScanSteps, VerdictSteps, SweepSteps, Statuses, Verdicts, Rejections, Unavailable,
        Events, Generation, VerdictsAreStored
  <1>1. CASE FinalizeUpload(s)
    BY <1>1 DEF FinalizeUpload, NoScan, ScanGoes, ScanEnds, Takes, Logs
  <1>2. CASE InspectFinal(s)
    BY <1>2 DEF InspectFinal, NoScan, ScanGoes, ScanEnds, Takes, Logs
  <1>3. CASE ClaimScanned(s)
    BY <1>3 DEF ClaimScanned, NoScan, ScanGoes, ScanEnds, Takes, Logs
  <1>4. CASE ClaimScan(s)
    BY <1>4 DEF ClaimScan, NoScan, ScanGoes, ScanEnds, Takes, Logs, IsClaimable
  <1>5. CASE ClaimRefused(s)
    BY <1>5 DEF ClaimRefused, NoScan, ScanGoes, ScanEnds, Takes, Logs
  <1>6. CASE Evaluate(s)
    BY <1>6 DEF
           Evaluate, NoScan, ScanGoes, ScanEnds, Takes, Logs, Decision, Validation, Conflicts,
           Kinds
  <1>7. CASE StoreReceipt(s)
    BY <1>7 DEF StoreReceipt, NoScan, ScanGoes, ScanEnds, Takes, Logs, PutSecurityReceipt
  <1>8. CASE Finish(s)
    BY <1>8 DEF Finish, NoScan, ScanGoes, ScanEnds, Takes, Logs
  <1>9. CASE Promote(s)
    BY <1>9 DEF Promote, NoScan, ScanGoes, ScanEnds, Takes, Logs, PromoteClean, Promoted,
           BodiesAreThere, BodyKeptUntilVerdict
  <1>10. CASE Complete(s)
    <2>1. /\ scans[s].verdict \in Verdicts /\ receipts[sha256] \in Verdicts
          /\ scans[s].verdict = "CLEAN" => receipts[sha256] = "CLEAN"
      BY <1>10 DEF Complete, Generation, VerdictsAreStored
    <2>2. CompleteScan(s, scans[s].verdict)
      BY <1>10 DEF Complete
    <2> QED
      BY <1>10, <2>1, <2>2, Completes DEF Complete, NoScan, ScanGoes, ScanEnds, Takes, Logs
  <1>11. CASE EnsureCleanBody(s)
    BY <1>11 DEF EnsureCleanBody, NoScan, ScanGoes, ScanEnds, Takes, Logs, PromoteClean
  <1>12. CASE ScanDies(s)
    BY <1>12 DEF ScanDies, NoScan, ScanGoes, ScanEnds, Takes, Logs
  <1> QED
    BY <1>1, <1>2, <1>3, <1>4, <1>5, <1>6, <1>7, <1>8, <1>9, <1>10, <1>11, <1>12

LEMMA ScanBodies ==
    ASSUME ArtifactInductive, NEW s \in Scanners, ScanMoves(s)
    PROVE  BodiesAreThere'
  <1> USE ArtifactAssumption DEF
        ArtifactInductive, ScanMoves, intakeVars, scanVars, bodyVars, ArtifactTypeOK, IsFinal,
        ScanSteps, VerdictSteps, SweepSteps, Statuses, Verdicts, Rejections, Unavailable,
        Events, Generation, VerdictsAreStored, BodiesAreThere, BodyKeptUntilVerdict,
        CleanIsReadable, CleanBodyIsScanned
  <1>1. CASE FinalizeUpload(s)
    BY <1>1 DEF FinalizeUpload, NoScan, ScanGoes, ScanEnds, Takes, Logs
  <1>2. CASE InspectFinal(s)
    BY <1>2 DEF InspectFinal, NoScan, ScanGoes, ScanEnds, Takes, Logs
  <1>3. CASE ClaimScanned(s)
    BY <1>3 DEF ClaimScanned, NoScan, ScanGoes, ScanEnds, Takes, Logs
  <1>4. CASE ClaimScan(s)
    BY <1>4 DEF ClaimScan, NoScan, ScanGoes, ScanEnds, Takes, Logs, IsClaimable
  <1>5. CASE ClaimRefused(s)
    BY <1>5 DEF ClaimRefused, NoScan, ScanGoes, ScanEnds, Takes, Logs
  <1>6. CASE Evaluate(s)
    BY <1>6 DEF
           Evaluate, NoScan, ScanGoes, ScanEnds, Takes, Logs, Decision, Validation, Conflicts,
           Kinds
  <1>7. CASE StoreReceipt(s)
    BY <1>7 DEF StoreReceipt, NoScan, ScanGoes, ScanEnds, Takes, Logs, PutSecurityReceipt
  <1>8. CASE Finish(s)
    BY <1>8 DEF Finish, NoScan, ScanGoes, ScanEnds, Takes, Logs
  <1>9. CASE Promote(s)
    BY <1>9 DEF Promote, NoScan, ScanGoes, ScanEnds, Takes, Logs, PromoteClean, Promoted
  <1>10. CASE Complete(s)
    <2>1. /\ scans[s].verdict \in Verdicts /\ receipts[sha256] \in Verdicts
          /\ scans[s].verdict = "CLEAN" => receipts[sha256] = "CLEAN"
      BY <1>10 DEF Complete, Generation, VerdictsAreStored
    <2>2. CompleteScan(s, scans[s].verdict)
      BY <1>10 DEF Complete
    <2> QED
      BY <1>10, <2>1, <2>2, Completes DEF Complete, NoScan, ScanGoes, ScanEnds, Takes, Logs
  <1>11. CASE EnsureCleanBody(s)
    BY <1>11 DEF EnsureCleanBody, NoScan, ScanGoes, ScanEnds, Takes, Logs, PromoteClean
  <1>12. CASE ScanDies(s)
    BY <1>12 DEF ScanDies, NoScan, ScanGoes, ScanEnds, Takes, Logs
  <1> QED
    BY <1>1, <1>2, <1>3, <1>4, <1>5, <1>6, <1>7, <1>8, <1>9, <1>10, <1>11, <1>12

LEMMA ScanJournal ==
    ASSUME ArtifactInductive, NEW s \in Scanners, ScanMoves(s)
    PROVE  JournalAgrees'
  <1> USE ArtifactAssumption DEF
        ArtifactInductive, ScanMoves, intakeVars, scanVars, bodyVars, ArtifactTypeOK, IsFinal,
        ScanSteps, VerdictSteps, SweepSteps, Statuses, Verdicts, Rejections, Unavailable,
        Events, Generation, JournalAgrees
  <1>1. CASE FinalizeUpload(s)
    BY <1>1 DEF FinalizeUpload, NoScan, ScanGoes, ScanEnds, Takes, Logs
  <1>2. CASE InspectFinal(s)
    BY <1>2 DEF InspectFinal, NoScan, ScanGoes, ScanEnds, Takes, Logs
  <1>3. CASE ClaimScanned(s)
    BY <1>3 DEF ClaimScanned, NoScan, ScanGoes, ScanEnds, Takes, Logs
  <1>4. CASE ClaimScan(s)
    BY <1>4 DEF ClaimScan, NoScan, ScanGoes, ScanEnds, Takes, Logs, IsClaimable
  <1>5. CASE ClaimRefused(s)
    BY <1>5 DEF ClaimRefused, NoScan, ScanGoes, ScanEnds, Takes, Logs
  <1>6. CASE Evaluate(s)
    BY <1>6 DEF
           Evaluate, NoScan, ScanGoes, ScanEnds, Takes, Logs, Decision, Validation, Conflicts,
           Kinds
  <1>7. CASE StoreReceipt(s)
    BY <1>7 DEF StoreReceipt, NoScan, ScanGoes, ScanEnds, Takes, Logs, PutSecurityReceipt
  <1>8. CASE Finish(s)
    BY <1>8 DEF Finish, NoScan, ScanGoes, ScanEnds, Takes, Logs
  <1>9. CASE Promote(s)
    BY <1>9 DEF Promote, NoScan, ScanGoes, ScanEnds, Takes, Logs, PromoteClean, Promoted
  <1>10. CASE Complete(s)
    <2>1. /\ scans[s].verdict \in Verdicts /\ receipts[sha256] \in Verdicts
          /\ scans[s].verdict = "CLEAN" => receipts[sha256] = "CLEAN"
      BY <1>10 DEF Complete, Generation, VerdictsAreStored
    <2>2. CompleteScan(s, scans[s].verdict)
      BY <1>10 DEF Complete
    <2> QED
      BY <1>10, <2>1, <2>2, Completes DEF Complete, NoScan, ScanGoes, ScanEnds, Takes, Logs
  <1>11. CASE EnsureCleanBody(s)
    BY <1>11 DEF EnsureCleanBody, NoScan, ScanGoes, ScanEnds, Takes, Logs, PromoteClean
  <1>12. CASE ScanDies(s)
    BY <1>12 DEF ScanDies, NoScan, ScanGoes, ScanEnds, Takes, Logs
  <1> QED
    BY <1>1, <1>2, <1>3, <1>4, <1>5, <1>6, <1>7, <1>8, <1>9, <1>10, <1>11, <1>12

LEMMA ScanAttached ==
    ASSUME ArtifactInductive, NEW s \in Scanners, ScanMoves(s)
    PROVE  AttachedStaysClean'
  <1> USE ArtifactAssumption DEF
        ArtifactInductive, ScanMoves, intakeVars, scanVars, bodyVars, ArtifactTypeOK, IsFinal,
        ScanSteps, VerdictSteps, SweepSteps, Statuses, Verdicts, Rejections, Unavailable,
        Events, Generation, AttachedStaysClean
  <1>1. CASE FinalizeUpload(s)
    BY <1>1 DEF FinalizeUpload, NoScan, ScanGoes, ScanEnds, Takes, Logs
  <1>2. CASE InspectFinal(s)
    BY <1>2 DEF InspectFinal, NoScan, ScanGoes, ScanEnds, Takes, Logs
  <1>3. CASE ClaimScanned(s)
    BY <1>3 DEF ClaimScanned, NoScan, ScanGoes, ScanEnds, Takes, Logs
  <1>4. CASE ClaimScan(s)
    BY <1>4 DEF ClaimScan, NoScan, ScanGoes, ScanEnds, Takes, Logs, IsClaimable
  <1>5. CASE ClaimRefused(s)
    BY <1>5 DEF ClaimRefused, NoScan, ScanGoes, ScanEnds, Takes, Logs
  <1>6. CASE Evaluate(s)
    BY <1>6 DEF
           Evaluate, NoScan, ScanGoes, ScanEnds, Takes, Logs, Decision, Validation, Conflicts,
           Kinds
  <1>7. CASE StoreReceipt(s)
    BY <1>7 DEF StoreReceipt, NoScan, ScanGoes, ScanEnds, Takes, Logs, PutSecurityReceipt
  <1>8. CASE Finish(s)
    BY <1>8 DEF Finish, NoScan, ScanGoes, ScanEnds, Takes, Logs
  <1>9. CASE Promote(s)
    BY <1>9 DEF Promote, NoScan, ScanGoes, ScanEnds, Takes, Logs, PromoteClean, Promoted
  <1>10. CASE Complete(s)
    <2>1. /\ scans[s].verdict \in Verdicts /\ receipts[sha256] \in Verdicts
          /\ scans[s].verdict = "CLEAN" => receipts[sha256] = "CLEAN"
      BY <1>10 DEF Complete, Generation, VerdictsAreStored
    <2>2. CompleteScan(s, scans[s].verdict)
      BY <1>10 DEF Complete
    <2> QED
      BY <1>10, <2>1, <2>2, Completes DEF Complete, NoScan, ScanGoes, ScanEnds, Takes, Logs
  <1>11. CASE EnsureCleanBody(s)
    BY <1>11 DEF EnsureCleanBody, NoScan, ScanGoes, ScanEnds, Takes, Logs, PromoteClean
  <1>12. CASE ScanDies(s)
    BY <1>12 DEF ScanDies, NoScan, ScanGoes, ScanEnds, Takes, Logs
  <1> QED
    BY <1>1, <1>2, <1>3, <1>4, <1>5, <1>6, <1>7, <1>8, <1>9, <1>10, <1>11, <1>12

LEMMA ScanKeeps ==
    ASSUME ArtifactInductive, NEW s \in Scanners, ScanMoves(s)
    PROVE  ArtifactInductive'
  BY ScanTypes, ScanGeneration, ScanVerdicts, ScanBodies, ScanJournal, ScanAttached DEF ArtifactInductive

-------------------------------------------------------------------------------
\* What the sweeper does, and that it may die.
SweepMoves ==
    /\ \/ ListArtifacts \/ LookAtScan \/ SweepPromotes \/ SweepRejects \/ SweepCompletes
       \/ SweepLocks \/ Refresh \/ DeleteQuarantined \/ DeleteClean \/ SweepDies
    /\ UNCHANGED <<intakeVars, age, attached, uploads, scans>>
    /\ crashes' \in 0..MaxCrashes

LEMMA SweepTypes ==
    ASSUME ArtifactInductive, SweepMoves
    PROVE  ArtifactTypeOK'
  <1> USE ArtifactAssumption DEF
        ArtifactInductive, SweepMoves, intakeVars, scanVars, bodyVars, ArtifactTypeOK, IsFinal,
        ScanSteps, VerdictSteps, SweepSteps, Statuses, Verdicts, Rejections, Unavailable,
        Events, Generation, VerdictsAreStored
  <1>1. CASE ListArtifacts
    BY <1>1 DEF ListArtifacts, SweepGoes, SweepEnds, NoSweep, Logs
  <1>2. CASE LookAtScan
    BY <1>2 DEF LookAtScan, SweepGoes, SweepEnds, NoSweep, Logs
  <1>3. CASE SweepPromotes
    BY <1>3 DEF SweepPromotes, SweepGoes, SweepEnds, NoSweep, Logs, PromoteClean, Promoted
  <1>4. CASE SweepRejects
    BY <1>4 DEF SweepRejects, SweepGoes, SweepEnds, NoSweep, Logs, PutSecurityReceipt
  <1>5. CASE SweepCompletes
    <2>1. /\ sweep.verdict \in Verdicts /\ receipts[sha256] \in Verdicts
          /\ sweep.verdict = "CLEAN" => receipts[sha256] = "CLEAN"
      BY <1>5 DEF SweepCompletes, Generation, VerdictsAreStored
    <2>2. CompleteScan(None, sweep.verdict)
      BY <1>5 DEF SweepCompletes
    <2>3. /\ status' \in Statuses \cup {None} /\ journal' \subseteq Events
          /\ lease' \in [holder : Scanners \cup {None}, expired : BOOLEAN]
      BY <2>1, <2>2, Completes
    <2> QED
      BY <1>5, <2>3 DEF SweepCompletes, SweepGoes, SweepEnds, NoSweep, Logs
  <1>6. CASE SweepLocks
    <2>1. status' \in Statuses \cup {None} /\ journal' \subseteq Events
      <3>1. status \in Statuses \cup {None} /\ journal \subseteq Events
        OBVIOUS
      <3>2. Unavailable \in Statuses /\ "artifact.rejected" \in Events
        OBVIOUS
      <3>3. \/ status' = Unavailable /\ journal' = journal \cup {"artifact.rejected"}
            \/ status' = status /\ journal' = journal
        BY <1>6 DEF SweepLocks, Logs, Rejects
      <3> HIDE DEF ArtifactInductive, ArtifactTypeOK, Statuses, Events, Unavailable
      <3> QED
        BY <3>1, <3>2, <3>3
    <2> QED
      BY <1>6, <2>1 DEF SweepLocks, SweepGoes
  <1>7. CASE Refresh
    BY <1>7 DEF Refresh, SweepGoes, SweepEnds, NoSweep, Logs, MayDelete
  <1>8. CASE DeleteQuarantined
    BY <1>8 DEF DeleteQuarantined, SweepGoes, SweepEnds, NoSweep, Logs
  <1>9. CASE DeleteClean
    BY <1>9 DEF DeleteClean, SweepGoes, SweepEnds, NoSweep, Logs
  <1>10. CASE SweepDies
    BY <1>10 DEF SweepDies, SweepGoes, SweepEnds, NoSweep, Logs
  <1> QED
    BY <1>1, <1>2, <1>3, <1>4, <1>5, <1>6, <1>7, <1>8, <1>9, <1>10

LEMMA SweepGeneration ==
    ASSUME ArtifactInductive, SweepMoves
    PROVE  Generation'
  <1> USE ArtifactAssumption DEF
        ArtifactInductive, SweepMoves, intakeVars, scanVars, bodyVars, ArtifactTypeOK, IsFinal,
        ScanSteps, VerdictSteps, SweepSteps, Statuses, Verdicts, Rejections, Unavailable,
        Events, Generation
  <1>1. CASE ListArtifacts
    BY <1>1 DEF ListArtifacts, SweepGoes, SweepEnds, NoSweep, Logs
  <1>2. CASE LookAtScan
    BY <1>2 DEF LookAtScan, SweepGoes, SweepEnds, NoSweep, Logs
  <1>3. CASE SweepPromotes
    BY <1>3 DEF SweepPromotes, SweepGoes, SweepEnds, NoSweep, Logs, PromoteClean, Promoted
  <1>4. CASE SweepRejects
    BY <1>4 DEF SweepRejects, SweepGoes, SweepEnds, NoSweep, Logs, PutSecurityReceipt
  <1>5. CASE SweepCompletes
    <2>1. /\ sweep.verdict \in Verdicts /\ receipts[sha256] \in Verdicts
          /\ sweep.verdict = "CLEAN" => receipts[sha256] = "CLEAN"
      BY <1>5 DEF SweepCompletes, Generation, VerdictsAreStored
    <2>2. CompleteScan(None, sweep.verdict)
      BY <1>5 DEF SweepCompletes
    <2> QED
      BY <1>5, <2>1, <2>2, Completes DEF SweepCompletes, SweepGoes, SweepEnds, NoSweep, Logs
  <1>6. CASE SweepLocks
    BY <1>6 DEF SweepLocks, SweepGoes, SweepEnds, NoSweep, Logs, Rejects
  <1>7. CASE Refresh
    BY <1>7 DEF Refresh, SweepGoes, SweepEnds, NoSweep, Logs, MayDelete
  <1>8. CASE DeleteQuarantined
    BY <1>8 DEF DeleteQuarantined, SweepGoes, SweepEnds, NoSweep, Logs
  <1>9. CASE DeleteClean
    BY <1>9 DEF DeleteClean, SweepGoes, SweepEnds, NoSweep, Logs
  <1>10. CASE SweepDies
    BY <1>10 DEF SweepDies, SweepGoes, SweepEnds, NoSweep, Logs
  <1> QED
    BY <1>1, <1>2, <1>3, <1>4, <1>5, <1>6, <1>7, <1>8, <1>9, <1>10

LEMMA SweepVerdicts ==
    ASSUME ArtifactInductive, SweepMoves
    PROVE  VerdictsAreStored'
  <1> USE ArtifactAssumption DEF
        ArtifactInductive, SweepMoves, intakeVars, scanVars, bodyVars, ArtifactTypeOK, IsFinal,
        ScanSteps, VerdictSteps, SweepSteps, Statuses, Verdicts, Rejections, Unavailable,
        Events, Generation, VerdictsAreStored
  <1>1. CASE ListArtifacts
    BY <1>1 DEF ListArtifacts, SweepGoes, SweepEnds, NoSweep, Logs
  <1>2. CASE LookAtScan
    BY <1>2 DEF LookAtScan, SweepGoes, SweepEnds, NoSweep, Logs
  <1>3. CASE SweepPromotes
    BY <1>3 DEF SweepPromotes, SweepGoes, SweepEnds, NoSweep, Logs, PromoteClean, Promoted,
           BodiesAreThere, BodyKeptUntilVerdict
  <1>4. CASE SweepRejects
    BY <1>4 DEF SweepRejects, SweepGoes, SweepEnds, NoSweep, Logs, PutSecurityReceipt
  <1>5. CASE SweepCompletes
    <2>1. /\ sweep.verdict \in Verdicts /\ receipts[sha256] \in Verdicts
          /\ sweep.verdict = "CLEAN" => receipts[sha256] = "CLEAN"
      BY <1>5 DEF SweepCompletes, Generation, VerdictsAreStored
    <2>2. CompleteScan(None, sweep.verdict)
      BY <1>5 DEF SweepCompletes
    <2> QED
      BY <1>5, <2>1, <2>2, Completes DEF SweepCompletes, SweepGoes, SweepEnds, NoSweep, Logs
  <1>6. CASE SweepLocks
    BY <1>6 DEF SweepLocks, SweepGoes, SweepEnds, NoSweep, Logs, Rejects
  <1>7. CASE Refresh
    BY <1>7 DEF Refresh, SweepGoes, SweepEnds, NoSweep, Logs, MayDelete
  <1>8. CASE DeleteQuarantined
    BY <1>8 DEF DeleteQuarantined, SweepGoes, SweepEnds, NoSweep, Logs
  <1>9. CASE DeleteClean
    BY <1>9 DEF DeleteClean, SweepGoes, SweepEnds, NoSweep, Logs
  <1>10. CASE SweepDies
    BY <1>10 DEF SweepDies, SweepGoes, SweepEnds, NoSweep, Logs
  <1> QED
    BY <1>1, <1>2, <1>3, <1>4, <1>5, <1>6, <1>7, <1>8, <1>9, <1>10

LEMMA SweepBodies ==
    ASSUME ArtifactInductive, SweepMoves
    PROVE  BodiesAreThere'
  <1> USE ArtifactAssumption DEF
        ArtifactInductive, SweepMoves, intakeVars, scanVars, bodyVars, ArtifactTypeOK, IsFinal,
        ScanSteps, VerdictSteps, SweepSteps, Statuses, Verdicts, Rejections, Unavailable,
        Events, Generation, VerdictsAreStored, BodiesAreThere, BodyKeptUntilVerdict,
        CleanIsReadable, CleanBodyIsScanned
  <1>1. CASE ListArtifacts
    BY <1>1 DEF ListArtifacts, SweepGoes, SweepEnds, NoSweep, Logs
  <1>2. CASE LookAtScan
    BY <1>2 DEF LookAtScan, SweepGoes, SweepEnds, NoSweep, Logs
  <1>3. CASE SweepPromotes
    BY <1>3 DEF SweepPromotes, SweepGoes, SweepEnds, NoSweep, Logs, PromoteClean, Promoted
  <1>4. CASE SweepRejects
    BY <1>4 DEF SweepRejects, SweepGoes, SweepEnds, NoSweep, Logs, PutSecurityReceipt
  <1>5. CASE SweepCompletes
    <2>1. /\ sweep.verdict \in Verdicts /\ receipts[sha256] \in Verdicts
          /\ sweep.verdict = "CLEAN" => receipts[sha256] = "CLEAN"
      BY <1>5 DEF SweepCompletes, Generation, VerdictsAreStored
    <2>2. CompleteScan(None, sweep.verdict)
      BY <1>5 DEF SweepCompletes
    <2> QED
      BY <1>5, <2>1, <2>2, Completes DEF SweepCompletes, SweepGoes, SweepEnds, NoSweep, Logs
  <1>6. CASE SweepLocks
    BY <1>6 DEF SweepLocks, SweepGoes, SweepEnds, NoSweep, Logs, Rejects
  <1>7. CASE Refresh
    BY <1>7 DEF Refresh, SweepGoes, SweepEnds, NoSweep, Logs, MayDelete
  <1>8. CASE DeleteQuarantined
    BY <1>8 DEF DeleteQuarantined, SweepGoes, SweepEnds, NoSweep, Logs
  <1>9. CASE DeleteClean
    BY <1>9 DEF DeleteClean, SweepGoes, SweepEnds, NoSweep, Logs
  <1>10. CASE SweepDies
    BY <1>10 DEF SweepDies, SweepGoes, SweepEnds, NoSweep, Logs
  <1> QED
    BY <1>1, <1>2, <1>3, <1>4, <1>5, <1>6, <1>7, <1>8, <1>9, <1>10

LEMMA SweepJournal ==
    ASSUME ArtifactInductive, SweepMoves
    PROVE  JournalAgrees'
  <1> USE ArtifactAssumption DEF
        ArtifactInductive, SweepMoves, intakeVars, scanVars, bodyVars, ArtifactTypeOK, IsFinal,
        ScanSteps, VerdictSteps, SweepSteps, Statuses, Verdicts, Rejections, Unavailable,
        Events, Generation, JournalAgrees
  <1>1. CASE ListArtifacts
    BY <1>1 DEF ListArtifacts, SweepGoes, SweepEnds, NoSweep, Logs
  <1>2. CASE LookAtScan
    BY <1>2 DEF LookAtScan, SweepGoes, SweepEnds, NoSweep, Logs
  <1>3. CASE SweepPromotes
    BY <1>3 DEF SweepPromotes, SweepGoes, SweepEnds, NoSweep, Logs, PromoteClean, Promoted
  <1>4. CASE SweepRejects
    BY <1>4 DEF SweepRejects, SweepGoes, SweepEnds, NoSweep, Logs, PutSecurityReceipt
  <1>5. CASE SweepCompletes
    <2>1. /\ sweep.verdict \in Verdicts /\ receipts[sha256] \in Verdicts
          /\ sweep.verdict = "CLEAN" => receipts[sha256] = "CLEAN"
      BY <1>5 DEF SweepCompletes, Generation, VerdictsAreStored
    <2>2. CompleteScan(None, sweep.verdict)
      BY <1>5 DEF SweepCompletes
    <2> QED
      BY <1>5, <2>1, <2>2, Completes DEF SweepCompletes, SweepGoes, SweepEnds, NoSweep, Logs
  <1>6. CASE SweepLocks
    BY <1>6 DEF SweepLocks, SweepGoes, SweepEnds, NoSweep, Logs, Rejects
  <1>7. CASE Refresh
    BY <1>7 DEF Refresh, SweepGoes, SweepEnds, NoSweep, Logs, MayDelete
  <1>8. CASE DeleteQuarantined
    BY <1>8 DEF DeleteQuarantined, SweepGoes, SweepEnds, NoSweep, Logs
  <1>9. CASE DeleteClean
    BY <1>9 DEF DeleteClean, SweepGoes, SweepEnds, NoSweep, Logs
  <1>10. CASE SweepDies
    BY <1>10 DEF SweepDies, SweepGoes, SweepEnds, NoSweep, Logs
  <1> QED
    BY <1>1, <1>2, <1>3, <1>4, <1>5, <1>6, <1>7, <1>8, <1>9, <1>10

LEMMA SweepAttached ==
    ASSUME ArtifactInductive, SweepMoves
    PROVE  AttachedStaysClean'
  <1> USE ArtifactAssumption DEF
        ArtifactInductive, SweepMoves, intakeVars, scanVars, bodyVars, ArtifactTypeOK, IsFinal,
        ScanSteps, VerdictSteps, SweepSteps, Statuses, Verdicts, Rejections, Unavailable,
        Events, Generation, AttachedStaysClean
  <1>1. CASE ListArtifacts
    BY <1>1 DEF ListArtifacts, SweepGoes, SweepEnds, NoSweep, Logs
  <1>2. CASE LookAtScan
    BY <1>2 DEF LookAtScan, SweepGoes, SweepEnds, NoSweep, Logs
  <1>3. CASE SweepPromotes
    BY <1>3 DEF SweepPromotes, SweepGoes, SweepEnds, NoSweep, Logs, PromoteClean, Promoted
  <1>4. CASE SweepRejects
    BY <1>4 DEF SweepRejects, SweepGoes, SweepEnds, NoSweep, Logs, PutSecurityReceipt
  <1>5. CASE SweepCompletes
    <2>1. /\ sweep.verdict \in Verdicts /\ receipts[sha256] \in Verdicts
          /\ sweep.verdict = "CLEAN" => receipts[sha256] = "CLEAN"
      BY <1>5 DEF SweepCompletes, Generation, VerdictsAreStored
    <2>2. CompleteScan(None, sweep.verdict)
      BY <1>5 DEF SweepCompletes
    <2> QED
      BY <1>5, <2>1, <2>2, Completes DEF SweepCompletes, SweepGoes, SweepEnds, NoSweep, Logs
  <1>6. CASE SweepLocks
    BY <1>6 DEF SweepLocks, SweepGoes, SweepEnds, NoSweep, Logs, Rejects
  <1>7. CASE Refresh
    BY <1>7 DEF Refresh, SweepGoes, SweepEnds, NoSweep, Logs, MayDelete
  <1>8. CASE DeleteQuarantined
    BY <1>8 DEF DeleteQuarantined, SweepGoes, SweepEnds, NoSweep, Logs
  <1>9. CASE DeleteClean
    BY <1>9 DEF DeleteClean, SweepGoes, SweepEnds, NoSweep, Logs
  <1>10. CASE SweepDies
    BY <1>10 DEF SweepDies, SweepGoes, SweepEnds, NoSweep, Logs
  <1> QED
    BY <1>1, <1>2, <1>3, <1>4, <1>5, <1>6, <1>7, <1>8, <1>9, <1>10

LEMMA SweepKeeps ==
    ASSUME ArtifactInductive, SweepMoves
    PROVE  ArtifactInductive'
  BY SweepTypes, SweepGeneration, SweepVerdicts, SweepBodies, SweepJournal, SweepAttached DEF ArtifactInductive

-------------------------------------------------------------------------------
\* What an uploader does, and that it may die.
UploadMoves(u) ==
    /\ \/ Declare(u) \/ IssueTicket(u) \/ (\E d \in Payloads : RequireOpen(u, d))
       \/ FinalizeStream(u) \/ SpendTicket(u) \/ UploadDies(u)
    /\ UNCHANGED <<age, attached, scans, sweep>>
    /\ crashes' \in 0..MaxCrashes

LEMMA UploadTypes ==
    ASSUME ArtifactInductive, NEW u \in Uploaders, UploadMoves(u)
    PROVE  ArtifactTypeOK'
  <1> USE ArtifactAssumption DEF
        ArtifactInductive, UploadMoves, intakeVars, scanVars, bodyVars, ArtifactTypeOK, IsFinal,
        ScanSteps, VerdictSteps, SweepSteps, Statuses, Verdicts, Rejections, Unavailable,
        Events, Generation, VerdictsAreStored
  <1>1. CASE Declare(u)
    BY <1>1 DEF Declare, NoUpload, UploadGoes, UploadEnds, Logs
  <1>2. CASE IssueTicket(u)
    BY <1>2 DEF IssueTicket, NoUpload, UploadGoes, UploadEnds, Logs
  <1>3. CASE \E d \in Payloads : RequireOpen(u, d)
    BY <1>3 DEF RequireOpen, NoUpload, UploadGoes, UploadEnds, Logs
  <1>4. CASE FinalizeStream(u)
    <2>1. uploads[u].payload \in Payloads
      BY <1>4 DEF FinalizeStream
    <2>2. /\ status' \in Statuses \cup {None} /\ journal' \subseteq Events
          /\ sha256' \in Payloads \cup {None} /\ quarantine' \subseteq Payloads
      <3>1. /\ status \in Statuses \cup {None} /\ journal \subseteq Events
            /\ sha256 \in Payloads \cup {None} /\ quarantine \subseteq Payloads
            /\ {"REJECTED_SIZE", "REJECTED_TAMPERING", "QUARANTINED"} \subseteq Statuses
            /\ {"artifact.rejected", "artifact.quarantined"} \subseteq Events
        OBVIOUS
      <3>2. FinalizeRejects(u) \/ FinalizeQuarantines(u) \/ FinalizeRepeats(u)
        BY <1>4 DEF FinalizeStream
      <3> HIDE DEF ArtifactInductive, ArtifactTypeOK, Statuses, Events
      <3>3. CASE FinalizeRejects(u)
        BY <2>1, <3>1, <3>3 DEF FinalizeRejects, Rejects, Logs
      <3>4. CASE FinalizeQuarantines(u)
        BY <2>1, <3>1, <3>4 DEF FinalizeQuarantines, Logs
      <3>5. CASE FinalizeRepeats(u)
        BY <3>1, <3>5 DEF FinalizeRepeats
      <3> QED
        BY <3>2, <3>3, <3>4, <3>5
    <2>3. uploads' \in [Uploaders -> [pc : {"idle", "issue", "spend"}, payload : {None}]
                                    \cup [pc : {"stream"}, payload : Payloads]]
      BY <1>4 DEF FinalizeStream, FinalizeRejects, FinalizeQuarantines, FinalizeRepeats,
         UploadGoes, UploadEnds, NoUpload
    <2> QED
      BY <1>4, <2>2, <2>3 DEF FinalizeStream
  <1>5. CASE SpendTicket(u)
    BY <1>5 DEF SpendTicket, NoUpload, UploadGoes, UploadEnds, Logs
  <1>6. CASE UploadDies(u)
    BY <1>6 DEF UploadDies, NoUpload, UploadGoes, UploadEnds, Logs, Accepts
  <1> QED
    BY <1>1, <1>2, <1>3, <1>4, <1>5, <1>6

LEMMA UploadGeneration ==
    ASSUME ArtifactInductive, NEW u \in Uploaders, UploadMoves(u)
    PROVE  Generation'
  <1> USE ArtifactAssumption DEF
        ArtifactInductive, UploadMoves, intakeVars, scanVars, bodyVars, ArtifactTypeOK, IsFinal,
        ScanSteps, VerdictSteps, SweepSteps, Statuses, Verdicts, Rejections, Unavailable,
        Events, Generation
  <1>1. CASE Declare(u)
    BY <1>1 DEF Declare, NoUpload, UploadGoes, UploadEnds, Logs
  <1>2. CASE IssueTicket(u)
    BY <1>2 DEF IssueTicket, NoUpload, UploadGoes, UploadEnds, Logs
  <1>3. CASE \E d \in Payloads : RequireOpen(u, d)
    BY <1>3 DEF RequireOpen, NoUpload, UploadGoes, UploadEnds, Logs
  <1>4. CASE FinalizeStream(u)
    BY <1>4 DEF
           FinalizeStream, NoUpload, UploadGoes, UploadEnds, Logs, FinalizeRejects,
           FinalizeQuarantines, FinalizeRepeats, Accepts, Rejects
  <1>5. CASE SpendTicket(u)
    BY <1>5 DEF SpendTicket, NoUpload, UploadGoes, UploadEnds, Logs
  <1>6. CASE UploadDies(u)
    BY <1>6 DEF UploadDies, NoUpload, UploadGoes, UploadEnds, Logs, Accepts
  <1> QED
    BY <1>1, <1>2, <1>3, <1>4, <1>5, <1>6

LEMMA UploadVerdicts ==
    ASSUME ArtifactInductive, NEW u \in Uploaders, UploadMoves(u)
    PROVE  VerdictsAreStored'
  <1> USE ArtifactAssumption DEF
        ArtifactInductive, UploadMoves, intakeVars, scanVars, bodyVars, ArtifactTypeOK, IsFinal,
        ScanSteps, VerdictSteps, SweepSteps, Statuses, Verdicts, Rejections, Unavailable,
        Events, Generation, VerdictsAreStored
  <1>1. CASE Declare(u)
    BY <1>1 DEF Declare, NoUpload, UploadGoes, UploadEnds, Logs
  <1>2. CASE IssueTicket(u)
    BY <1>2 DEF IssueTicket, NoUpload, UploadGoes, UploadEnds, Logs
  <1>3. CASE \E d \in Payloads : RequireOpen(u, d)
    BY <1>3 DEF RequireOpen, NoUpload, UploadGoes, UploadEnds, Logs
  <1>4. CASE FinalizeStream(u)
    BY <1>4 DEF
           FinalizeStream, NoUpload, UploadGoes, UploadEnds, Logs, FinalizeRejects,
           FinalizeQuarantines, FinalizeRepeats, Accepts, Rejects
  <1>5. CASE SpendTicket(u)
    BY <1>5 DEF SpendTicket, NoUpload, UploadGoes, UploadEnds, Logs
  <1>6. CASE UploadDies(u)
    BY <1>6 DEF UploadDies, NoUpload, UploadGoes, UploadEnds, Logs, Accepts
  <1> QED
    BY <1>1, <1>2, <1>3, <1>4, <1>5, <1>6

LEMMA UploadBodies ==
    ASSUME ArtifactInductive, NEW u \in Uploaders, UploadMoves(u)
    PROVE  BodiesAreThere'
  <1> USE ArtifactAssumption DEF
        ArtifactInductive, UploadMoves, intakeVars, scanVars, bodyVars, ArtifactTypeOK, IsFinal,
        ScanSteps, VerdictSteps, SweepSteps, Statuses, Verdicts, Rejections, Unavailable,
        Events, Generation, VerdictsAreStored, BodiesAreThere, BodyKeptUntilVerdict,
        CleanIsReadable, CleanBodyIsScanned
  <1>1. CASE Declare(u)
    BY <1>1 DEF Declare, NoUpload, UploadGoes, UploadEnds, Logs
  <1>2. CASE IssueTicket(u)
    BY <1>2 DEF IssueTicket, NoUpload, UploadGoes, UploadEnds, Logs
  <1>3. CASE \E d \in Payloads : RequireOpen(u, d)
    BY <1>3 DEF RequireOpen, NoUpload, UploadGoes, UploadEnds, Logs
  <1>4. CASE FinalizeStream(u)
    BY <1>4 DEF
           FinalizeStream, NoUpload, UploadGoes, UploadEnds, Logs, FinalizeRejects,
           FinalizeQuarantines, FinalizeRepeats, Accepts, Rejects
  <1>5. CASE SpendTicket(u)
    BY <1>5 DEF SpendTicket, NoUpload, UploadGoes, UploadEnds, Logs
  <1>6. CASE UploadDies(u)
    BY <1>6 DEF UploadDies, NoUpload, UploadGoes, UploadEnds, Logs, Accepts
  <1> QED
    BY <1>1, <1>2, <1>3, <1>4, <1>5, <1>6

LEMMA UploadJournal ==
    ASSUME ArtifactInductive, NEW u \in Uploaders, UploadMoves(u)
    PROVE  JournalAgrees'
  <1> USE ArtifactAssumption DEF
        ArtifactInductive, UploadMoves, intakeVars, scanVars, bodyVars, ArtifactTypeOK, IsFinal,
        ScanSteps, VerdictSteps, SweepSteps, Statuses, Verdicts, Rejections, Unavailable,
        Events, Generation, JournalAgrees
  <1>1. CASE Declare(u)
    BY <1>1 DEF Declare, NoUpload, UploadGoes, UploadEnds, Logs
  <1>2. CASE IssueTicket(u)
    BY <1>2 DEF IssueTicket, NoUpload, UploadGoes, UploadEnds, Logs
  <1>3. CASE \E d \in Payloads : RequireOpen(u, d)
    BY <1>3 DEF RequireOpen, NoUpload, UploadGoes, UploadEnds, Logs
  <1>4. CASE FinalizeStream(u)
    BY <1>4 DEF
           FinalizeStream, NoUpload, UploadGoes, UploadEnds, Logs, FinalizeRejects,
           FinalizeQuarantines, FinalizeRepeats, Accepts, Rejects
  <1>5. CASE SpendTicket(u)
    BY <1>5 DEF SpendTicket, NoUpload, UploadGoes, UploadEnds, Logs
  <1>6. CASE UploadDies(u)
    BY <1>6 DEF UploadDies, NoUpload, UploadGoes, UploadEnds, Logs, Accepts
  <1> QED
    BY <1>1, <1>2, <1>3, <1>4, <1>5, <1>6

LEMMA UploadAttached ==
    ASSUME ArtifactInductive, NEW u \in Uploaders, UploadMoves(u)
    PROVE  AttachedStaysClean'
  <1> USE ArtifactAssumption DEF
        ArtifactInductive, UploadMoves, intakeVars, scanVars, bodyVars, ArtifactTypeOK, IsFinal,
        ScanSteps, VerdictSteps, SweepSteps, Statuses, Verdicts, Rejections, Unavailable,
        Events, Generation, AttachedStaysClean
  <1>1. CASE Declare(u)
    BY <1>1 DEF Declare, NoUpload, UploadGoes, UploadEnds, Logs
  <1>2. CASE IssueTicket(u)
    BY <1>2 DEF IssueTicket, NoUpload, UploadGoes, UploadEnds, Logs
  <1>3. CASE \E d \in Payloads : RequireOpen(u, d)
    BY <1>3 DEF RequireOpen, NoUpload, UploadGoes, UploadEnds, Logs
  <1>4. CASE FinalizeStream(u)
    BY <1>4 DEF
           FinalizeStream, NoUpload, UploadGoes, UploadEnds, Logs, FinalizeRejects,
           FinalizeQuarantines, FinalizeRepeats, Accepts, Rejects
  <1>5. CASE SpendTicket(u)
    BY <1>5 DEF SpendTicket, NoUpload, UploadGoes, UploadEnds, Logs
  <1>6. CASE UploadDies(u)
    BY <1>6 DEF UploadDies, NoUpload, UploadGoes, UploadEnds, Logs, Accepts
  <1> QED
    BY <1>1, <1>2, <1>3, <1>4, <1>5, <1>6

LEMMA UploadKeeps ==
    ASSUME ArtifactInductive, NEW u \in Uploaders, UploadMoves(u)
    PROVE  ArtifactInductive'
  BY UploadTypes, UploadGeneration, UploadVerdicts, UploadBodies, UploadJournal, UploadAttached DEF ArtifactInductive

-------------------------------------------------------------------------------
LEMMA WorldKeeps ==
    ASSUME ArtifactInductive, Attach \/ LeaseExpires \/ Ages \/ UNCHANGED artifactVars
    PROVE  ArtifactInductive'
  <1> USE DEF ArtifactInductive, intakeVars, scanVars, bodyVars, ArtifactTypeOK, Generation,
        VerdictsAreStored, BodiesAreThere, BodyKeptUntilVerdict, CleanIsReadable,
        CleanBodyIsScanned, JournalAgrees, AttachedStaysClean
  <1>1. CASE Attach
    BY <1>1 DEF Attach, IsAttachable
  <1>2. CASE LeaseExpires
    BY <1>2 DEF LeaseExpires
  <1>3. CASE Ages
    BY <1>3 DEF Ages
  <1>4. CASE UNCHANGED artifactVars
    BY <1>4 DEF artifactVars
  <1> QED
    BY <1>1, <1>2, <1>3, <1>4

LEMMA CrashIsOneOf ==
    ASSUME ArtifactInductive, Crash
    PROVE  \/ \E u \in Uploaders : UploadMoves(u)
           \/ \E s \in Scanners : ScanMoves(s)
           \/ SweepMoves
  <1>1. crashes' \in 0..MaxCrashes
    BY ArtifactAssumption DEF Crash, ArtifactInductive, ArtifactTypeOK
  <1> QED
    BY <1>1 DEF Crash, UploadMoves, ScanMoves, SweepMoves

\* The invariant the theorems rest on, for every step of the artifact.
THEOREM ArtifactInvariant == ArtifactSpec => []ArtifactInductive
  <1>1. ArtifactInit => ArtifactInductive
    BY InitHolds
  <1>2. ArtifactInductive /\ [ArtifactNext]_artifactVars => ArtifactInductive'
    <2> SUFFICES ASSUME ArtifactInductive, [ArtifactNext]_artifactVars
                 PROVE  ArtifactInductive'
      OBVIOUS
    <2>1. ASSUME NEW u \in Uploaders, UploadStep(u) PROVE ArtifactInductive'
      <3>1. UploadMoves(u)
        BY <2>1 DEF UploadStep, UploadMoves, ArtifactInductive, ArtifactTypeOK
      <3> QED
        BY <3>1, UploadKeeps
    <2>2. ASSUME NEW s \in Scanners, ScanStep(s) PROVE ArtifactInductive'
      <3>1. ScanMoves(s)
        BY <2>2 DEF ScanStep, ScanMoves, ArtifactInductive, ArtifactTypeOK
      <3> QED
        BY <3>1, ScanKeeps
    <2>3. CASE SweepStep
      <3>1. SweepMoves
        BY <2>3 DEF SweepStep, SweepMoves, ArtifactInductive, ArtifactTypeOK
      <3> QED
        BY <3>1, SweepKeeps
    <2>4. CASE Attach \/ LeaseExpires \/ Ages \/ UNCHANGED artifactVars
      BY <2>4, WorldKeeps
    <2>5. CASE Crash
      BY <2>5, CrashIsOneOf, UploadKeeps, ScanKeeps, SweepKeeps
    <2> QED
      BY <2>1, <2>2, <2>3, <2>4, <2>5 DEF ArtifactNext
  <1> QED
    BY <1>1, <1>2, PTL DEF ArtifactSpec

\* Every variable keeps its type.
THEOREM ArtifactTypes == ArtifactSpec => []ArtifactTypeOK
  BY ArtifactInvariant, PTL DEF ArtifactInductive

\* A verdict on accepted bytes is their security receipt's, or a given-up scan's, and a
\* CLEAN one is of the declared bytes, valid.
THEOREM VerdictsAreEarned == ArtifactSpec => []VerdictIsEarned
  <1>1. ArtifactInductive => VerdictIsEarned
    BY DEF ArtifactInductive, ArtifactTypeOK, Generation, VerdictsAreStored, VerdictIsEarned
  <1> QED
    BY <1>1, ArtifactInvariant, PTL

\* Nothing is in the clean tree that was not scanned and found clean (promote,
\* complete_scan).
THEOREM CleanTreeIsScanned == ArtifactSpec => []CleanBodyIsScanned
  BY ArtifactInvariant, PTL DEF ArtifactInductive, BodiesAreThere

\* Whatever two stores fail between, a CLEAN artifact has its body until it expires.
THEOREM CleanCanBeRead == ArtifactSpec => []CleanIsReadable
  BY ArtifactInvariant, PTL DEF ArtifactInductive, BodiesAreThere

\* Bytes that wait for their verdict are never swept away.
THEOREM WaitingBodyIsKept == ArtifactSpec => []BodyKeptUntilVerdict
  BY ArtifactInvariant, PTL DEF ArtifactInductive, BodiesAreThere

\* The journal tells the verdict.
THEOREM JournalIsTrue == ArtifactSpec => []JournalAgrees
  BY ArtifactInvariant, PTL DEF ArtifactInductive

\* What a bundle was given as clean stays clean.
THEOREM AttachmentsHold == ArtifactSpec => []AttachedStaysClean
  BY ArtifactInvariant, PTL DEF ArtifactInductive

\* No step of any session, nor its death, revises a verdict or the accepted bytes.
LEMMA NothingIsRevised ==
    ASSUME ArtifactInductive, [ArtifactNext]_artifactVars
    PROVE  /\ IsFinal(status) => status' = status
           /\ sha256 # None => sha256' = sha256
  <1> USE DEF intakeVars, scanVars, bodyVars, IsFinal, Verdicts, Rejections, Unavailable
  <1>1. ASSUME NEW u \in Uploaders, UploadStep(u) \/ UploadDies(u)
        PROVE  /\ IsFinal(status) => status' = status
               /\ sha256 # None => sha256' = sha256
    BY <1>1, ArtifactAssumption
       DEF UploadStep, UploadDies, Declare, IssueTicket, RequireOpen, FinalizeStream,
           FinalizeRejects, FinalizeQuarantines, FinalizeRepeats, Accepts, SpendTicket,
           ArtifactInductive, Generation, Statuses
  <1>2. ASSUME NEW s \in Scanners, ScanStep(s)
        PROVE  /\ IsFinal(status) => status' = status
               /\ sha256' = sha256
    BY <1>2 DEF ScanStep, FinalizeUpload, InspectFinal, ClaimScanned, ClaimScan, IsClaimable,
                ClaimRefused, Evaluate, StoreReceipt, Finish, Promote, Complete,
                CompleteScan, CanComplete, EnsureCleanBody
  <1>3. CASE SweepStep
    BY <1>3 DEF SweepStep, ListArtifacts, LookAtScan, SweepPromotes, SweepRejects,
                SweepCompletes, CompleteScan, CanComplete, SweepLocks, Refresh,
                DeleteQuarantined, DeleteClean
  <1>4. CASE Attach \/ LeaseExpires \/ Ages \/ UNCHANGED artifactVars
    BY <1>4 DEF Attach, LeaseExpires, Ages, artifactVars
  <1>5. CASE Crash
    BY <1>1, <1>5 DEF Crash, ScanDies, SweepDies
  <1> QED
    BY <1>1, <1>2, <1>3, <1>4, <1>5 DEF ArtifactNext

\* A verdict never changes, whichever scanner, sweep or upload comes late.
THEOREM VerdictsAreFinal == ArtifactSpec => VerdictIsFinal
  <1>1. ArtifactInductive /\ [ArtifactNext]_artifactVars =>
           [IsFinal(status) => status' = status]_artifactVars
    BY NothingIsRevised
  <1> QED
    BY <1>1, ArtifactInvariant, PTL DEF ArtifactSpec, VerdictIsFinal

\* Accepted bytes are never replaced by others.
THEOREM BytesAreFinal == ArtifactSpec => OneGeneration
  <1>1. ArtifactInductive /\ [ArtifactNext]_artifactVars =>
           [sha256 # None => sha256' = sha256]_artifactVars
    BY NothingIsRevised
  <1> QED
    BY <1>1, ArtifactInvariant, PTL DEF ArtifactSpec, OneGeneration
===============================================================================
